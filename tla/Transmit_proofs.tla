-------------------------- MODULE Transmit_proofs --------------------------
(***************************************************************************)
(* Proofs about Transmit, for every number of peers, tasks, slots and      *)
(* packets in flight and for all times.                                    *)
(***************************************************************************)
EXTENDS Transmit, FiniteSetTheorems, TLAPS

-----------------------------------------------------------------------------
(* Counting the packets of some kinds.                                     *)

Indices(q, kinds) == {i \in DOMAIN q : q[i].kind \in kinds}

LEMMA IndicesFinite ==
    ASSUME NEW q \in Seq(Packet), NEW kinds
    PROVE  IsFiniteSet(Indices(q, kinds)) /\ Cardinality(Indices(q, kinds)) \in Nat
<1>1. Len(q) \in Nat /\ DOMAIN q = 1..Len(q)
  OBVIOUS
<1>2. IsFiniteSet(1..Len(q))
  BY <1>1, FS_Interval
<1>3. Indices(q, kinds) \in SUBSET (1..Len(q))
  BY <1>1 DEF Indices
<1>4. QED
  BY <1>2, <1>3, FS_Subset, FS_CardinalityType

(* One more packet is at most one more of any kind, and of its own only.   *)
LEMMA AppendCounts ==
    ASSUME NEW q \in Seq(Packet), NEW p \in Packet, NEW kinds
    PROVE  Cardinality(Indices(Append(q, p), kinds)) =
             Cardinality(Indices(q, kinds)) + (IF p.kind \in kinds THEN 1 ELSE 0)
<1>1. CASE p.kind \in kinds
  <2>1. Indices(Append(q, p), kinds) = Indices(q, kinds) \cup {Len(q) + 1}
    BY <1>1 DEF Indices
  <2>2. Len(q) + 1 \notin Indices(q, kinds)
    BY DEF Indices
  <2>3. QED
    BY <1>1, <2>1, <2>2, IndicesFinite, FS_AddElement
<1>2. CASE p.kind \notin kinds
  <2>1. Indices(Append(q, p), kinds) = Indices(q, kinds)
    BY <1>2 DEF Indices
  <2>2. QED
    BY <1>2, <2>1, IndicesFinite
<1>3. QED
  BY <1>1, <1>2

(* Taking the oldest packet makes none more.                               *)
LEMMA TailCounts ==
    ASSUME NEW q \in Seq(Packet), q # <<>>, NEW kinds
    PROVE  Cardinality(Indices(Tail(q), kinds)) <= Cardinality(Indices(q, kinds))
<1> DEFINE f == [i \in Indices(Tail(q), kinds) |-> i + 1]
<1>1. \A i \in Indices(Tail(q), kinds) : i \in Nat /\ i + 1 \in Indices(q, kinds)
  BY DEF Indices
<1>2. f \in Injection(Indices(Tail(q), kinds), Indices(q, kinds))
  <2>1. f \in [Indices(Tail(q), kinds) -> Indices(q, kinds)]
    BY <1>1
  <2>2. \A i, j \in Indices(Tail(q), kinds) : f[i] = f[j] => i = j
    BY <1>1
  <2>3. QED
    BY <2>1, <2>2 DEF Injection, IsInjective
<1>3. QED
  BY <1>2, IndicesFinite, FS_Injection
-----------------------------------------------------------------------------
(* Types.                                                                  *)

PeerType == [listed : BOOLEAN, missed : 0..UnreachableAfter,
             unreachable : BOOLEAN, probeIn : 0..ProbeInterval]

TaskType == [pc : TaskPCs, kind : Kinds \cup {"none"}, reach : SUBSET Mac,
             due : SUBSET Mac, waited : 0..WaitCap]

SenderType == [pc : SenderPCs, packet : Packet \cup {NoPacket}, held : 0..MaxPreempt]

QueueOK == queue \in Seq(Packet) /\ ShortsWaiting <= HighLimit /\ Waiting({"frame"}) <= FrameSlots

StatsOK ==
    /\ inFlight \in 0..MaxInFlight
    /\ refused \in BOOLEAN
    /\ stamps \in [confirm : 0..AgeCap, restart : 0..AgeCap]
    /\ restarts \in [some : BOOLEAN, confirmed : BOOLEAN]

DriverOK == unconfirmed \in Seq(Mac) /\ stuck \in {"no", "espnow", "wifi", "down"}

(* A task that sends has the kind of its packets.                          *)
TaskOK ==
    /\ task \in [Tasks -> TaskType]
    /\ \A t \in Tasks : task[t].pc \in {"push", "delay"} => task[t].kind \in Kinds

(* The sender has a packet from taking it to handing it over.              *)
HasPacket == sender.pc \in {"lookup", "count", "send"} => sender.packet \in Packet

TypeInv ==
    /\ QueueOK
    /\ notified \in BOOLEAN
    /\ peers \in [Mac -> PeerType]
    /\ StatsOK
    /\ sender \in SenderType
    /\ TaskOK
    /\ DriverOK
    /\ present \subseteq Mac
    /\ HasPacket

LEMMA ConstantsTyped ==
    /\ AgeCap \in Nat /\ StallTime \in Nat /\ Backoff \in Nat /\ MaxPreempt \in Nat
    /\ StallTime + MaxPreempt <= AgeCap
    /\ WaitCap \in Nat /\ FlushWait \in Nat
    /\ ProbeInterval \in Nat /\ UnreachableAfter \in Nat
    /\ LowLimit \in Nat /\ NormalLimit \in Nat /\ HighLimit \in Nat /\ FrameSlots \in Nat
    /\ MaxInFlight \in Nat /\ MaxInFlight >= 1
BY TransmitAssumption DEF AgeCap, WaitCap, LongerOf, Numbers

(* An entry, a sender, a task keep their types when one field changes.      *)
LEMMA PeerFields ==
    ASSUME NEW p \in PeerType
    PROVE  /\ \A v \in BOOLEAN : [p EXCEPT !.listed = v] \in PeerType
           /\ \A v \in 0..UnreachableAfter : [p EXCEPT !.missed = v] \in PeerType
           /\ \A v \in BOOLEAN : [p EXCEPT !.unreachable = v] \in PeerType
           /\ \A v \in 0..ProbeInterval : [p EXCEPT !.probeIn = v] \in PeerType
BY Zenon DEF PeerType

LEMMA SenderFields ==
    ASSUME NEW s \in SenderType
    PROVE  /\ \A v \in SenderPCs : [s EXCEPT !.pc = v] \in SenderType
           /\ \A v \in 0..MaxPreempt : [s EXCEPT !.held = v] \in SenderType
BY Zenon DEF SenderType

LEMMA TaskFields ==
    ASSUME NEW c \in TaskType
    PROVE  /\ \A v \in TaskPCs : [c EXCEPT !.pc = v] \in TaskType
           /\ \A v \in SUBSET Mac : [c EXCEPT !.reach = v] \in TaskType
           /\ \A v \in SUBSET Mac : [c EXCEPT !.due = v] \in TaskType
           /\ \A v \in 0..WaitCap : [c EXCEPT !.waited = v] \in TaskType
BY Zenon DEF TaskType

LEMMA FreshTyped == Fresh \in PeerType /\ Unlisted \in PeerType
<1>1. Fresh \in PeerType
  BY ConstantsTyped DEF Fresh, PeerType
<1>2. QED
  BY <1>1, PeerFields, Zenon DEF Unlisted

LEMMA OlderTyped ==
    ASSUME NEW cap \in Nat, NEW age \in 0..cap
    PROVE  Older(age, cap) \in 0..cap
BY DEF Older

LEMMA NotedTyped ==
    ASSUME NEW p \in PeerType, NEW delivered
    PROVE  Noted(p, delivered) \in PeerType
<1>1. /\ p.missed \in 0..UnreachableAfter
      /\ 0 \in 0..UnreachableAfter /\ ProbeInterval \in 0..ProbeInterval
  BY ConstantsTyped DEF PeerType
<1>2. Older(p.missed, UnreachableAfter) \in 0..UnreachableAfter
  BY <1>1, ConstantsTyped, OlderTyped
<1>3. CASE ~p.listed \/ delivered
  <2>1. [p EXCEPT !.missed = 0, !.unreachable = FALSE] \in PeerType
    BY <1>1, PeerFields, Zenon
  <2>2. QED
    BY <1>3, <2>1 DEF Noted
<1>4. CASE p.listed /\ ~delivered
  <2> DEFINE missed == Older(p.missed, UnreachableAfter)
  <2>1. [p EXCEPT !.missed = missed] \in PeerType
    BY <1>2, PeerFields, Zenon
  <2>2. [p EXCEPT !.missed = missed, !.unreachable = TRUE, !.probeIn = ProbeInterval] \in PeerType
    BY <1>1, <2>1, PeerFields, Zenon
  <2>3. QED
    BY <1>4, <2>1, <2>2 DEF Noted
<1>5. QED
  BY <1>3, <1>4

LEMMA TypeInitial == Init => TypeInv
<1> SUFFICES ASSUME Init PROVE TypeInv
  OBVIOUS
<1>1. QueueOK
  <2>1. /\ queue \in Seq(Packet)
        /\ Indices(queue, Kinds \ {"frame"}) = {}
        /\ Indices(queue, {"frame"}) = {}
    BY DEF Init, Indices
  <2>2. /\ ShortsWaiting = Cardinality(Indices(queue, Kinds \ {"frame"}))
        /\ Waiting({"frame"}) = Cardinality(Indices(queue, {"frame"}))
    BY DEF ShortsWaiting, Waiting, Indices
  <2>3. ShortsWaiting = 0 /\ Waiting({"frame"}) = 0
    BY <2>1, <2>2, FS_EmptySet, Zenon
  <2>4. QED
    BY <2>1, <2>3, ConstantsTyped DEF QueueOK
<1>2. peers \in [Mac -> PeerType]
  BY FreshTyped DEF Init
<1>3. TaskOK
  BY ConstantsTyped DEF Init, AtRest, TaskType, TaskPCs, TaskOK
<1>4. sender \in SenderType
  BY ConstantsTyped DEF Init, SenderType, SenderPCs
<1>5. StatsOK
  <2>1. inFlight \in 0..MaxInFlight
    BY ConstantsTyped DEF Init
  <2>2. stamps \in [confirm : 0..AgeCap, restart : 0..AgeCap]
    BY ConstantsTyped DEF Init
  <2>3. restarts \in [some : BOOLEAN, confirmed : BOOLEAN]
    BY DEF Init
  <2>4. refused \in BOOLEAN
    BY Zenon DEF Init
  <2>5. QED
    BY <2>1, <2>2, <2>3, <2>4 DEF StatsOK
<1>6. DriverOK
  BY DEF Init, DriverOK
<1>7. HasPacket /\ notified \in BOOLEAN /\ present \subseteq Mac
  BY DEF Init, HasPacket
<1>8. QED
  BY <1>1, <1>2, <1>3, <1>4, <1>5, <1>6, <1>7 DEF TypeInv, TaskOK

(* deliver(): what is put into the queue fits.                             *)
LEMMA PushTyped ==
    ASSUME QueueOK, NEW p \in Packet, Push(p)
    PROVE  QueueOK'
<1> DEFINE short == Kinds \ {"frame"}
<1>1. queue \in Seq(Packet) /\ ShortsWaiting <= HighLimit /\ Waiting({"frame"}) <= FrameSlots
  BY DEF QueueOK
<1>2. CASE Replaced(p)
  BY <1>1, <1>2 DEF Push, QueueOK, ShortsWaiting, Waiting
<1>3. CASE ~Replaced(p)
  <2>1. queue' = Append(queue, p) /\ Admits(p.kind)
    BY <1>3 DEF Push
  <2>2. /\ ShortsWaiting = Cardinality(Indices(queue, short))
        /\ Waiting({"frame"}) = Cardinality(Indices(queue, {"frame"}))
        /\ ShortsWaiting' = Cardinality(Indices(queue', short))
        /\ Waiting({"frame"})' = Cardinality(Indices(queue', {"frame"}))
    BY DEF ShortsWaiting, Waiting, Indices
  <2>3. /\ ShortsWaiting' = ShortsWaiting + (IF p.kind \in short THEN 1 ELSE 0)
        /\ Waiting({"frame"})' = Waiting({"frame"}) + (IF p.kind \in {"frame"} THEN 1 ELSE 0)
    BY <1>1, <2>1, <2>2, AppendCounts
  <2>4. p.kind \in {"value", "note", "off", "frame"}
    BY TransmitAssumption DEF Packet
  <2>5. ShortsWaiting \in Nat /\ Waiting({"frame"}) \in Nat
    BY <1>1, <2>2, IndicesFinite
  <2>6. /\ p.kind # "frame" => ShortsWaiting < HighLimit
        /\ p.kind = "frame" => Waiting({"frame"}) < FrameSlots
    BY <2>1, <2>4, <2>5, ConstantsTyped, TransmitAssumption DEF Admits
  <2>7. queue' \in Seq(Packet)
    BY <1>1, <2>1
  <2>8. QED
    BY <1>1, <2>3, <2>5, <2>6, <2>7, ConstantsTyped DEF QueueOK
<1>4. QED
  BY <1>2, <1>3

LEMMA PopTyped ==
    ASSUME QueueOK, Pop
    PROVE  QueueOK' /\ Head(queue) \in Packet
<1>1. /\ queue \in Seq(Packet) /\ ShortsWaiting <= HighLimit /\ Waiting({"frame"}) <= FrameSlots
      /\ queue # <<>> /\ queue' = Tail(queue)
  BY DEF QueueOK, Pop
<1>2. queue' \in Seq(Packet) /\ Head(queue) \in Packet
  BY <1>1
<1>3. \A kinds : Cardinality(Indices(queue', kinds)) <= Cardinality(Indices(queue, kinds))
  BY <1>1, TailCounts
<1>4. \A kinds : /\ Cardinality(Indices(queue, kinds)) \in Nat
                 /\ Cardinality(Indices(queue', kinds)) \in Nat
  BY <1>1, <1>2, IndicesFinite
<1>5. /\ ShortsWaiting = Cardinality(Indices(queue, Kinds \ {"frame"}))
      /\ Waiting({"frame"}) = Cardinality(Indices(queue, {"frame"}))
      /\ ShortsWaiting' = Cardinality(Indices(queue', Kinds \ {"frame"}))
      /\ Waiting({"frame"})' = Cardinality(Indices(queue', {"frame"}))
  BY DEF ShortsWaiting, Waiting, Indices
<1>6. QED
  BY <1>1, <1>2, <1>3, <1>4, <1>5, ConstantsTyped DEF QueueOK

LEMMA QueueUnchanged ==
    ASSUME QueueOK, UNCHANGED queue
    PROVE  QueueOK'
BY DEF QueueOK, ShortsWaiting, Waiting

(* The sender goes to a step in which it needs no other packet.            *)
LEMMA GotoTyped ==
    ASSUME sender \in SenderType, NEW pc \in SenderPCs, Goto(pc),
           pc \in {"count", "send"} => sender.packet \in Packet, pc # "lookup"
    PROVE  /\ sender' \in SenderType /\ HasPacket'
           /\ sender'.pc = pc /\ sender'.packet = sender.packet /\ sender'.held = 0
<1>1. 0 \in 0..MaxPreempt
  BY ConstantsTyped
<1>2. sender' \in SenderType
  BY <1>1, SenderFields, Zenon DEF Goto
<1>3. sender'.pc = pc /\ sender'.packet = sender.packet /\ sender'.held = 0
  BY Zenon DEF Goto, SenderType
<1>4. QED
  BY <1>2, <1>3 DEF HasPacket

LEMMA AgainTyped == Again \in SenderType /\ Again.pc = "stallTime" /\ Again.held = 0
BY ConstantsTyped DEF Again, SenderType, SenderPCs

(* A task gets another entry, the others keep theirs.                      *)
LEMMA TaskUpdated ==
    ASSUME TaskOK, NEW t \in Tasks, NEW c \in TaskType,
           c.pc \in {"push", "delay"} => c.kind \in Kinds,
           task' = [task EXCEPT ![t] = c]
    PROVE  TaskOK'
<1>1. task' \in [Tasks -> TaskType]
  BY Zenon DEF TaskOK
<1>2. ASSUME NEW u \in Tasks, task'[u].pc \in {"push", "delay"} PROVE task'[u].kind \in Kinds
  <2>1. CASE u = t
    BY <1>2, <2>1 DEF TaskOK
  <2>2. CASE u # t
    BY <1>2, <2>2 DEF TaskOK
  <2>3. QED
    BY <2>1, <2>2
<1>3. QED
  BY <1>1, <1>2, Zenon DEF TaskOK

LEMMA TaskPcTyped ==
    ASSUME TaskOK, NEW t \in Tasks, NEW pc \in TaskPCs,
           pc \in {"push", "delay"} => task[t].kind \in Kinds,
           task' = [task EXCEPT ![t].pc = pc]
    PROVE  TaskOK'
<1>1. task[t] \in TaskType
  BY DEF TaskOK
<1>2. [task[t] EXCEPT !.pc = pc] \in TaskType
  BY <1>1, TaskFields, Zenon
<1>3. [task[t] EXCEPT !.pc = pc].pc = pc /\ [task[t] EXCEPT !.pc = pc].kind = task[t].kind
  BY <1>1, Zenon DEF TaskType
<1>4. task' = [task EXCEPT ![t] = [task[t] EXCEPT !.pc = pc]]
  BY Zenon
<1>5. QED
  BY <1>2, <1>3, <1>4, TaskUpdated, Zenon

LEMMA AtRestTyped == AtRest \in TaskType
BY ConstantsTyped DEF AtRest, TaskType, TaskPCs

LEMMA DoneTyped ==
    ASSUME TaskOK, NEW t \in Tasks, task[t].kind \in Kinds, NEW m, Done(t, m)
    PROVE  TaskOK'
<1> DEFINE c1 == [task[t] EXCEPT !.pc = "push"]
           c2 == [c1 EXCEPT !.waited = 0]
           c3 == [c2 EXCEPT !.reach = @ \ {m}]
           c4 == [c3 EXCEPT !.due = IF task[t].reach = {} THEN @ \ {m} ELSE @]
<1>1. task[t] \in TaskType /\ "push" \in TaskPCs /\ 0 \in 0..WaitCap
  BY ConstantsTyped DEF TaskPCs, TaskOK
<1>2. c1 \in TaskType
  BY <1>1, TaskFields, Zenon
<1>3. c2 \in TaskType
  BY <1>1, <1>2, TaskFields, Zenon
<1>4. c2.reach \in SUBSET Mac
  BY <1>3, Zenon DEF TaskType
<1>5. c2.reach \ {m} \in SUBSET Mac
  BY <1>4
<1>6. c3 \in TaskType
  BY <1>3, <1>5, TaskFields, Zenon
<1>7. c3.due \in SUBSET Mac
  BY <1>6, Zenon DEF TaskType
<1>8. (IF task[t].reach = {} THEN c3.due \ {m} ELSE c3.due) \in SUBSET Mac
  BY <1>7
<1>9. c4 \in TaskType
  BY <1>6, <1>8, TaskFields, Zenon
<1>10. task' = [task EXCEPT ![t] = c4]
  BY Zenon DEF Done
<1>11. c4.kind = task[t].kind
  BY <1>1, Zenon DEF TaskType
<1>12. QED
  BY <1>9, <1>10, <1>11, TaskUpdated, Zenon

(* A step of the sender that changes nothing else.                         *)
LEMMA SenderOnly ==
    ASSUME TypeInv, sender' \in SenderType, HasPacket',
           UNCHANGED <<queueVars, peers, statVars, task, driverVars, present>>
    PROVE  TypeInv'
<1>1. UNCHANGED <<queue, notified, peers, inFlight, refused, stamps, restarts, task,
                  unconfirmed, stuck, present>>
  BY DEF queueVars, statVars, driverVars
<1>2. QueueOK'
  BY <1>1, QueueUnchanged DEF TypeInv
<1>3. StatsOK' /\ DriverOK'
  BY <1>1 DEF TypeInv, StatsOK, DriverOK
<1>4. QED
  BY <1>1, <1>2, <1>3 DEF TypeInv, TaskOK

(* A step of a task that changes nothing else but the notification.        *)
LEMMA TaskOnly ==
    ASSUME TypeInv, TaskOK', notified' \in BOOLEAN,
           UNCHANGED <<queue, peers, statVars, sender, driverVars, present>>
    PROVE  TypeInv'
<1>1. UNCHANGED <<queue, peers, inFlight, refused, stamps, restarts, sender,
                  unconfirmed, stuck, present>>
  BY DEF statVars, driverVars
<1>2. QueueOK'
  BY <1>1, QueueUnchanged DEF TypeInv
<1>3. StatsOK' /\ DriverOK' /\ HasPacket'
  BY <1>1 DEF TypeInv, StatsOK, DriverOK, HasPacket
<1>4. QED
  BY <1>1, <1>2, <1>3 DEF TypeInv, TaskOK

(* A step that changes entries of peers and devices, nothing else.         *)
LEMMA WorldOnly ==
    ASSUME TypeInv, peers' \in [Mac -> PeerType], present' \subseteq Mac, DriverOK',
           UNCHANGED <<queueVars, statVars, sender, task>>
    PROVE  TypeInv'
<1>1. UNCHANGED <<queue, notified, inFlight, refused, stamps, restarts, sender, task>>
  BY DEF queueVars, statVars
<1>2. QueueOK'
  BY <1>1, QueueUnchanged DEF TypeInv
<1>3. StatsOK' /\ HasPacket'
  BY <1>1 DEF TypeInv, StatsOK, HasPacket
<1>4. QED
  BY <1>1, <1>2, <1>3 DEF TypeInv, TaskOK

(* The steps of the sender task.                                           *)
LEMMA SenderTyped ==
    ASSUME TypeInv, SenderStep
    PROVE  TypeInv'
<1>1. /\ sender \in SenderType /\ HasPacket /\ QueueOK /\ StatsOK /\ DriverOK
      /\ notified \in BOOLEAN /\ peers \in [Mac -> PeerType]
      /\ TaskOK /\ present \subseteq Mac
  BY DEF TypeInv
<1>2. ASSUME StallTimeRead PROVE TypeInv'
  <2>1. Goto("stallCheck") /\ UNCHANGED <<queueVars, peers, statVars, task, driverVars, present>>
    BY <1>2 DEF StallTimeRead
  <2>2. QED
    BY <1>1, <2>1, GotoTyped, SenderOnly DEF SenderPCs
<1>3. ASSUME StallCheck PROVE TypeInv'
  <2>1. PICK pc \in {"restart", "pop"} : Goto(pc)
    BY <1>3 DEF StallCheck
  <2>2. UNCHANGED <<queueVars, peers, statVars, task, driverVars, present>>
    BY <1>3 DEF StallCheck
  <2>3. sender' \in SenderType /\ HasPacket'
    BY <1>1, <2>1, GotoTyped DEF SenderPCs
  <2>4. QED
    BY <2>2, <2>3, SenderOnly
<1>4. ASSUME RestartDriver PROVE TypeInv'
  <2>1. Goto("restarted") /\ UNCHANGED <<queueVars, peers, statVars, task, present>>
    BY <1>4 DEF RestartDriver
  <2>2. sender' \in SenderType /\ HasPacket'
    BY <1>1, <2>1, GotoTyped DEF SenderPCs
  <2>3. unconfirmed' = <<>> /\ stuck' \in {"no", "espnow", "wifi", "down"}
    BY <1>1, <1>4 DEF RestartDriver, DriverOK
  <2>4. DriverOK'
    BY <2>3 DEF DriverOK
  <2>5. QueueOK' /\ StatsOK' /\ UNCHANGED <<notified, peers, task, present>>
    BY <1>1, <2>1, QueueUnchanged DEF queueVars, statVars, StatsOK
  <2>6. QED
    BY <1>1, <2>2, <2>4, <2>5 DEF TypeInv, TaskOK
<1>5. ASSUME RestartReset PROVE TypeInv'
  <2>1. Goto("pop") /\ UNCHANGED <<queueVars, peers, task, driverVars, present>>
    BY <1>5 DEF RestartReset
  <2>2. sender' \in SenderType /\ HasPacket'
    BY <1>1, <2>1, GotoTyped DEF SenderPCs
  <2>3. refused' \in BOOLEAN
    BY <1>5, Zenon DEF RestartReset
  <2>4. /\ inFlight' \in 0..MaxInFlight
        /\ stamps' \in [confirm : 0..AgeCap, restart : 0..AgeCap]
        /\ restarts' \in [some : BOOLEAN, confirmed : BOOLEAN]
    BY <1>5, ConstantsTyped DEF RestartReset
  <2>5. StatsOK'
    BY <2>3, <2>4 DEF StatsOK
  <2>6. QueueOK' /\ DriverOK' /\ UNCHANGED <<notified, peers, task, present>>
    BY <1>1, <2>1, QueueUnchanged DEF queueVars, driverVars, DriverOK
  <2>7. QED
    BY <1>1, <2>2, <2>5, <2>6 DEF TypeInv, TaskOK
<1>6. ASSUME Pop PROVE TypeInv'
  <2>1. QueueOK' /\ Head(queue) \in Packet
    BY <1>1, <1>6, PopTyped
  <2>2. /\ sender' = [pc |-> "lookup", packet |-> Head(queue), held |-> 0]
        /\ UNCHANGED <<notified, peers, statVars, task, driverVars, present>>
    BY <1>6 DEF Pop
  <2>3. sender' \in SenderType /\ HasPacket'
    BY <2>1, <2>2, ConstantsTyped DEF SenderType, SenderPCs, HasPacket
  <2>4. StatsOK' /\ DriverOK'
    BY <1>1, <2>2 DEF statVars, driverVars, StatsOK, DriverOK
  <2>5. QED
    BY <1>1, <2>1, <2>2, <2>3, <2>4 DEF TypeInv, TaskOK
<1>7. ASSUME NothingToSend PROVE TypeInv'
  <2>1. Goto("wait") /\ UNCHANGED <<queueVars, peers, statVars, task, driverVars, present>>
    BY <1>7 DEF NothingToSend
  <2>2. QED
    BY <1>1, <2>1, GotoTyped, SenderOnly DEF SenderPCs
<1>8. ASSUME Lookup PROVE TypeInv'
  <2>1. /\ sender' = Again \/ Goto("count")
        /\ sender.pc = "lookup"
        /\ UNCHANGED <<queueVars, peers, statVars, task, driverVars, present>>
    BY <1>8 DEF Lookup, At
  <2>2. sender' \in SenderType /\ HasPacket'
    BY <1>1, <2>1, GotoTyped, AgainTyped DEF SenderPCs, HasPacket
  <2>3. QED
    BY <2>1, <2>2, SenderOnly
<1>9. ASSUME Count PROVE TypeInv'
  <2>1. /\ sender.pc = "count"
        /\ UNCHANGED <<queueVars, peers, task, driverVars, present>>
    BY <1>9 DEF Count, At
  <2>2. CASE inFlight >= MaxInFlight
    <3>1. sender' = Again /\ UNCHANGED statVars
      BY <1>9, <2>2 DEF Count
    <3>2. QED
      BY <2>1, <3>1, AgainTyped, SenderOnly DEF HasPacket
  <2>3. CASE ~(inFlight >= MaxInFlight)
    <3>1. /\ Goto("send") /\ inFlight' = inFlight + 1 /\ UNCHANGED <<refused, restarts>>
          /\ stamps' \in {[stamps EXCEPT !.confirm = 0], stamps}
      BY <1>9, <2>3, Zenon DEF Count
    <3>2. inFlight' \in 0..MaxInFlight
      BY <1>1, <2>3, <3>1, ConstantsTyped DEF StatsOK
    <3>3. stamps' \in [confirm : 0..AgeCap, restart : 0..AgeCap]
      <4>1. 0 \in 0..AgeCap
        BY ConstantsTyped
      <4>2. [stamps EXCEPT !.confirm = 0] \in [confirm : 0..AgeCap, restart : 0..AgeCap]
        BY <1>1, <4>1, Zenon DEF StatsOK
      <4>3. QED
        BY <1>1, <3>1, <4>2, Zenon DEF StatsOK
    <3>4. StatsOK'
      BY <1>1, <3>1, <3>2, <3>3 DEF StatsOK
    <3>5. sender' \in SenderType /\ HasPacket'
      BY <1>1, <2>1, <3>1, GotoTyped DEF SenderPCs, HasPacket
    <3>6. QueueOK' /\ DriverOK' /\ UNCHANGED <<notified, peers, task, present>>
      BY <1>1, <2>1, QueueUnchanged DEF queueVars, driverVars, DriverOK
    <3>7. QED
      BY <1>1, <3>4, <3>5, <3>6 DEF TypeInv, TaskOK
  <2>4. QED
    BY <2>2, <2>3
<1>10. ASSUME DriverTakes PROVE TypeInv'
  <2>1. /\ sender.pc = "send" /\ sender' = Again
        /\ unconfirmed' = Append(unconfirmed, sender.packet.mac)
        /\ UNCHANGED <<queueVars, peers, statVars, stuck, task, present>>
    BY <1>10 DEF DriverTakes, At
  <2>2. sender.packet.mac \in Mac
    BY <1>1, <2>1 DEF HasPacket, Packet
  <2>3. DriverOK'
    BY <1>1, <2>1, <2>2 DEF DriverOK
  <2>4. QueueOK' /\ StatsOK' /\ UNCHANGED <<notified, peers, task, present>>
    BY <1>1, <2>1, QueueUnchanged DEF queueVars, statVars, StatsOK
  <2>5. sender' \in SenderType /\ HasPacket'
    BY <2>1, AgainTyped DEF HasPacket
  <2>6. QED
    BY <1>1, <2>3, <2>4, <2>5 DEF TypeInv, TaskOK
<1>11. ASSUME DriverRefuses PROVE TypeInv'
  <2>1. PICK pc \in {"undo", "undoNoMem"} : Goto(pc)
    BY <1>11 DEF DriverRefuses
  <2>2. UNCHANGED <<queueVars, peers, statVars, task, driverVars, present>>
    BY <1>11 DEF DriverRefuses
  <2>3. sender' \in SenderType /\ HasPacket'
    BY <1>1, <2>1, GotoTyped DEF SenderPCs
  <2>4. QED
    BY <2>2, <2>3, SenderOnly
<1>12. ASSUME Undo PROVE TypeInv'
  <2>1. /\ inFlight' = (IF inFlight > 0 THEN inFlight - 1 ELSE 0) /\ sender' = Again
        /\ UNCHANGED <<queueVars, peers, stamps, restarts, task, driverVars, present>>
    BY <1>12 DEF Undo
  <2>2. refused' \in BOOLEAN
    BY <1>12, Zenon DEF Undo
  <2>3. inFlight' \in 0..MaxInFlight
    BY <1>1, <2>1, ConstantsTyped DEF StatsOK
  <2>4. StatsOK'
    BY <1>1, <2>1, <2>2, <2>3 DEF StatsOK
  <2>5. QueueOK' /\ DriverOK' /\ UNCHANGED <<notified, peers, task, present>>
    BY <1>1, <2>1, QueueUnchanged DEF queueVars, driverVars, DriverOK
  <2>6. sender' \in SenderType /\ HasPacket'
    BY <2>1, AgainTyped DEF HasPacket
  <2>7. QED
    BY <1>1, <2>4, <2>5, <2>6 DEF TypeInv, TaskOK
<1>13. ASSUME Woken PROVE TypeInv'
  <2>1. sender' = Again /\ UNCHANGED <<queue, peers, statVars, task, driverVars, present>>
    BY <1>13 DEF Woken
  <2>2. notified' \in BOOLEAN
    BY <1>13, Zenon DEF Woken
  <2>3. QueueOK' /\ StatsOK' /\ DriverOK' /\ UNCHANGED <<peers, task, present>>
    BY <1>1, <2>1, QueueUnchanged DEF statVars, driverVars, StatsOK, DriverOK
  <2>4. sender' \in SenderType /\ HasPacket'
    BY <2>1, AgainTyped DEF HasPacket
  <2>5. QED
    BY <1>1, <2>2, <2>3, <2>4 DEF TypeInv, TaskOK
<1>14. ASSUME WaitTimeout PROVE TypeInv'
  BY <1>14, AgainTyped, SenderOnly DEF WaitTimeout, HasPacket
<1>15. QED
  BY <1>2, <1>3, <1>4, <1>5, <1>6, <1>7, <1>8, <1>9, <1>10, <1>11, <1>12, <1>13, <1>14
     DEF SenderStep

(* The steps of a task that sends.                                         *)
LEMMA DeliverTyped ==
    ASSUME TypeInv, NEW t \in Tasks, NEW m \in Mac, Deliver(t, m)
    PROVE  TypeInv'
<1> DEFINE packet == [mac |-> m, kind |-> task[t].kind, probe |-> task[t].reach = {}]
<1>1. /\ QueueOK /\ TaskOK /\ notified \in BOOLEAN
      /\ task[t].pc = "push"
      /\ UNCHANGED <<peers, statVars, sender, driverVars, present>>
  BY DEF TypeInv, Deliver
<1>2. task[t].kind \in Kinds
  BY <1>1 DEF TaskOK
<1>3. packet \in Packet
  <2>1. (task[t].reach = {}) \in BOOLEAN
    OBVIOUS
  <2>2. QED
    BY <1>2, <2>1, Zenon DEF Packet
<1>4. CASE Push(packet) /\ Done(t, m) /\ UNCHANGED notified
  <2>1. QueueOK'
    BY <1>1, <1>3, <1>4, PushTyped
  <2>2. TaskOK'
    BY <1>1, <1>2, <1>4, DoneTyped
  <2>3. StatsOK' /\ DriverOK' /\ HasPacket' /\ UNCHANGED <<peers, sender, present>>
    BY <1>1 DEF TypeInv, statVars, driverVars, StatsOK, DriverOK, HasPacket
  <2>4. QED
    BY <1>1, <1>4, <2>1, <2>2, <2>3 DEF TypeInv
<1>5. CASE UNCHANGED queue /\ Done(t, m) /\ UNCHANGED notified
  <2>1. TaskOK'
    BY <1>1, <1>2, <1>5, DoneTyped
  <2>2. QED
    BY <1>1, <1>5, <2>1, TaskOnly
<1>6. CASE UNCHANGED queue /\ task' = [task EXCEPT ![t].pc = "delay"] /\ notified' = TRUE
  <2>1. TaskOK'
    BY <1>1, <1>2, <1>6, TaskPcTyped DEF TaskPCs
  <2>2. notified' \in BOOLEAN
    BY <1>6, Zenon
  <2>3. QED
    BY <1>1, <1>6, <2>1, <2>2, TaskOnly
<1>7. QED
  BY <1>4, <1>5, <1>6, Zenon DEF Deliver

LEMMA KickTyped ==
    ASSUME TypeInv, NEW t \in Tasks, Kick(t)
    PROVE  TypeInv'
<1>1. TaskOK /\ AtRest \in TaskType /\ AtRest.pc = "idle"
  BY AtRestTyped DEF TypeInv, AtRest
<1>2. /\ task' = [task EXCEPT ![t] = AtRest]
      /\ UNCHANGED <<queue, peers, statVars, sender, driverVars, present>>
  BY DEF Kick
<1>3. notified' \in BOOLEAN
  BY Zenon DEF Kick
<1>4. TaskOK'
  BY <1>1, <1>2, TaskUpdated
<1>5. QED
  BY <1>2, <1>3, <1>4, TaskOnly

(* The pause of flush(), or its end.                                       *)
LEMMA FlushPauseTyped ==
    ASSUME TaskOK, NEW t \in Tasks, FlushPause(t)
    PROVE  TaskOK'
<1>1. task' = [task EXCEPT ![t] = AtRest] \/ task' = [task EXCEPT ![t].pc = "flushPause"]
  BY Zenon DEF FlushPause
<1>2. AtRest \in TaskType /\ AtRest.pc = "idle"
  BY AtRestTyped DEF AtRest
<1>3. QED
  BY <1>1, <1>2, TaskUpdated, TaskPcTyped DEF TaskPCs

LEMMA FlushTyped ==
    ASSUME TypeInv, NEW t \in Tasks, CallFlush(t) \/ FlushStep(t)
    PROVE  TypeInv'
<1>1. TaskOK /\ notified \in BOOLEAN /\ AtRest \in TaskType /\ AtRest.pc = "idle"
  BY AtRestTyped DEF TypeInv, AtRest
<1>2. CASE CallFlush(t)
  <2>1. /\ task' = [task EXCEPT ![t].pc = "flushQueue"]
        /\ UNCHANGED <<queue, notified, peers, statVars, sender, driverVars, present>>
    BY <1>2 DEF CallFlush, queueVars
  <2>2. TaskOK'
    BY <1>1, <2>1, TaskPcTyped DEF TaskPCs
  <2>3. QED
    BY <1>1, <2>1, <2>2, TaskOnly
<1>3. CASE FlushQueue(t)
  <2>1. /\ task' = [task EXCEPT ![t].pc = "flushInFlight"] \/ FlushPause(t)
        /\ UNCHANGED <<queue, peers, statVars, sender, driverVars, present>>
    BY <1>3 DEF FlushQueue
  <2>2. notified' \in BOOLEAN
    BY <1>3, Zenon DEF FlushQueue
  <2>3. TaskOK'
    BY <1>1, <2>1, TaskPcTyped, FlushPauseTyped DEF TaskPCs
  <2>4. QED
    BY <2>1, <2>2, <2>3, TaskOnly
<1>4. CASE FlushInFlight(t)
  <2>1. /\ task' = [task EXCEPT ![t] = AtRest] \/ FlushPause(t)
        /\ UNCHANGED <<queue, notified, peers, statVars, sender, driverVars, present>>
    BY <1>4 DEF FlushInFlight, queueVars
  <2>2. TaskOK'
    BY <1>1, <2>1, TaskUpdated, FlushPauseTyped
  <2>3. QED
    BY <1>1, <2>1, <2>2, TaskOnly
<1>5. QED
  BY <1>2, <1>3, <1>4 DEF FlushStep

(* A call begins.                                                          *)
LEMMA SendingTyped ==
    ASSUME NEW kind \in Kinds, NEW reach \in SUBSET Mac, NEW due \in SUBSET Mac
    PROVE  /\ Sending(kind, reach, due) \in TaskType
           /\ Sending(kind, reach, due).kind = kind /\ Sending(kind, reach, due).pc = "push"
BY ConstantsTyped DEF Sending, TaskType, TaskPCs

LEMMA CallTyped ==
    ASSUME TypeInv, NEW t \in Tasks, Call(t)
    PROVE  TypeInv'
<1>1. TaskOK /\ notified \in BOOLEAN /\ peers \in [Mac -> PeerType]
  BY DEF TypeInv
<1>2. ASSUME NEW kind \in Kinds, NEW excluded, CallSendToAll(t, kind, excluded) PROVE TypeInv'
  <2>1. /\ task' = [task EXCEPT ![t] = Sending(kind, Reachable \ excluded, ProbesDue \ excluded)]
        /\ peers' = [m \in Mac |-> IF m \in ProbesDue THEN [peers[m] EXCEPT !.probeIn = ProbeInterval]
                                                      ELSE peers[m]]
        /\ UNCHANGED <<queueVars, statVars, sender, driverVars, present>>
    BY <1>2, Zenon DEF CallSendToAll
  <2>2. TaskOK'
    <3>1. Reachable \ excluded \in SUBSET Mac /\ ProbesDue \ excluded \in SUBSET Mac
      BY DEF Reachable, ProbesDue
    <3>2. /\ Sending(kind, Reachable \ excluded, ProbesDue \ excluded) \in TaskType
          /\ Sending(kind, Reachable \ excluded, ProbesDue \ excluded).kind \in Kinds
      BY <3>1, SendingTyped
    <3>3. QED
      BY <1>1, <2>1, <3>2, TaskUpdated, Zenon
  <2>3. peers' \in [Mac -> PeerType]
    <3>1. ProbeInterval \in 0..ProbeInterval
      BY ConstantsTyped
    <3>2. \A m \in Mac : [peers[m] EXCEPT !.probeIn = ProbeInterval] \in PeerType
      BY <1>1, <3>1, PeerFields, Zenon
    <3>3. QED
      BY <1>1, <2>1, <3>2, Zenon
  <2>4. QueueOK' /\ StatsOK' /\ DriverOK' /\ HasPacket' /\ UNCHANGED <<notified, sender, present>>
    BY <2>1, QueueUnchanged DEF TypeInv, queueVars, statVars, driverVars, StatsOK, DriverOK, HasPacket
  <2>5. QED
    BY <1>1, <2>2, <2>3, <2>4 DEF TypeInv
<1>3. ASSUME NEW kind \in Kinds, NEW m \in Mac, CallSend(t, kind, m) PROVE TypeInv'
  <2>1. /\ task' = [task EXCEPT ![t] = Sending(kind, {m}, {})]
        /\ UNCHANGED <<queue, notified, peers, statVars, sender, driverVars, present>>
    BY <1>3 DEF CallSend, queueVars
  <2>2. TaskOK'
    <3>1. {m} \in SUBSET Mac /\ {} \in SUBSET Mac
      OBVIOUS
    <3>2. Sending(kind, {m}, {}) \in TaskType /\ Sending(kind, {m}, {}).kind \in Kinds
      BY <3>1, SendingTyped
    <3>3. QED
      BY <1>1, <2>1, <3>2, TaskUpdated, Zenon
  <2>3. QED
    BY <1>1, <2>1, <2>2, TaskOnly
<1>4. QED
  BY <1>2, <1>3, FlushTyped DEF Call

(* The Wi-Fi task.                                                         *)
LEMMA ConfirmTyped ==
    ASSUME TypeInv, Confirm
    PROVE  TypeInv'
<1>1. /\ peers \in [Mac -> PeerType] /\ StatsOK /\ DriverOK /\ TaskOK /\ sender \in SenderType
      /\ unconfirmed # <<>>
      /\ unconfirmed' = Tail(unconfirmed)
      /\ inFlight' = (IF inFlight > 0 THEN inFlight - 1 ELSE 0)
      /\ UNCHANGED <<queue, sender, task, stuck, present>>
  BY DEF TypeInv, Confirm
<1>2. /\ peers' = [peers EXCEPT ![Head(unconfirmed)] = Noted(@, Head(unconfirmed) \in present)]
      /\ stamps' = [stamps EXCEPT !.confirm = 0]
      /\ restarts' = [restarts EXCEPT !.confirmed = TRUE]
      /\ refused' \in BOOLEAN /\ notified' \in BOOLEAN
  BY Zenon DEF Confirm
<1>3. Head(unconfirmed) \in Mac /\ DriverOK'
  BY <1>1 DEF DriverOK
<1>4. peers' \in [Mac -> PeerType]
  <2>1. Noted(peers[Head(unconfirmed)], Head(unconfirmed) \in present) \in PeerType
    BY <1>1, <1>3, NotedTyped
  <2>2. QED
    BY <1>1, <1>2, <1>3, <2>1, Zenon
<1>5. StatsOK'
  <2>1. 0 \in 0..AgeCap /\ inFlight' \in 0..MaxInFlight
    BY <1>1, ConstantsTyped DEF StatsOK
  <2>2. stamps' \in [confirm : 0..AgeCap, restart : 0..AgeCap]
    BY <1>1, <1>2, <2>1, Zenon DEF StatsOK
  <2>3. restarts' \in [some : BOOLEAN, confirmed : BOOLEAN]
    BY <1>1, <1>2, Zenon DEF StatsOK
  <2>4. QED
    BY <1>2, <2>1, <2>2, <2>3 DEF StatsOK
<1>6. QueueOK' /\ TaskOK' /\ HasPacket'
  BY <1>1, QueueUnchanged DEF TypeInv, TaskOK, HasPacket
<1>7. QED
  BY <1>1, <1>2, <1>3, <1>4, <1>5, <1>6 DEF TypeInv

(* Devices and the driver.                                                 *)
LEMMA WorldTyped ==
    ASSUME TypeInv, World
    PROVE  TypeInv'
<1>1. peers \in [Mac -> PeerType] /\ DriverOK /\ present \subseteq Mac
  BY DEF TypeInv
<1>2. CASE Jam
  <2>1. DriverOK' /\ UNCHANGED <<queueVars, peers, statVars, sender, task, present>>
    BY <1>1, <1>2 DEF Jam, DriverOK
  <2>2. QED
    BY <1>1, <2>1, WorldOnly
<1>3. ASSUME NEW m \in Mac, Roam(m) PROVE TypeInv'
  <2>1. /\ present' \subseteq Mac
        /\ UNCHANGED <<queueVars, peers, statVars, sender, task, driverVars>>
    BY <1>1, <1>3 DEF Roam
  <2>2. QED
    BY <1>1, <2>1, WorldOnly DEF driverVars, DriverOK
<1>4. ASSUME NEW m \in Mac, AddPeer(m) \/ RemovePeer(m) \/ Receive(m) PROVE TypeInv'
  <2>1. 0 \in 0..UnreachableAfter
    BY ConstantsTyped
  <2>2. [peers[m] EXCEPT !.missed = 0, !.unreachable = FALSE] \in PeerType
    BY <1>1, <2>1, PeerFields, Zenon
  <2>3. peers' \in {[peers EXCEPT ![m] = Fresh], [peers EXCEPT ![m] = Unlisted],
                    [peers EXCEPT ![m] = [peers[m] EXCEPT !.missed = 0, !.unreachable = FALSE]]}
    BY <1>4, Zenon DEF AddPeer, RemovePeer, Receive
  <2>4. peers' \in [Mac -> PeerType]
    BY <1>1, <2>2, <2>3, FreshTyped, Zenon
  <2>5. UNCHANGED <<queueVars, statVars, sender, task, driverVars, present>>
    BY <1>4 DEF AddPeer, RemovePeer, Receive
  <2>6. QED
    BY <1>1, <2>4, <2>5, WorldOnly DEF driverVars, DriverOK
<1>5. QED
  BY <1>2, <1>3, <1>4 DEF World

(* Time passes.                                                            *)
LEMMA TickTyped ==
    ASSUME TypeInv, Tick
    PROVE  TypeInv'
<1>1. /\ peers \in [Mac -> PeerType] /\ StatsOK /\ TaskOK /\ sender \in SenderType /\ HasPacket
  BY DEF TypeInv
<1>2. UNCHANGED <<queueVars, inFlight, refused, restarts, driverVars, present>>
  BY DEF Tick
<1>3. sender' \in SenderType /\ sender'.pc = sender.pc /\ sender'.packet = sender.packet
  <2>1. CASE At("wait")
    BY <1>1, <2>1 DEF Tick
  <2>2. CASE ~At("wait")
    <3>1. sender' = [sender EXCEPT !.held = sender.held + 1] /\ sender.held < MaxPreempt
      BY <2>2, Zenon DEF Tick
    <3>2. sender.held \in 0..MaxPreempt
      BY <1>1 DEF SenderType
    <3>3. sender.held + 1 \in 0..MaxPreempt
      BY <3>1, <3>2, ConstantsTyped
    <3>4. QED
      BY <1>1, <3>1, <3>3, SenderFields, Zenon DEF SenderType
  <2>3. QED
    BY <2>1, <2>2
<1>4. StatsOK'
  <2>1. stamps' = [confirm |-> Older(stamps.confirm, AgeCap), restart |-> Older(stamps.restart, AgeCap)]
    BY Zenon DEF Tick
  <2>2. stamps.confirm \in 0..AgeCap /\ stamps.restart \in 0..AgeCap
    BY <1>1 DEF StatsOK
  <2>3. stamps' \in [confirm : 0..AgeCap, restart : 0..AgeCap]
    BY <2>1, <2>2, OlderTyped, ConstantsTyped
  <2>4. QED
    BY <1>1, <1>2, <2>3 DEF StatsOK
<1>5. peers' \in [Mac -> PeerType]
  <2>1. \A m \in Mac : peers[m].probeIn \in 0..ProbeInterval
    BY <1>1 DEF PeerType
  <2>2. \A m \in Mac : (IF peers[m].probeIn > 0 THEN peers[m].probeIn - 1 ELSE 0) \in 0..ProbeInterval
    BY <2>1, ConstantsTyped
  <2>3. \A m \in Mac : [peers[m] EXCEPT !.probeIn = IF @ > 0 THEN @ - 1 ELSE 0] \in PeerType
    BY <1>1, <2>2, PeerFields, Zenon
  <2>4. peers' = [m \in Mac |-> [peers[m] EXCEPT !.probeIn = IF @ > 0 THEN @ - 1 ELSE 0]]
    BY Zenon DEF Tick
  <2>5. QED
    BY <2>3, <2>4, Zenon
<1>6. TaskOK'
  <2> DEFINE aged(t) == [task[t] EXCEPT !.pc = AfterPause(@), !.waited = Older(@, WaitCap)]
  <2>1. \A t \in Tasks : task'[t] = IF task[t].pc = "idle" THEN task[t] ELSE aged(t)
    BY Zenon DEF Tick
  <2>2. ASSUME NEW t \in Tasks PROVE /\ aged(t) \in TaskType
                                     /\ aged(t).pc \in {"push", "delay"} => task[t].pc \in {"push", "delay"}
                                     /\ aged(t).kind = task[t].kind
    <3>1. task[t] \in TaskType /\ task[t].pc \in TaskPCs /\ task[t].waited \in 0..WaitCap
      BY <1>1 DEF TaskOK, TaskType
    <3>2. /\ AfterPause(task[t].pc) \in TaskPCs
          /\ AfterPause(task[t].pc) \in {"push", "delay"} => task[t].pc \in {"push", "delay"}
      BY <3>1 DEF AfterPause, TaskPCs
    <3>3. Older(task[t].waited, WaitCap) \in 0..WaitCap
      BY <3>1, OlderTyped, ConstantsTyped
    <3>4. aged(t) \in TaskType
      BY <3>1, <3>2, <3>3, TaskFields, Zenon
    <3>5. aged(t).pc = AfterPause(task[t].pc) /\ aged(t).kind = task[t].kind
      BY <3>1, Zenon DEF TaskType
    <3>6. QED
      BY <3>2, <3>4, <3>5, Zenon
  <2>3. task' \in [Tasks -> TaskType]
    <3>1. \A t \in Tasks : (IF task[t].pc = "idle" THEN task[t] ELSE aged(t)) \in TaskType
      BY <1>1, <2>2, Zenon DEF TaskOK
    <3>2. task' = [t \in Tasks |-> IF task[t].pc = "idle" THEN task[t] ELSE aged(t)]
      BY Zenon DEF Tick
    <3>3. QED
      BY <3>1, <3>2, Zenon
  <2>4. ASSUME NEW t \in Tasks, task'[t].pc \in {"push", "delay"} PROVE task'[t].kind \in Kinds
    <3>1. task[t].pc \in {"push", "delay"} /\ task'[t].kind = task[t].kind
      BY <2>1, <2>2, <2>4, Zenon
    <3>2. QED
      BY <1>1, <3>1, Zenon DEF TaskOK
  <2>5. QED
    BY <2>3, <2>4, Zenon DEF TaskOK
<1>7. QueueOK' /\ DriverOK' /\ HasPacket' /\ UNCHANGED <<notified, present>>
  BY <1>1, <1>2, <1>3, QueueUnchanged DEF TypeInv, queueVars, driverVars, DriverOK, HasPacket
<1>8. QED
  BY <1>3, <1>4, <1>5, <1>6, <1>7 DEF TypeInv

LEMMA TypeInductive == TypeInv /\ [Next]_vars => TypeInv'
<1> SUFFICES ASSUME TypeInv, [Next]_vars PROVE TypeInv'
  OBVIOUS
<1>1. ASSUME NEW t \in Callers, Call(t) \/ SendStep(t) \/ FlushStep(t) PROVE TypeInv'
  BY <1>1, CallTyped, DeliverTyped, KickTyped, FlushTyped DEF SendStep, Tasks
<1>2. CASE UNCHANGED vars
  BY <1>2, TaskOnly DEF vars, queueVars, TypeInv, TaskOK
<1>3. QED
  BY <1>1, <1>2, SenderTyped, ConfirmTyped, WorldTyped, TickTyped DEF Next

(* Every variable keeps its type, no packet exceeds the limits of the      *)
(* queue and no more packets than allowed are in flight.                   *)
THEOREM TypeCorrect == Spec => []TypeOK
<1>1. TypeInv => TypeOK
  BY DEF TypeInv, TypeOK, QueueOK, StatsOK, DriverOK, TaskOK, PeerType, TaskType, SenderType
<1>2. QED
  BY <1>1, TypeInitial, TypeInductive, PTL DEF Spec
-----------------------------------------------------------------------------
(* The packets in flight.                                                  *)

(* A restart has emptied the driver before it resets the count.            *)
RestartedIsEmpty == At("restarted") => unconfirmed = <<>>

CountInv == TypeInv /\ InFlightCounts /\ RestartedIsEmpty

LEMMA AppendLength ==
    ASSUME NEW q \in Seq(Mac), NEW m \in Mac
    PROVE  Len(Append(q, m)) = Len(q) + 1
OBVIOUS

LEMMA TailLength ==
    ASSUME NEW q \in Seq(Mac), q # <<>>
    PROVE  Len(Tail(q)) = Len(q) - 1 /\ Len(q) \in Nat /\ Len(q) > 0
OBVIOUS

LEMMA GotoPc ==
    ASSUME TypeInv, NEW pc, Goto(pc)
    PROVE  sender'.pc = pc
BY Zenon DEF Goto, SenderType, TypeInv

LEMMA AgainPc == Again.pc = "stallTime" /\ Again.packet = NoPacket /\ Again.held = 0
BY DEF Again

(* Where each step of the sender leads, and what it does to the count.     *)
LEMMA CountInductive == CountInv /\ [Next]_vars => CountInv'
<1> SUFFICES ASSUME CountInv, [Next]_vars PROVE InFlightCounts' /\ RestartedIsEmpty'
  BY TypeInductive DEF CountInv
<1>1. /\ TypeInv /\ InFlightCounts /\ RestartedIsEmpty
      /\ inFlight \in Nat /\ unconfirmed \in Seq(Mac) /\ Len(unconfirmed) \in Nat
  BY ConstantsTyped DEF CountInv, TypeInv, StatsOK, DriverOK
<1> USE DEF InFlightCounts, RestartedIsEmpty, HandingOver, At
<1>2. ASSUME UNCHANGED <<inFlight, unconfirmed>>, sender'.pc = sender.pc
      PROVE  InFlightCounts' /\ RestartedIsEmpty'
  BY <1>1, <1>2
<1>3. ASSUME UNCHANGED <<inFlight, unconfirmed>>,
             sender.pc \notin {"send", "undo", "undoNoMem", "restarted"},
             sender'.pc \notin {"send", "undo", "undoNoMem", "restarted"}
      PROVE  InFlightCounts' /\ RestartedIsEmpty'
  BY <1>1, <1>3
<1>4. ASSUME StallTimeRead \/ StallCheck \/ Pop \/ NothingToSend \/ Lookup \/ Woken \/ WaitTimeout
      PROVE  InFlightCounts' /\ RestartedIsEmpty'
  <2>1. /\ UNCHANGED <<inFlight, unconfirmed>>
        /\ sender.pc \notin {"send", "undo", "undoNoMem", "restarted"}
    BY <1>4 DEF StallTimeRead, StallCheck, Pop, NothingToSend, Lookup, Woken, WaitTimeout,
       statVars, driverVars
  <2>2. \/ sender' = Again
        \/ sender' = [pc |-> "lookup", packet |-> Head(queue), held |-> 0]
        \/ \E pc \in {"stallCheck", "restart", "pop", "wait", "count"} : Goto(pc)
    BY <1>4 DEF StallTimeRead, StallCheck, Pop, NothingToSend, Lookup, Woken, WaitTimeout
  <2>3. sender'.pc \notin {"send", "undo", "undoNoMem", "restarted"}
    BY <1>1, <2>2, GotoPc, AgainPc
  <2>4. QED
    BY <1>3, <2>1, <2>3
<1>5. ASSUME RestartDriver PROVE InFlightCounts' /\ RestartedIsEmpty'
  BY <1>1, <1>5, GotoPc DEF RestartDriver
<1>6. ASSUME RestartReset PROVE InFlightCounts' /\ RestartedIsEmpty'
  <2>1. inFlight' = 0 /\ unconfirmed' = <<>> /\ sender'.pc = "pop"
    BY <1>1, <1>6, GotoPc DEF RestartReset, driverVars
  <2>2. QED
    BY <2>1
<1>7. ASSUME Count PROVE InFlightCounts' /\ RestartedIsEmpty'
  <2>1. sender.pc = "count" /\ unconfirmed' = unconfirmed
    BY <1>7 DEF Count, driverVars
  <2>2. \/ inFlight' = inFlight /\ sender'.pc = "stallTime"
        \/ inFlight' = inFlight + 1 /\ sender'.pc = "send"
    BY <1>1, <1>7, GotoPc, AgainPc DEF Count, statVars
  <2>3. QED
    BY <1>1, <2>1, <2>2
<1>8. ASSUME DriverTakes PROVE InFlightCounts' /\ RestartedIsEmpty'
  <2>1. /\ sender.pc = "send" /\ sender'.pc = "stallTime" /\ inFlight' = inFlight
        /\ unconfirmed' = Append(unconfirmed, sender.packet.mac)
    BY <1>8, AgainPc DEF DriverTakes, statVars
  <2>2. sender.packet.mac \in Mac
    BY <1>1, <2>1 DEF TypeInv, HasPacket, Packet
  <2>3. Len(unconfirmed') = Len(unconfirmed) + 1
    BY <1>1, <2>1, <2>2, AppendLength
  <2>4. QED
    BY <1>1, <2>1, <2>3
<1>9. ASSUME DriverRefuses PROVE InFlightCounts' /\ RestartedIsEmpty'
  <2>1. /\ sender.pc = "send" /\ sender'.pc \in {"undo", "undoNoMem"}
        /\ UNCHANGED <<inFlight, unconfirmed>>
    BY <1>1, <1>9, GotoPc DEF DriverRefuses, statVars, driverVars
  <2>2. QED
    BY <1>1, <2>1
<1>10. ASSUME Undo PROVE InFlightCounts' /\ RestartedIsEmpty'
  <2>1. /\ sender.pc \in {"undo", "undoNoMem"} /\ sender'.pc = "stallTime"
        /\ inFlight' = (IF inFlight > 0 THEN inFlight - 1 ELSE 0) /\ unconfirmed' = unconfirmed
    BY <1>10, AgainPc DEF Undo, driverVars
  <2>2. QED
    BY <1>1, <2>1
<1>11. ASSUME Confirm PROVE InFlightCounts' /\ RestartedIsEmpty'
  <2>1. /\ unconfirmed # <<>> /\ unconfirmed' = Tail(unconfirmed) /\ sender' = sender
        /\ inFlight' = (IF inFlight > 0 THEN inFlight - 1 ELSE 0)
    BY <1>11 DEF Confirm
  <2>2. Len(unconfirmed') = Len(unconfirmed) - 1 /\ Len(unconfirmed) > 0
    BY <1>1, <2>1, TailLength
  <2>3. sender.pc # "restarted" /\ sender'.pc # "restarted"
    BY <1>1, <2>1
  <2>4. HandingOver \in {0, 1} /\ HandingOver' = HandingOver
    BY <2>1
  <2>5. inFlight = Len(unconfirmed) + HandingOver
    BY <1>1, <2>3
  <2>6. inFlight > 0
    BY <1>1, <2>2, <2>4, <2>5
  <2>7. inFlight' = inFlight - 1
    BY <2>1, <2>6
  <2>8. Len(unconfirmed) \in Nat /\ inFlight \in Nat
    BY <1>1
  <2>9. inFlight' = Len(unconfirmed') + HandingOver'
    <3> HIDE DEF HandingOver
    <3>1. QED
      BY <2>2, <2>4, <2>5, <2>7, <2>8
  <2>10. QED
    BY <2>3, <2>9
<1>12. ASSUME NEW t \in Callers, Call(t) \/ SendStep(t) \/ FlushStep(t)
       PROVE  InFlightCounts' /\ RestartedIsEmpty'
  <2>1. UNCHANGED <<inFlight, unconfirmed, sender>>
    BY <1>12 DEF Call, CallSendToAll, CallSend, CallFlush, SendStep, Deliver, Kick,
       FlushStep, FlushQueue, FlushInFlight, statVars, driverVars
  <2>2. QED
    BY <1>2, <2>1
<1>13. ASSUME World \/ UNCHANGED vars PROVE InFlightCounts' /\ RestartedIsEmpty'
  <2>1. UNCHANGED <<inFlight, unconfirmed, sender>>
    BY <1>13 DEF World, Jam, Roam, AddPeer, RemovePeer, Receive, vars, statVars, driverVars
  <2>2. QED
    BY <1>2, <2>1
<1>14. ASSUME Tick PROVE InFlightCounts' /\ RestartedIsEmpty'
  <2>1. UNCHANGED <<inFlight, unconfirmed>>
    BY <1>14 DEF Tick, driverVars
  <2>2. sender'.pc = sender.pc
    BY <1>1, <1>14, Zenon DEF Tick, TypeInv, SenderType
  <2>3. QED
    BY <1>2, <2>1, <2>2
<1>15. QED
  BY <1>4, <1>5, <1>6, <1>7, <1>8, <1>9, <1>10, <1>11, <1>12, <1>13, <1>14
     DEF Next, SenderStep

LEMMA CountInitial == Init => CountInv
BY TypeInitial DEF CountInv, Init, InFlightCounts, RestartedIsEmpty, HandingOver, At

(* _inFlight is exactly what the driver has and has not confirmed, plus    *)
(* the packet being handed over (sendOne(), SendCallbackAdapter(),         *)
(* restartEspNow()): no refusal, early confirmation or restart leaks a slot*)
(* of the limit, whatever the limit is.                                    *)
THEOREM CountIsExact == Spec => []InFlightCounts
<1>1. CountInv => InFlightCounts
  BY DEF CountInv
<1>2. QED
  BY <1>1, CountInitial, CountInductive, PTL DEF Spec
-----------------------------------------------------------------------------
(* The sender and the tasks that wake it.                                  *)

LEMMA DonePc ==
    ASSUME TaskOK, NEW t \in Tasks, NEW m, Done(t, m)
    PROVE  task'[t].pc = "push" /\ \A u \in Tasks \ {t} : task'[u] = task[u]
<1> DEFINE c1 == [task[t] EXCEPT !.pc = "push"]
           c2 == [c1 EXCEPT !.waited = 0]
           c3 == [c2 EXCEPT !.reach = @ \ {m}]
           c4 == [c3 EXCEPT !.due = IF task[t].reach = {} THEN @ \ {m} ELSE @]
<1>1. task[t] \in TaskType
  BY DEF TaskOK
<1>2. task' = [task EXCEPT ![t] = c4]
  BY Zenon DEF Done
<1>3. c4.pc = "push"
  BY <1>1, Zenon DEF TaskType
<1>4. QED
  <2> HIDE DEF c4
  <2>1. QED
    BY <1>2, <1>3, Zenon DEF TaskOK

(* Only its own steps and time move a task.                                *)
LEMMA OthersStay ==
    ASSUME TypeInv, NEW t \in Tasks, Call(t) \/ SendStep(t) \/ FlushStep(t)
    PROVE  \A u \in Tasks \ {t} : task'[u] = task[u]
<1>1. TaskOK
  BY DEF TypeInv
<1>2. \/ \E m : Done(t, m)
      \/ \E c : task' = [task EXCEPT ![t] = c]
  <2>1. ASSUME NEW pc, task' = [task EXCEPT ![t].pc = pc]
        PROVE  \E c : task' = [task EXCEPT ![t] = c]
    <3>1. task' = [task EXCEPT ![t] = [task[t] EXCEPT !.pc = pc]]
      BY <2>1, Zenon
    <3>2. QED
      BY <3>1, Zenon
  <2>2. ASSUME FlushPause(t) PROVE \E c : task' = [task EXCEPT ![t] = c]
    BY <2>1, <2>2, Zenon DEF FlushPause
  <2>3. ASSUME Call(t) PROVE \E c : task' = [task EXCEPT ![t] = c]
    BY <2>1, <2>3, Zenon DEF Call, CallSendToAll, CallSend, CallFlush
  <2>4. ASSUME FlushStep(t) PROVE \E c : task' = [task EXCEPT ![t] = c]
    BY <2>1, <2>2, <2>4, Zenon DEF FlushStep, FlushQueue, FlushInFlight
  <2>5. ASSUME Kick(t) PROVE \E c : task' = [task EXCEPT ![t] = c]
    BY <2>5, Zenon DEF Kick
  <2>6. ASSUME NEW m \in Mac, Deliver(t, m)
        PROVE  Done(t, m) \/ \E c : task' = [task EXCEPT ![t] = c]
    BY <2>1, <2>6, Zenon DEF Deliver
  <2>7. QED
    BY <2>3, <2>4, <2>5, <2>6, Zenon DEF SendStep
<1>3. QED
  BY <1>1, <1>2, DonePc, Zenon DEF TaskOK

LEMMA TickPc ==
    ASSUME TypeInv, Tick
    PROVE  /\ \A t \in Tasks : task'[t].pc = AfterPause(task[t].pc)
           /\ sender'.pc = sender.pc /\ sender'.packet = sender.packet
<1>1. task \in [Tasks -> TaskType] /\ sender \in SenderType
  BY DEF TypeInv, TaskOK
<1>2. \A t \in Tasks : task'[t] = IF task[t].pc = "idle" THEN task[t]
                        ELSE [task[t] EXCEPT !.pc = AfterPause(@), !.waited = Older(@, WaitCap)]
  BY Zenon DEF Tick
<1>3. \A t \in Tasks : [task[t] EXCEPT !.pc = AfterPause(@), !.waited = Older(@, WaitCap)].pc
                         = AfterPause(task[t].pc)
  BY <1>1, Zenon DEF TaskType
<1>4. AfterPause("idle") = "idle"
  BY DEF AfterPause
<1>5. sender'.pc = sender.pc /\ sender'.packet = sender.packet
  BY <1>1, Zenon DEF Tick, SenderType
<1>6. QED
  BY <1>2, <1>3, <1>4, <1>5, Zenon

(* Where the sender goes in each of its steps.                             *)
LEMMA SenderLeads ==
    ASSUME TypeInv, SenderStep
    PROVE  /\ sender'.pc = "wait" => NothingToSend
           /\ sender'.pc = "stallCheck" => StallTimeRead
           /\ sender'.pc = "lookup" => Pop
           /\ sender'.pc = "count" => Lookup
           /\ sender'.pc = "send" => Count
           /\ sender'.pc = "restart" => StallCheck
<1> USE GotoPc, AgainPc
<1>1. StallTimeRead => sender'.pc = "stallCheck"
  BY DEF StallTimeRead
<1>2. StallCheck => sender'.pc \in {"restart", "pop"}
  BY DEF StallCheck
<1>3. RestartDriver => sender'.pc = "restarted"
  BY DEF RestartDriver
<1>4. RestartReset => sender'.pc = "pop"
  BY DEF RestartReset
<1>5. Pop => sender'.pc = "lookup"
  BY DEF Pop
<1>6. NothingToSend => sender'.pc = "wait"
  BY DEF NothingToSend
<1>7. Lookup => sender'.pc \in {"stallTime", "count"}
  BY DEF Lookup
<1>8. Count => sender'.pc \in {"stallTime", "send"}
  BY DEF Count
<1>9. DriverTakes \/ Undo \/ Woken \/ WaitTimeout => sender'.pc = "stallTime"
  BY DEF DriverTakes, Undo, Woken, WaitTimeout
<1>10. DriverRefuses => sender'.pc \in {"undo", "undoNoMem"}
  BY DEF DriverRefuses
<1>11. QED
  BY <1>1, <1>2, <1>3, <1>4, <1>5, <1>6, <1>7, <1>8, <1>9, <1>10 DEF SenderStep

LEMMA WakeInductive == TypeInv /\ NoLostWakeup /\ [Next]_vars => NoLostWakeup'
<1> SUFFICES ASSUME TypeInv, NoLostWakeup, [Next]_vars PROVE NoLostWakeup'
  OBVIOUS
<1> USE DEF NoLostWakeup, At
<1>1. ASSUME NEW t \in Tasks, task'[t].pc \in {"push", "delay"} PROVE NoLostWakeup'
  BY <1>1
<1>2. ASSUME notified' PROVE NoLostWakeup'
  BY <1>2, Zenon
<1>3. ASSUME UNCHANGED <<queue, inFlight, notified>>, sender'.pc = sender.pc,
             \A t \in Tasks : task[t].pc \in {"push", "delay"} => task'[t].pc \in {"push", "delay"}
      PROVE  NoLostWakeup'
  BY <1>3
<1>4. ASSUME SenderStep PROVE NoLostWakeup'
  <2>1. CASE sender'.pc = "wait"
    <3>1. NothingToSend
      BY <1>4, <2>1, SenderLeads
    <3>2. inFlight' >= MaxInFlight \/ queue' = <<>>
      BY <3>1 DEF NothingToSend, queueVars, statVars
    <3>3. inFlight' \in Nat
      BY TypeInductive, ConstantsTyped DEF TypeInv, StatsOK
    <3>4. QED
      BY <3>2, <3>3, ConstantsTyped
  <2>2. CASE sender'.pc # "wait"
    BY <2>2
  <2>3. QED
    BY <2>1, <2>2
<1>5. ASSUME NEW t \in Tasks, NEW m \in Mac, Deliver(t, m) PROVE NoLostWakeup'
  <2>1. TaskOK
    BY DEF TypeInv
  <2>2. Done(t, m) \/ task' = [task EXCEPT ![t].pc = "delay"]
    BY <1>5, Zenon DEF Deliver
  <2>3. task' = [task EXCEPT ![t].pc = "delay"] => task'[t].pc = "delay"
    BY <2>1, Zenon DEF TaskOK, TaskType
  <2>4. QED
    BY <1>1, <2>1, <2>2, <2>3, DonePc
<1>6. ASSUME NEW t \in Tasks, Kick(t) \/ FlushQueue(t) PROVE NoLostWakeup'
  <2>1. notified'
    BY <1>6, Zenon DEF Kick, FlushQueue
  <2>2. QED
    BY <1>2, <2>1
<1>7. ASSUME NEW t \in Tasks, Call(t) \/ FlushInFlight(t) PROVE NoLostWakeup'
  <2>1. /\ task[t].pc \in {"idle", "flushInFlight"}
        /\ UNCHANGED <<queue, inFlight, notified, sender>>
    BY <1>7 DEF Call, CallSendToAll, CallSend, CallFlush, FlushInFlight, queueVars, statVars
  <2>2. \A u \in Tasks \ {t} : task'[u] = task[u]
    BY <1>7, OthersStay DEF FlushStep
  <2>3. QED
    BY <1>3, <2>1, <2>2
<1>8. ASSUME Confirm PROVE NoLostWakeup'
  <2>1. notified'
    BY <1>8, Zenon DEF Confirm
  <2>2. QED
    BY <1>2, <2>1
<1>9. ASSUME World \/ UNCHANGED vars PROVE NoLostWakeup'
  <2>1. UNCHANGED <<queue, inFlight, notified, sender, task>>
    BY <1>9 DEF World, Jam, Roam, AddPeer, RemovePeer, Receive, vars, queueVars, statVars
  <2>2. QED
    BY <1>3, <2>1
<1>10. ASSUME Tick PROVE NoLostWakeup'
  <2>1. UNCHANGED <<queue, inFlight, notified>>
    BY <1>10 DEF Tick, queueVars
  <2>2. \A t \in Tasks : task[t].pc \in {"push", "delay"} => task'[t].pc \in {"push", "delay"}
    BY <1>10, TickPc DEF AfterPause
  <2>3. QED
    BY <1>3, <1>10, <2>1, <2>2, TickPc
<1>11. QED
  BY <1>4, <1>5, <1>6, <1>7, <1>8, <1>9, <1>10 DEF Next, SendStep, FlushStep, Tasks

(* No wake-up of the sender is lost (kickSender(), wakeSender() and the    *)
(* notification in senderTask()): whenever it sleeps and a packet could be *)
(* sent, a notification is there or on its way.                            *)
THEOREM NoWakeupLost == Spec => []NoLostWakeup
<1>1. Init => NoLostWakeup
  BY DEF Init, NoLostWakeup, At
<1>2. QED
  BY <1>1, TypeInitial, TypeInductive, WakeInductive, PTL DEF Spec
-----------------------------------------------------------------------------
(* One packet in flight, as configured.                                    *)

(* When the last confirmation is younger than the time that checkStall()   *)
(* has read, nothing is being waited for.                                  *)
YoungerThanNow == At("stallCheck") /\ stamps.confirm < sender.held => inFlight = 0 /\ refused = FALSE

LEMMA YoungerInductive ==
    ASSUME MaxInFlight = 1
    PROVE  TypeInv /\ YoungerThanNow /\ [Next]_vars => YoungerThanNow'
<1> SUFFICES ASSUME TypeInv, YoungerThanNow, [Next]_vars PROVE YoungerThanNow'
  OBVIOUS
<1> USE DEF YoungerThanNow, At
<1>1. /\ inFlight \in 0..1 /\ sender \in SenderType
      /\ sender.held \in Nat
      /\ stamps \in [confirm : 0..AgeCap, restart : 0..AgeCap]
      /\ stamps.confirm \in 0..AgeCap
  BY ConstantsTyped DEF TypeInv, StatsOK, SenderType
<1>2. ASSUME sender' = sender, stamps' = stamps, inFlight' = inFlight, refused' = refused
      PROVE  YoungerThanNow'
  BY <1>2, Zenon
<1>3. ASSUME SenderStep PROVE YoungerThanNow'
  <2>1. CASE sender'.pc = "stallCheck"
    <3>1. StallTimeRead
      BY <1>3, <2>1, SenderLeads
    <3>2. sender'.held = 0 /\ stamps' = stamps
      BY <1>1, <3>1, Zenon DEF StallTimeRead, Goto, statVars, SenderType
    <3>3. QED
      BY <1>1, <3>2
  <2>2. CASE sender'.pc # "stallCheck"
    BY <2>2, Zenon
  <2>3. QED
    BY <2>1, <2>2
<1>4. ASSUME Confirm PROVE YoungerThanNow'
  <2>1. refused' = FALSE
    BY <1>4, Zenon DEF Confirm
  <2>2. inFlight' = 0
    BY <1>1, <1>4 DEF Confirm
  <2>3. QED
    BY <2>1, <2>2, Zenon
<1>5. ASSUME NEW t \in Callers, Call(t) \/ SendStep(t) \/ FlushStep(t) PROVE YoungerThanNow'
  <2>1. sender' = sender /\ UNCHANGED statVars
    BY <1>5 DEF Call, CallSendToAll, CallSend, CallFlush, SendStep, Deliver, Kick,
       FlushStep, FlushQueue, FlushInFlight
  <2>2. QED
    BY <1>2, <2>1 DEF statVars
<1>6. ASSUME World \/ UNCHANGED vars PROVE YoungerThanNow'
  <2>1. sender' = sender /\ UNCHANGED statVars
    BY <1>6 DEF World, Jam, Roam, AddPeer, RemovePeer, Receive, vars
  <2>2. QED
    BY <1>2, <2>1 DEF statVars
<1>7. ASSUME Tick PROVE YoungerThanNow'
  <2>1. inFlight' = inFlight /\ refused' = refused
    BY <1>7 DEF Tick
  <2>2. CASE sender.pc # "stallCheck"
    BY <1>7, <2>2, TickPc, Zenon
  <2>3. CASE sender.pc = "stallCheck"
    <3>1. /\ sender.held < MaxPreempt /\ sender'.held = sender.held + 1
          /\ stamps'.confirm = Older(stamps.confirm, AgeCap)
      <4>1. sender' = [sender EXCEPT !.held = sender.held + 1]
        BY <1>7, <2>3, Zenon DEF Tick
      <4>2. sender.held < MaxPreempt
        BY <1>7, <2>3 DEF Tick
      <4>3. stamps'.confirm = Older(stamps.confirm, AgeCap)
        BY <1>7, Zenon DEF Tick
      <4>4. QED
        BY <1>1, <4>1, <4>2, <4>3, Zenon DEF SenderType
    <3>2. stamps'.confirm < sender'.held => stamps.confirm < sender.held
      BY <1>1, <3>1, ConstantsTyped DEF Older
    <3>3. QED
      BY <2>1, <2>3, <3>2, Zenon
  <2>4. QED
    BY <2>2, <2>3
<1>8. QED
  BY <1>3, <1>4, <1>5, <1>6, <1>7 DEF Next

(* With one packet in flight checkStall() never restarts a driver that     *)
(* confirmed a packet within the stall time, although it reads the time    *)
(* before it takes the lock.                                               *)
THEOREM RestartsAreJustified ==
    ASSUME MaxInFlight = 1
    PROVE  Spec => RestartJustified
<1>1. Init => YoungerThanNow
  BY DEF Init, YoungerThanNow, At
<1>2. TypeInv /\ YoungerThanNow /\ [Next]_vars
        => [At("stallCheck") /\ sender'.pc = "restart" => stamps.confirm >= StallTime]_vars
  <2> SUFFICES ASSUME TypeInv, YoungerThanNow, Next, At("stallCheck"), sender'.pc = "restart"
               PROVE  stamps.confirm >= StallTime
    OBVIOUS
  <2>1. /\ sender \in SenderType /\ sender.held \in Nat
        /\ stamps.confirm \in 0..AgeCap /\ inFlight \in Nat
    BY ConstantsTyped DEF TypeInv, StatsOK, SenderType
  <2>2. StallCheck
    <3>1. sender' # sender /\ sender'.pc # sender.pc
      BY DEF At
    <3>2. SenderStep
      BY <3>1, TickPc DEF Next, Call, CallSendToAll, CallSend, CallFlush, SendStep, Deliver, Kick,
         FlushStep, FlushQueue, FlushInFlight, Confirm, World, Jam, Roam, AddPeer, RemovePeer,
         Receive
    <3>3. QED
      BY <3>2, SenderLeads
  <2>3. Stalled
    BY <2>2, GotoPc DEF StallCheck
  <2>4. inFlight > 0 \/ refused
    BY <2>3, Zenon DEF Stalled
  <2>5. ~(stamps.confirm < sender.held)
    <3>1. inFlight = 0 => ~(inFlight > 0)
      BY <2>1
    <3>2. QED
      BY <2>4, <3>1, Zenon DEF YoungerThanNow
  <2>6. Elapsed(stamps.confirm) >= StallTime
    BY <2>3, Zenon DEF Stalled
  <2>7. QED
    BY <2>1, <2>5, <2>6, ConstantsTyped DEF Elapsed
<1>3. QED
  BY <1>1, <1>2, TypeInitial, TypeInductive, YoungerInductive, PTL DEF Spec, RestartJustified

(* A packet that is no probe is not for a peer that became unreachable     *)
(* after it was looked up: with one packet in flight, none is confirmed    *)
(* between the two.                                                        *)
LookedUp ==
    /\ sender.pc \in {"lookup", "count"} => inFlight = 0
    /\ sender.pc \in {"count", "send"} /\ peers[sender.packet.mac].unreachable => sender.packet.probe

LEMMA ReachableEntries ==
    /\ Fresh.unreachable = FALSE /\ Unlisted.unreachable = FALSE
    /\ \A p \in PeerType : [p EXCEPT !.missed = 0, !.unreachable = FALSE].unreachable = FALSE
<1>1. Fresh.unreachable = FALSE
  BY DEF Fresh
<1>2. Unlisted.unreachable = Fresh.unreachable
  BY FreshTyped, Zenon DEF Unlisted, PeerType
<1>3. \A p \in PeerType : [p EXCEPT !.missed = 0, !.unreachable = FALSE].unreachable = FALSE
  BY Zenon DEF PeerType
<1>4. QED
  BY <1>1, <1>2, <1>3, Zenon

LEMMA LookedUpInductive ==
    ASSUME MaxInFlight = 1
    PROVE  CountInv /\ LookedUp /\ [Next]_vars => LookedUp'
<1> SUFFICES ASSUME CountInv, LookedUp, [Next]_vars PROVE LookedUp'
  OBVIOUS
<1>1. /\ TypeInv /\ inFlight \in 0..1 /\ peers \in [Mac -> PeerType] /\ HasPacket
      /\ unconfirmed \in Seq(Mac)
  BY DEF CountInv, TypeInv, StatsOK, DriverOK
<1>2. sender.pc \in {"lookup", "count", "send"} => unconfirmed = <<>>
  <2>1. sender.pc \in {"lookup", "count"} => Len(unconfirmed) = 0
    BY <1>1 DEF LookedUp, CountInv, InFlightCounts, HandingOver, At
  <2>2. sender.pc = "send" => Len(unconfirmed) = 0
    BY <1>1 DEF CountInv, InFlightCounts, HandingOver, At
  <2>3. QED
    BY <1>1, <2>1, <2>2
<1>3. sender.pc \in {"lookup", "count", "send"} => sender.packet.mac \in Mac
  BY <1>1 DEF HasPacket, Packet
<1>4. ASSUME inFlight' = inFlight, sender'.pc = sender.pc, sender'.packet = sender.packet,
             \A m \in Mac : peers'[m].unreachable => peers[m].unreachable
      PROVE  LookedUp'
  <2>1. sender.pc \in {"count", "send"} => sender.packet.mac \in Mac
    BY <1>3
  <2>2. QED
    BY <1>4, <2>1, Zenon DEF LookedUp
<1>5. ASSUME SenderStep PROVE LookedUp'
  <2>1. CASE Pop
    <3>1. inFlight' = 0 /\ sender'.pc = "lookup"
      BY <1>1, <2>1 DEF Pop, statVars
    <3>2. QED
      BY <3>1 DEF LookedUp
  <2>2. CASE Lookup
    <3>1. /\ sender.pc = "lookup" /\ inFlight' = inFlight /\ peers' = peers
      BY <2>2 DEF Lookup, At, statVars
    <3>2. CASE Skips(sender.packet)
      BY <2>2, <3>2, AgainPc DEF Lookup, LookedUp
    <3>3. CASE ~Skips(sender.packet)
      <4>1. sender'.pc = "count" /\ sender'.packet = sender.packet
        BY <1>1, <2>2, <3>3, Zenon DEF Lookup, Goto, TypeInv, SenderType
      <4>2. peers[sender.packet.mac].unreachable => sender.packet.probe
        BY <3>3 DEF Skips
      <4>3. QED
        BY <3>1, <4>1, <4>2 DEF LookedUp
    <3>4. QED
      BY <3>2, <3>3
  <2>3. CASE Count
    <3>1. sender.pc = "count" /\ peers' = peers
      BY <2>3 DEF Count, At
    <3>2. CASE sender'.pc = "send"
      <4>1. sender'.packet = sender.packet
        <5>1. sender' = Again \/ Goto("send")
          BY <2>3 DEF Count
        <5>2. QED
          BY <1>1, <3>2, <5>1, AgainPc, Zenon DEF Goto, TypeInv, SenderType
      <4>2. QED
        BY <3>1, <3>2, <4>1 DEF LookedUp
    <3>3. CASE sender'.pc # "send"
      <4>1. sender'.pc = "stallTime"
        BY <1>1, <2>3, <3>3, GotoPc, AgainPc DEF Count
      <4>2. QED
        BY <4>1 DEF LookedUp
    <3>4. QED
      BY <3>2, <3>3
  <2>4. CASE ~Pop /\ ~Lookup /\ ~Count
    <3>1. sender'.pc \notin {"lookup", "count", "send"}
      BY <1>1, <1>5, <2>4, SenderLeads
    <3>2. QED
      BY <3>1 DEF LookedUp
  <2>5. QED
    BY <2>1, <2>2, <2>3, <2>4
<1>6. ASSUME Confirm PROVE LookedUp'
  <2>1. sender' = sender /\ unconfirmed # <<>>
    BY <1>6 DEF Confirm
  <2>2. QED
    BY <1>2, <2>1 DEF LookedUp
<1>7. ASSUME NEW t \in Callers, Call(t) \/ SendStep(t) \/ FlushStep(t) PROVE LookedUp'
  <2>1. inFlight' = inFlight /\ sender' = sender
    BY <1>7 DEF Call, CallSendToAll, CallSend, CallFlush, SendStep, Deliver, Kick,
       FlushStep, FlushQueue, FlushInFlight, statVars
  <2>2. \/ peers' = peers
        \/ peers' = [m \in Mac |-> IF m \in ProbesDue THEN [peers[m] EXCEPT !.probeIn = ProbeInterval]
                                                      ELSE peers[m]]
    BY <1>7, Zenon DEF Call, CallSendToAll, CallSend, CallFlush, SendStep, Deliver, Kick,
       FlushStep, FlushQueue, FlushInFlight
  <2>3. \A m \in Mac : peers'[m].unreachable => peers[m].unreachable
    <3>1. \A m \in Mac : [peers[m] EXCEPT !.probeIn = ProbeInterval].unreachable = peers[m].unreachable
      BY <1>1, Zenon DEF PeerType
    <3>2. QED
      BY <2>2, <3>1, Zenon
  <2>4. QED
    BY <1>4, <2>1, <2>3
<1>8. ASSUME World \/ UNCHANGED vars PROVE LookedUp'
  <2>1. inFlight' = inFlight /\ sender' = sender
    BY <1>8 DEF World, Jam, Roam, AddPeer, RemovePeer, Receive, vars, statVars
  <2>2. \/ peers' = peers
        \/ \E m \in Mac : peers' \in {[peers EXCEPT ![m] = Fresh], [peers EXCEPT ![m] = Unlisted],
                    [peers EXCEPT ![m] = [peers[m] EXCEPT !.missed = 0, !.unreachable = FALSE]]}
    <3>1. ASSUME NEW m \in Mac, AddPeer(m) \/ RemovePeer(m) \/ Receive(m)
          PROVE  peers' \in {[peers EXCEPT ![m] = Fresh], [peers EXCEPT ![m] = Unlisted],
                    [peers EXCEPT ![m] = [peers[m] EXCEPT !.missed = 0, !.unreachable = FALSE]]}
      BY <3>1, Zenon DEF AddPeer, RemovePeer, Receive
    <3>2. CASE UNCHANGED vars
      BY <3>2 DEF vars
    <3>3. ASSUME NEW m \in Mac, Jam \/ Roam(m) PROVE peers' = peers
      BY <3>3 DEF Jam, Roam
    <3>4. Jam => peers' = peers
      BY DEF Jam
    <3>5. QED
      BY <1>8, <3>1, <3>2, <3>3, <3>4, Zenon DEF World
  <2>3. \A m \in Mac : peers'[m].unreachable => peers[m].unreachable
    BY <1>1, <2>2, ReachableEntries, Zenon
  <2>4. QED
    BY <1>4, <2>1, <2>3
<1>9. ASSUME Tick PROVE LookedUp'
  <2>1. inFlight' = inFlight
    BY <1>9 DEF Tick
  <2>2. \A m \in Mac : peers'[m] = [peers[m] EXCEPT !.probeIn = IF @ > 0 THEN @ - 1 ELSE 0]
    BY <1>9, Zenon DEF Tick
  <2>3. \A m \in Mac : peers'[m].unreachable => peers[m].unreachable
    BY <1>1, <2>2, Zenon DEF PeerType
  <2>4. QED
    BY <1>1, <1>4, <1>9, <2>1, <2>3, TickPc
<1>10. QED
  BY <1>5, <1>6, <1>7, <1>8, <1>9 DEF Next

(* With one packet in flight, what the driver takes for a peer that is     *)
(* unreachable is a probe (sendQueued(), copySendTargets()), however peers,*)
(* confirmations and received packets change its state in between.         *)
THEOREM UnreachableGetsProbes ==
    ASSUME MaxInFlight = 1
    PROVE  Spec => OnlyProbesToUnreachable
<1>1. Init => LookedUp
  BY DEF Init, LookedUp
<1>2. CountInv /\ LookedUp /\ [Next]_vars
        => [Len(unconfirmed') > Len(unconfirmed) /\ peers[sender.packet.mac].unreachable
              => sender.packet.probe]_vars
  <2> SUFFICES ASSUME CountInv, LookedUp, Next, Len(unconfirmed') > Len(unconfirmed),
                      peers[sender.packet.mac].unreachable
               PROVE  sender.packet.probe
    OBVIOUS
  <2>1. unconfirmed \in Seq(Mac) /\ Len(unconfirmed) \in Nat
    BY DEF CountInv, TypeInv, DriverOK
  <2>2. unconfirmed' # unconfirmed /\ unconfirmed' # <<>>
    <3>1. Len(<<>>) = 0
      OBVIOUS
    <3>2. QED
      BY <2>1, <3>1
  <2>3. ~Confirm
    <3>1. ASSUME Confirm PROVE FALSE
      <4>1. unconfirmed # <<>> /\ unconfirmed' = Tail(unconfirmed)
        BY <3>1 DEF Confirm
      <4>2. QED
        BY <2>1, <4>1, TailLength
    <3>2. QED
      BY <3>1
  <2>4. DriverTakes
    BY <2>2, <2>3 DEF Next, Call, CallSendToAll, CallSend, CallFlush, SendStep, Deliver, Kick,
       FlushStep, FlushQueue, FlushInFlight, World, Jam, Roam, AddPeer, RemovePeer, Receive, Tick,
       SenderStep, StallTimeRead, StallCheck, RestartDriver, RestartReset, Pop, NothingToSend,
       Lookup, Count, DriverRefuses, Undo, Woken, WaitTimeout, driverVars
  <2>5. QED
    BY <2>4 DEF DriverTakes, LookedUp, At
<1>3. QED
  BY <1>1, <1>2, CountInitial, CountInductive, LookedUpInductive, PTL DEF Spec, OnlyProbesToUnreachable
=============================================================================
