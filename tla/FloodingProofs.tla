---------------------------- MODULE FloodingProofs ----------------------------
(***************************************************************************)
(* What Flooding guarantees for every topology, protocol, capacity and     *)
(* number of workers, with losses, broken streams and crashes: what peers  *)
(* believe of each other is true, and what becomes of a message at each    *)
(* peer and on each edge.  Each invariant rests on the ones before:        *)
(*                                                                         *)
(*   KnowledgeInv  whatever is held or carried about a message is true     *)
(*   TravelInv     what a copy says of its way: supplier, hop, cycle hop   *)
(*   PlaceInv      a message is in one place of a peer that has it         *)
(*   FateInv       a payload is in one place of an edge it goes out on     *)
(*   SupplierHas, SentArrives   what was sent arrives, while streams hold  *)
(***************************************************************************)
EXTENDS Flooding, SequenceTheorems, FiniteSetTheorems, TLAPS

LEMMA EdgeType ==
  ASSUME NEW e \in Edges
  PROVE  /\ e[1] \in Nodes /\ e[2] \in Nodes
         /\ e[2] \in Neighbors[e[1]]
         /\ e[1] \in Neighbors[e[2]]
         /\ e = <<e[1], e[2]>>
         /\ e \in Handlers
BY FloodingAssumption DEF Edges, Handlers

LEMMA EdgeMade ==
  ASSUME NEW n \in Nodes, NEW k \in Neighbors[n]
  PROVE  <<n, k>> \in Edges
BY FloodingAssumption DEF Edges

LEMMA AtType ==
  ASSUME NEW h \in Handlers
  PROVE  At(h) \in Nodes
BY FloodingAssumption, EdgeType DEF Handlers, At

LEMMA NodeIsNotSource ==
  /\ NoItem.from = Source
  /\ \A n \in Nodes : Neighbors[n] \subseteq Nodes
BY FloodingAssumption DEF NoItem

LEMMA AcceptedType ==
  ASSUME NEW n \in Nodes, NEW item \in Items
  PROVE  /\ Accepted(n, item) \in [pc : {"idle", "accepted"},
                                   item : Items \cup {NoItem}, todo : SUBSET Nodes]
         /\ Accepted(n, item).item = item
         /\ Accepted(n, item).todo \subseteq Neighbors[n]
BY FloodingAssumption DEF Accepted

LEMMA IdleType ==
  /\ Idle \in [pc : {"idle", "accepted"},
               item : Items \cup {NoItem}, todo : SUBSET Nodes]
  /\ Idle \in [pc : {"idle", "processing", "forwarding"},
               item : Items \cup {NoItem}, todo : SUBSET Nodes]
  /\ Idle.pc = "idle"
BY DEF Idle

LEMMA ReceivedType ==
  ASSUME NEW f \in Frames, NEW k \in Nodes
  PROVE  Received(f, k) \in Items
BY DEF Received, Frames, Items

LEMMA FramesType ==
  /\ \A item \in Items : DataFrame(item) \in Frames
  /\ \A m \in Messages : IDontWantFrame(m) \in Frames
  /\ \A f \in Frames : f.msg \in Messages
  /\ \A item \in Items : item.msg \in Messages
BY DEF DataFrame, IDontWantFrame, Items, Frames

LEMMA TargetsType ==
  ASSUME NEW item, NEW eligible, NEW S \in TargetSets(item, eligible)
  PROVE  S \subseteq eligible
BY DEF TargetSets

LEMMA FanOutType ==
  ASSUME NEW item \in Items, NEW S \in SUBSET Nodes
  PROVE  /\ FanOut(item, S) \in [pc : {"idle", "processing", "forwarding"},
                                 item : Items \cup {NoItem}, todo : SUBSET Nodes]
         /\ FanOut(item, S).pc # "idle" => /\ FanOut(item, S).item = item
                                           /\ FanOut(item, S).todo = S
         /\ FanOut(item, S).pc \in {"idle", "forwarding"}
BY IdleType DEF FanOut

LEMMA OutgoingType ==
  ASSUME NEW item \in Items
  PROVE  [item EXCEPT !.hop = @ + 1, !.wave = OutgoingWave(item)] \in Items
<1>1. item.hop + 1 \in Nat
  BY DEF Items
<1>2. OutgoingWave(item) \in Nat
  BY DEF Items, OutgoingWave
<1> QED BY <1>1, <1>2 DEF Items

(* The worker is left with the raised item and a set of peers to send to.  *)
LEMMA ForwardingFansOut ==
  ASSUME NEW w \in WorkerIds, BeginForwarding(w)
  PROVE  LET item == worker[w].item
             outgoing == [item EXCEPT !.hop = @ + 1, !.wave = OutgoingWave(item)]
         IN  \E targets \in SUBSET Nodes :
               worker' = [worker EXCEPT ![w] = FanOut(outgoing, targets)]
<1> DEFINE item == worker[w].item
           outgoing == [item EXCEPT !.hop = @ + 1, !.wave = OutgoingWave(item)]
           eligible == (Neighbors[w[1]] \ {item.from})
                         \ ((Neighbors[w[1]] \ {item.from}) \cap Suppressed(w[1], item.msg))
<1>1. Neighbors[w[1]] \subseteq Nodes
  BY FloodingAssumption DEF WorkerIds
<1>2. PICK targets \in TargetSets(item, eligible) :
        worker' = [worker EXCEPT ![w] = FanOut(outgoing, targets)]
  BY DEF BeginForwarding
<1>3. eligible \subseteq Nodes
  BY <1>1
<1> HIDE DEF outgoing, eligible
<1>4. targets \in SUBSET Nodes
  BY <1>2, <1>3, TargetsType
<1> HIDE DEF item
<1>5. \E S \in SUBSET Nodes : worker' = [worker EXCEPT ![w] = FanOut(outgoing, S)]
  BY <1>2, <1>4
<1> QED BY <1>5 DEF item, outgoing

LEMMA RecordedType ==
  ASSUME TypeOK, NEW e \in Edges, NEW m \in Messages, NEW what \in Outcomes
  PROVE  Recorded(e, m, what) \in [Edges -> [Messages -> Seq(Outcomes)]]
<1>1. Append(outcome[e][m], what) \in Seq(Outcomes)
  BY DEF TypeOK
<1> QED BY <1>1 DEF Recorded, TypeOK

LEMMA TypeCorrect == Spec => []TypeOK
<1>1. Init => TypeOK
  BY FloodingAssumption, IdleType DEF Init, TypeOK, IdleSender, NoFrame
<1>2. TypeOK /\ [Next]_vars => TypeOK'
  <2> SUFFICES ASSUME TypeOK, [Next]_vars PROVE TypeOK'
    OBVIOUS
  <2> USE DEF TypeOK
  <2>0. protocol' \in Protocols
    BY DEF Next, Read, Handle, Work, Send, vars
  <2> USE <2>0
  <2>1. ASSUME NEW m \in Messages, Inject(m) PROVE TypeOK'
    <3> DEFINE item == [msg |-> m, from |-> Source, hop |-> 0, wave |-> 0]
    <3>1. item \in Items
      BY DEF Items
    <3>2. /\ Origin[m] \in Nodes
          /\ m \in Handlers
          /\ At(m) = Origin[m]
      BY FloodingAssumption DEF Handlers, At
    <3>3. intake' = [intake EXCEPT ![m] = Accepted(Origin[m], item)]
      BY <2>1 DEF Inject
    <3> HIDE DEF item
    <3>4. /\ intake' \in [Handlers -> [pc : {"idle", "accepted"},
                              item : Items \cup {NoItem}, todo : SUBSET Nodes]]
          /\ \A h \in Handlers : intake'[h].pc # "idle" =>
               /\ intake'[h].item \in Items
               /\ intake'[h].todo \subseteq Neighbors[At(h)]
      BY <3>1, <3>2, <3>3, AcceptedType
    <3> QED BY <2>1, <3>2, <3>4 DEF Inject, edges
  <2>2. ASSUME NEW e \in Edges, ReceiveData(e) PROVE TypeOK'
    <3> DEFINE f == Head(wire[e])
    <3>1. /\ wire[e] \in Seq(Frames)
          /\ wire[e] # << >>
          /\ f \in Frames
          /\ f.msg \in Messages
          /\ Tail(wire[e]) \in Seq(Frames)
      BY <2>2, FramesType DEF ReceiveData
    <3>2. e \in Handlers /\ e[1] \in Nodes /\ e[2] \in Nodes
      BY EdgeType
    <3>3. wire' \in [Edges -> Seq(Frames)]
      BY <2>2, <3>1 DEF ReceiveData
    <3>4. CASE ReceiveFirst(e, f)
      <4>1. Received(f, e[1]) \in Items
        BY <3>1, <3>2, ReceivedType
      <4>2. At(e) = e[2]
        BY FloodingAssumption DEF At, Edges
      <4>3. intake' = [intake EXCEPT ![e] = Accepted(e[2], Received(f, e[1]))]
        BY <3>4 DEF ReceiveFirst
      <4>4. /\ intake' \in [Handlers -> [pc : {"idle", "accepted"},
                                item : Items \cup {NoItem}, todo : SUBSET Nodes]]
            /\ \A h \in Handlers : intake'[h].pc # "idle" =>
                 /\ intake'[h].item \in Items
                 /\ intake'[h].todo \subseteq Neighbors[At(h)]
        BY <3>2, <4>1, <4>2, <4>3, AcceptedType
      <4> HIDE DEF f
      <4> QED BY <2>2, <3>1, <3>2, <3>3, <3>4, <4>4 DEF ReceiveData, ReceiveFirst
    <3>5. CASE ReceiveDuplicate(e, f)
      <4> HIDE DEF f
      <4>1. duplicateSenders' \in [Nodes -> [Messages -> SUBSET Nodes]]
        BY <3>1, <3>2, <3>5 DEF ReceiveDuplicate
      <4> QED BY <2>2, <3>3, <3>5, <4>1 DEF ReceiveData, ReceiveDuplicate
    <3> QED BY <2>2, <3>4, <3>5 DEF ReceiveData
  <2>3. ASSUME NEW e \in Edges, ReceiveIDontWant(e) PROVE TypeOK'
    <3>1. /\ Head(wire[e]) \in Frames
          /\ Head(wire[e]).msg \in Messages
          /\ Tail(wire[e]) \in Seq(Frames)
      BY <2>3, FramesType DEF ReceiveIDontWant
    <3>2. dontWantPeers' \in [Nodes -> [Messages -> SUBSET Nodes]]
      BY <2>3, <3>1, EdgeType DEF ReceiveIDontWant
    <3>3. wire' \in [Edges -> Seq(Frames)]
      BY <2>3, <3>1 DEF ReceiveIDontWant
    <3> QED BY <2>3, <3>2, <3>3 DEF ReceiveIDontWant
  <2>4. ASSUME NEW h \in Handlers, NEW k \in Nodes, Advise(h, k) PROVE TypeOK'
    <3> DEFINE e == <<At(h), k>>
               f == IDontWantFrame(intake[h].item.msg)
    <3>1. e \in Edges
      BY <2>4, AtType, EdgeMade DEF Advise
    <3>2. f \in Frames
      BY <2>4, FramesType DEF Advise
    <3>3. Append(controlQueue[e], f) \in Seq(Frames)
      BY <3>1, <3>2
    <3>4. controlQueue' \in [Edges -> Seq(Frames)]
      BY <2>4, <3>1, <3>3 DEF Advise
    <3>5. /\ intake' \in [Handlers -> [pc : {"idle", "accepted"},
                              item : Items \cup {NoItem}, todo : SUBSET Nodes]]
          /\ \A x \in Handlers : intake'[x].pc # "idle" =>
               /\ intake'[x].item \in Items
               /\ intake'[x].todo \subseteq Neighbors[At(x)]
      <4>1. /\ intake[h].item \in Items
            /\ intake[h].todo \subseteq Neighbors[At(h)]
            /\ intake[h].todo \in SUBSET Nodes
        BY <2>4 DEF Advise
      <4> DEFINE new == [pc |-> "accepted", item |-> intake[h].item,
                         todo |-> intake[h].todo \ {k}]
      <4>2. intake' = [intake EXCEPT ![h] = new]
        BY <2>4 DEF Advise
      <4>3. /\ new \in [pc : {"idle", "accepted"}, item : Items \cup {NoItem},
                         todo : SUBSET Nodes]
            /\ new.item = intake[h].item
            /\ new.todo \subseteq Neighbors[At(h)]
        BY <4>1
      <4> HIDE DEF new
      <4> QED BY <4>1, <4>2, <4>3
    <3> QED BY <2>4, <3>4, <3>5 DEF Advise, knowledge
  <2>5. ASSUME NEW h \in Handlers, EnqueueProcessing(h) PROVE TypeOK'
    <3>1. /\ At(h) \in Nodes
          /\ intake[h].item \in Items /\ intake[h].item.msg \in Messages
      BY <2>5, AtType, FramesType DEF EnqueueProcessing
    <3>2. Append(processQueue[At(h)], intake[h].item) \in Seq(Items)
      BY <3>1
    <3>3. processQueue' \in [Nodes -> Seq(Items)]
      BY <2>5, <3>1, <3>2 DEF EnqueueProcessing
    <3>4. nodeDrops' \in [Nodes -> SUBSET Messages]
      <4>1. \/ nodeDrops' = nodeDrops
            \/ nodeDrops' = [nodeDrops EXCEPT ![At(h)] = @ \cup {intake[h].item.msg}]
        BY <2>5 DEF EnqueueProcessing
      <4>2. nodeDrops \in [Nodes -> SUBSET Messages]
        OBVIOUS
      <4> HIDE DEF TypeOK
      <4> QED BY <3>1, <4>1, <4>2
    <3>5. /\ intake' \in [Handlers -> [pc : {"idle", "accepted"},
                              item : Items \cup {NoItem}, todo : SUBSET Nodes]]
          /\ \A x \in Handlers : intake'[x].pc # "idle" =>
               /\ intake'[x].item \in Items
               /\ intake'[x].todo \subseteq Neighbors[At(x)]
      BY <2>5, IdleType DEF EnqueueProcessing
    <3> QED BY <2>5, <3>3, <3>4, <3>5 DEF EnqueueProcessing, knowledge, edges
  <2>6. ASSUME NEW w \in WorkerIds, StartProcessing(w) PROVE TypeOK'
    <3>1. w[1] \in Nodes
      BY DEF WorkerIds
    <3>2. /\ Head(processQueue[w[1]]) \in Items
          /\ Tail(processQueue[w[1]]) \in Seq(Items)
      BY <2>6, <3>1 DEF StartProcessing
    <3>3. processQueue' \in [Nodes -> Seq(Items)]
      BY <2>6, <3>1, <3>2 DEF StartProcessing
    <3>4. /\ worker' \in [WorkerIds -> [pc : {"idle", "processing", "forwarding"},
                               item : Items \cup {NoItem}, todo : SUBSET Nodes]]
          /\ \A x \in WorkerIds : worker'[x].pc # "idle" =>
               /\ worker'[x].item \in Items
               /\ worker'[x].todo \subseteq Neighbors[x[1]]
      <4> DEFINE at == [pc |-> "processing", item |-> Head(processQueue[w[1]]), todo |-> {}]
      <4>1. worker' = [worker EXCEPT ![w] = at]
        BY <2>6 DEF StartProcessing
      <4>2. /\ at \in [pc : {"idle", "processing", "forwarding"},
                       item : Items \cup {NoItem}, todo : SUBSET Nodes]
            /\ at.item \in Items /\ at.todo = {}
        BY <3>2
      <4> HIDE DEF at
      <4> QED BY <4>1, <4>2
    <3> QED BY <2>6, <3>3, <3>4 DEF StartProcessing, knowledge, edges
  <2>7. ASSUME NEW w \in WorkerIds, BeginForwarding(w) PROVE TypeOK'
    <3> DEFINE n == w[1]
               item == worker[w].item
               others == Neighbors[n] \ {item.from}
               skipped == others \cap Suppressed(n, item.msg)
               outgoing == [item EXCEPT !.hop = @ + 1, !.wave = OutgoingWave(item)]
    <3>1. n \in Nodes /\ item \in Items /\ item.msg \in Messages
      BY <2>7, FramesType DEF BeginForwarding, WorkerIds
    <3>2. outgoing \in Items
      BY <3>1, OutgoingType
    <3>3. PICK S \in TargetSets(item, others \ skipped) :
            worker' = [worker EXCEPT ![w] = FanOut(outgoing, S)]
      BY <2>7 DEF BeginForwarding
    <3>4. S \subseteq Neighbors[n] /\ S \in SUBSET Nodes
      BY <3>1, <3>3, TargetsType, NodeIsNotSource
    <3> HIDE DEF outgoing
    <3>5. /\ worker' \in [WorkerIds -> [pc : {"idle", "processing", "forwarding"},
                               item : Items \cup {NoItem}, todo : SUBSET Nodes]]
          /\ \A x \in WorkerIds : worker'[x].pc # "idle" =>
               /\ worker'[x].item \in Items
               /\ worker'[x].todo \subseteq Neighbors[x[1]]
      BY <3>2, <3>3, <3>4, FanOutType
    <3>6. outcome' = [e \in Edges |->
           IF e[1] = n /\ e[2] \in skipped
             THEN [outcome[e] EXCEPT ![item.msg] = Append(@, "suppressed")]
             ELSE outcome[e]]
      BY <2>7 DEF BeginForwarding
    <3>7. \A e \in Edges : Append(outcome[e][item.msg], "suppressed") \in Seq(Outcomes)
      BY <3>1 DEF Outcomes
    <3>8. outcome' \in [Edges -> [Messages -> Seq(Outcomes)]]
      <4> HIDE DEF item, skipped
      <4> QED BY <3>1, <3>6, <3>7
    <3> QED BY <2>7, <3>1, <3>5, <3>8 DEF BeginForwarding, edges
  <2>8. ASSUME NEW w \in WorkerIds, NEW k \in Nodes, EnqueueData(w, k) PROVE TypeOK'
    <3> DEFINE e == <<w[1], k>>
               item == worker[w].item
    <3>1. /\ w[1] \in Nodes
          /\ item \in Items /\ item.msg \in Messages
          /\ worker[w].todo \subseteq Neighbors[w[1]]
      BY <2>8, FramesType DEF EnqueueData, WorkerIds
    <3>2. e \in Edges
      BY <2>8, <3>1, EdgeMade DEF EnqueueData
    <3>3. worker[w].todo \ {k} \in SUBSET Nodes
      BY <3>1, NodeIsNotSource
    <3>4. /\ worker' \in [WorkerIds -> [pc : {"idle", "processing", "forwarding"},
                               item : Items \cup {NoItem}, todo : SUBSET Nodes]]
          /\ \A x \in WorkerIds : worker'[x].pc # "idle" =>
               /\ worker'[x].item \in Items
               /\ worker'[x].todo \subseteq Neighbors[x[1]]
      <4>1. worker' = [worker EXCEPT ![w] = FanOut(item, worker[w].todo \ {k})]
        BY <2>8 DEF EnqueueData
      <4>2. worker[w].todo \ {k} \subseteq Neighbors[w[1]]
        BY <3>1
      <4> DEFINE new == FanOut(item, worker[w].todo \ {k})
      <4>3. /\ new \in [pc : {"idle", "processing", "forwarding"},
                         item : Items \cup {NoItem}, todo : SUBSET Nodes]
            /\ new.pc # "idle" => /\ new.item \in Items
                                  /\ new.todo \subseteq Neighbors[w[1]]
        <5> DEFINE S == worker[w].todo \ {k}
        <5> HIDE DEF item, S, TypeOK
        <5> SUFFICES /\ FanOut(item, S) \in [pc : {"idle", "processing", "forwarding"},
                            item : Items \cup {NoItem}, todo : SUBSET Nodes]
                     /\ FanOut(item, S).pc # "idle" =>
                          /\ FanOut(item, S).item \in Items
                          /\ FanOut(item, S).todo \subseteq Neighbors[w[1]]
          BY DEF S
        <5>1. S \in SUBSET Nodes /\ S \subseteq Neighbors[w[1]]
          BY <3>3, <4>2 DEF S
        <5> QED BY <3>1, <5>1, FanOutType
      <4> HIDE DEF new
      <4> QED BY <4>1, <4>3 DEF new
    <3>5. Append(dataQueue[e], DataFrame(item)) \in Seq(Frames)
      BY <3>1, <3>2, FramesType
    <3>6. dataQueue' \in [Edges -> Seq(Frames)]
      BY <2>8, <3>2, <3>5 DEF EnqueueData
    <3>7. outcome' \in [Edges -> [Messages -> Seq(Outcomes)]]
      <4>1. /\ Recorded(e, item.msg, "suppressed") \in [Edges -> [Messages -> Seq(Outcomes)]]
            /\ Recorded(e, item.msg, "edge_queue_full") \in [Edges -> [Messages -> Seq(Outcomes)]]
        BY <3>1, <3>2, RecordedType DEF Outcomes, Dropped
      <4> QED BY <2>8, <4>1 DEF EnqueueData
    <3> QED BY <2>8, <3>4, <3>6, <3>7 DEF EnqueueData, knowledge
  <2>9. ASSUME NEW e \in Edges, TakeControl(e) PROVE TypeOK'
    <3>1. /\ Head(controlQueue[e]) \in Frames
          /\ Tail(controlQueue[e]) \in Seq(Frames)
      BY <2>9 DEF TakeControl
    <3>2. controlQueue' \in [Edges -> Seq(Frames)]
      BY <2>9, <3>1 DEF TakeControl
    <3>3. /\ sender' \in [Edges -> [pc : {"idle", "delaying", "writing"},
                                    frame : Frames \cup {NoFrame}]]
          /\ \A x \in Edges : sender'[x].pc # "idle" => sender'[x].frame \in Frames
      <4> DEFINE new == [pc |-> "delaying", frame |-> Head(controlQueue[e])]
      <4>1. sender' = sender \/ sender' = [sender EXCEPT ![e] = new]
        BY <2>9 DEF TakeControl
      <4>2. /\ new \in [pc : {"idle", "delaying", "writing"}, frame : Frames \cup {NoFrame}]
            /\ new.frame \in Frames
        BY <3>1
      <4>3. /\ sender \in [Edges -> [pc : {"idle", "delaying", "writing"},
                                     frame : Frames \cup {NoFrame}]]
            /\ \A x \in Edges : sender[x].pc # "idle" => sender[x].frame \in Frames
        OBVIOUS
      <4> HIDE DEF new, TypeOK
      <4> QED BY <4>1, <4>2, <4>3
    <3> QED BY <2>9, <3>2, <3>3 DEF TakeControl, knowledge
  <2>10. ASSUME NEW e \in Edges, TakeData(e) PROVE TypeOK'
    <3> DEFINE f == Head(dataQueue[e])
    <3>1. /\ f \in Frames /\ f.msg \in Messages
          /\ Tail(dataQueue[e]) \in Seq(Frames)
      BY <2>10, FramesType DEF TakeData
    <3>2. dataQueue' \in [Edges -> Seq(Frames)]
      BY <2>10, <3>1 DEF TakeData
    <3>3. /\ sender' \in [Edges -> [pc : {"idle", "delaying", "writing"},
                                    frame : Frames \cup {NoFrame}]]
          /\ \A x \in Edges : sender'[x].pc # "idle" => sender'[x].frame \in Frames
      <4> DEFINE new == [pc |-> "delaying", frame |-> f]
      <4>1. sender' = sender \/ sender' = [sender EXCEPT ![e] = new]
        BY <2>10 DEF TakeData
      <4>2. /\ new \in [pc : {"idle", "delaying", "writing"}, frame : Frames \cup {NoFrame}]
            /\ new.frame \in Frames
        BY <3>1
      <4>3. /\ sender \in [Edges -> [pc : {"idle", "delaying", "writing"},
                                     frame : Frames \cup {NoFrame}]]
            /\ \A x \in Edges : sender[x].pc # "idle" => sender[x].frame \in Frames
        OBVIOUS
      <4> HIDE DEF new, TypeOK
      <4> QED BY <4>1, <4>2, <4>3
    <3>4. outcome' \in [Edges -> [Messages -> Seq(Outcomes)]]
      <4>1. /\ Recorded(e, f.msg, "suppressed") \in [Edges -> [Messages -> Seq(Outcomes)]]
            /\ Recorded(e, f.msg, "emulated_loss") \in [Edges -> [Messages -> Seq(Outcomes)]]
        BY <3>1, RecordedType DEF Outcomes, Dropped
      <4> QED BY <2>10, <4>1 DEF TakeData
    <3> QED BY <2>10, <3>2, <3>3, <3>4 DEF TakeData, knowledge
  <2>11. ASSUME NEW e \in Edges, EndDelay(e) PROVE TypeOK'
    <3>1. sender[e].frame \in Frames /\ sender[e].frame.msg \in Messages
      BY <2>11, FramesType DEF EndDelay
    <3>2. /\ sender' \in [Edges -> [pc : {"idle", "delaying", "writing"},
                                    frame : Frames \cup {NoFrame}]]
          /\ \A x \in Edges : sender'[x].pc # "idle" => sender'[x].frame \in Frames
      BY <2>11, <3>1 DEF EndDelay, IdleSender
    <3>3. Recorded(e, sender[e].frame.msg, "suppressed")
            \in [Edges -> [Messages -> Seq(Outcomes)]]
      BY <3>1, RecordedType DEF Outcomes
    <3>4. outcome' \in [Edges -> [Messages -> Seq(Outcomes)]]
      BY <2>11, <3>3 DEF EndDelay
    <3> QED BY <2>11, <3>2, <3>4 DEF EndDelay, knowledge
  <2>12. ASSUME NEW e \in Edges, Write(e) PROVE TypeOK'
    <3> DEFINE f == sender[e].frame
    <3>1. f \in Frames /\ f.msg \in Messages
      BY <2>12, FramesType DEF Write
    <3>2. /\ sender' \in [Edges -> [pc : {"idle", "delaying", "writing"},
                                    frame : Frames \cup {NoFrame}]]
          /\ \A x \in Edges : sender'[x].pc # "idle" => sender'[x].frame \in Frames
      BY <2>12 DEF Write, IdleSender
    <3>w. wire[e] \in Seq(Frames) /\ Len(wire[e]) \in 0..Len(wire[e])
      OBVIOUS
    <3>3. PICK kept \in 0..Len(wire[e]) :
            \/ wire' = [wire EXCEPT ![e] = Append(SubSeq(@, 1, kept), f)]
            \/ wire' = [wire EXCEPT ![e] = SubSeq(@, 1, kept)]
      BY <2>12, <3>w DEF Write
    <3>4. SubSeq(wire[e], 1, kept) \in Seq(Frames)
      BY <3>3
    <3>5. Append(SubSeq(wire[e], 1, kept), f) \in Seq(Frames)
      BY <3>1, <3>4
    <3>6. wire' \in [Edges -> Seq(Frames)]
      BY <3>3, <3>4, <3>5
    <3>7. outcome' \in [Edges -> [Messages -> Seq(Outcomes)]]
      <4>1. /\ Recorded(e, f.msg, "sent") \in [Edges -> [Messages -> Seq(Outcomes)]]
            /\ Recorded(e, f.msg, "stream_write_failed")
                 \in [Edges -> [Messages -> Seq(Outcomes)]]
        BY <3>1, RecordedType DEF Outcomes, Dropped
      <4> QED BY <2>12, <4>1 DEF Write
    <3> QED BY <2>12, <3>2, <3>6, <3>7 DEF Write, knowledge
  <2>13. ASSUME NEW n \in Nodes, Crash(n) PROVE TypeOK'
    BY <2>13 DEF Crash, knowledge, edges
  <2>14. ASSUME NEW e \in Edges, LoseInFlight(e) PROVE TypeOK'
    BY <2>14 DEF LoseInFlight, knowledge
  <2>15. CASE UNCHANGED vars
    BY <2>15 DEF vars
  <2> QED
    BY <2>1, <2>2, <2>3, <2>4, <2>5, <2>6, <2>7, <2>8, <2>9, <2>10, <2>11,
       <2>12, <2>13, <2>14, <2>15 DEF Next, Handle, Read, Send, Work
<1> QED BY <1>1, <1>2, PTL DEF Spec

-----------------------------------------------------------------------------
(* Where knowledge comes from: every frame about m between e[1] and e[2],  *)
(* and every trace of m inside a peer, postdates that peer's registering   *)
(* of m.  So what a peer believes of a neighbor is true of the neighbor.   *)

About(q, known) == \A i \in DOMAIN q : q[i].msg \in known

ControlKnown == \A e \in Edges : About(controlQueue[e], seen[e[1]])
DataKnown == \A e \in Edges : About(dataQueue[e], seen[e[1]])
WireKnown == \A e \in Edges : About(wire[e], seen[e[1]])
SendKnown == \A e \in Edges : sender[e].pc # "idle" => sender[e].frame.msg \in seen[e[1]]
IntakeKnown == \A h \in Handlers : intake[h].pc # "idle" => intake[h].item.msg \in seen[At(h)]
QueueKnown == \A n \in Nodes : About(processQueue[n], seen[n])
WorkKnown == \A w \in WorkerIds : worker[w].pc # "idle" => worker[w].item.msg \in seen[w[1]]
BeliefTrue ==
  \A n, k \in Nodes, m \in Messages :
    k \in duplicateSenders[n][m] \cup dontWantPeers[n][m] => m \in seen[k]

KnowledgeInv ==
  /\ ControlKnown /\ DataKnown /\ WireKnown /\ SendKnown
  /\ IntakeKnown /\ QueueKnown /\ WorkKnown
  /\ BeliefTrue /\ SuppressionIsSafe

SeenGrows == \A n \in Nodes : seen[n] \subseteq seen'[n]

LEMMA AboutFrames ==
  ASSUME NEW q \in Seq(Frames), NEW known, NEW more, known \subseteq more,
         About(q, known)
  PROVE  /\ About(q, more)
         /\ q # << >> => Head(q).msg \in known /\ About(Tail(q), more)
BY DEF About

LEMMA AboutItems ==
  ASSUME NEW q \in Seq(Items), NEW known, NEW more, known \subseteq more,
         About(q, known)
  PROVE  /\ About(q, more)
         /\ q # << >> => Head(q).msg \in known /\ About(Tail(q), more)
BY DEF About

LEMMA FrameAdded ==
  ASSUME NEW q \in Seq(Frames), NEW f \in Frames, NEW S, About(q, S), f.msg \in S
  PROVE  About(Append(q, f), S)
BY DEF About

LEMMA ItemAdded ==
  ASSUME NEW q \in Seq(Items), NEW x \in Items, NEW S, About(q, S), x.msg \in S
  PROVE  About(Append(q, x), S)
BY DEF About

LEMMA PrefixKept ==
  ASSUME NEW q \in Seq(Frames), NEW n \in 0..Len(q), NEW S, About(q, S)
  PROVE  SubSeq(q, 1, n) \in Seq(Frames) /\ About(SubSeq(q, 1, n), S)
<1>1. SubSeq(q, 1, n) \in Seq(Frames)
  OBVIOUS
<1>2. \A i \in DOMAIN SubSeq(q, 1, n) : i \in DOMAIN q /\ SubSeq(q, 1, n)[i] = q[i]
  OBVIOUS
<1> DEFINE p == SubSeq(q, 1, n)
<1> HIDE DEF p
<1>3. About(p, S)
  BY <1>2 DEF About, p
<1> QED BY <1>1, <1>3 DEF p

(* seen only grows.                                                        *)
LEMMA SeenIsMonotonic == TypeOK /\ [Next]_vars => SeenGrows
<1> SUFFICES ASSUME TypeOK, [Next]_vars PROVE SeenGrows
  OBVIOUS
<1>1. CASE UNCHANGED seen
  BY <1>1 DEF SeenGrows
<1>2. ASSUME NEW n \in Nodes, NEW m, seen' = [seen EXCEPT ![n] = @ \cup {m}]
      PROVE  SeenGrows
  BY <1>2 DEF SeenGrows, TypeOK
<1>3. ASSUME NEW m \in Messages, Inject(m) PROVE SeenGrows
  BY <1>2, <1>3, FloodingAssumption DEF Inject
<1>4. ASSUME NEW e \in Edges, ReceiveData(e) PROVE SeenGrows
  <2>1. CASE ReceiveFirst(e, Head(wire[e]))
    BY <1>2, <2>1, EdgeType DEF ReceiveFirst
  <2>2. CASE ReceiveDuplicate(e, Head(wire[e]))
    BY <1>1, <2>2 DEF ReceiveDuplicate
  <2> QED BY <1>4, <2>1, <2>2 DEF ReceiveData
<1> QED
  BY <1>1, <1>3, <1>4
     DEF Next, Handle, Read, Send, Work, ReceiveIDontWant, Advise, EnqueueProcessing,
         StartProcessing, BeginForwarding, EnqueueData, TakeControl, TakeData,
         EndDelay, Write, Crash, LoseInFlight, knowledge, vars

(* What a step does not touch stays known.                                 *)
LEMMA KnownIsKept ==
  ASSUME TypeOK, KnowledgeInv, SeenGrows
  PROVE  /\ UNCHANGED controlQueue => ControlKnown'
         /\ UNCHANGED dataQueue => DataKnown'
         /\ UNCHANGED wire => WireKnown'
         /\ UNCHANGED sender => SendKnown'
         /\ UNCHANGED intake => IntakeKnown'
         /\ UNCHANGED processQueue => QueueKnown'
         /\ UNCHANGED worker => WorkKnown'
         /\ UNCHANGED <<duplicateSenders, dontWantPeers>> => BeliefTrue'
         /\ UNCHANGED outcome => SuppressionIsSafe'
<1> USE DEF KnowledgeInv, SeenGrows
<1>1. UNCHANGED controlQueue => ControlKnown'
  BY EdgeType DEF ControlKnown, About
<1>2. UNCHANGED dataQueue => DataKnown'
  BY EdgeType DEF DataKnown, About
<1>3. UNCHANGED wire => WireKnown'
  BY EdgeType DEF WireKnown, About
<1>4. UNCHANGED sender => SendKnown'
  BY EdgeType DEF SendKnown
<1>5. UNCHANGED intake => IntakeKnown'
  BY AtType DEF IntakeKnown
<1>6. UNCHANGED processQueue => QueueKnown'
  BY DEF QueueKnown, About
<1>7. UNCHANGED worker => WorkKnown'
  BY DEF WorkKnown, WorkerIds
<1>8. UNCHANGED <<duplicateSenders, dontWantPeers>> => BeliefTrue'
  BY DEF BeliefTrue
<1>9. UNCHANGED outcome => SuppressionIsSafe'
  BY EdgeType DEF SuppressionIsSafe
<1> QED BY <1>1, <1>2, <1>3, <1>4, <1>5, <1>6, <1>7, <1>8, <1>9

(* Recording a fate keeps SuppressionIsSafe if a suppression is justified. *)
LEMMA RecordingIsSafe ==
  ASSUME TypeOK, SuppressionIsSafe, SeenGrows,
         NEW e \in Edges, NEW m \in Messages, NEW what \in Outcomes,
         what = "suppressed" => m \in seen[e[2]],
         outcome' = Recorded(e, m, what)
  PROVE  SuppressionIsSafe'
<1> SUFFICES ASSUME NEW x \in Edges, NEW y \in Messages, NEW i \in DOMAIN outcome'[x][y],
                    outcome'[x][y][i] = "suppressed"
             PROVE  y \in seen'[x[2]]
  BY DEF SuppressionIsSafe
<1>1. outcome[x][y] \in Seq(Outcomes) /\ outcome[e][m] \in Seq(Outcomes)
  BY DEF TypeOK
<1>2. seen[x[2]] \subseteq seen'[x[2]]
  BY EdgeType DEF SeenGrows
<1>3. CASE x = e /\ y = m
  <2>1. outcome'[x][y] = Append(outcome[e][m], what)
    BY <1>3 DEF Recorded, TypeOK
  <2>2. i \in DOMAIN outcome[e][m] \/ what = "suppressed"
    BY <1>1, <2>1
  <2>3. CASE i \in DOMAIN outcome[e][m]
    <3>1. outcome[e][m][i] = "suppressed"
      BY <1>1, <2>1, <2>3
    <3> QED BY <1>2, <1>3, <2>3, <3>1 DEF SuppressionIsSafe
  <2> QED BY <1>2, <1>3, <2>2, <2>3
<1>4. CASE ~(x = e /\ y = m)
  <2>1. outcome'[x][y] = outcome[x][y]
    BY <1>4 DEF Recorded, TypeOK
  <2> QED BY <1>2, <2>1 DEF SuppressionIsSafe
<1> QED BY <1>3, <1>4

LEMMA LookUpIsTrue ==
  ASSUME BeliefTrue, NEW e \in Edges, NEW m \in Messages,
         ShouldSuppressQueued(e, m)
  PROVE  m \in seen[e[2]]
BY EdgeType DEF BeliefTrue, ShouldSuppressQueued

LEMMA KnowledgeInit == Init => KnowledgeInv
BY IdleType
   DEF Init, KnowledgeInv, ControlKnown, DataKnown, WireKnown, SendKnown, IntakeKnown,
       QueueKnown, WorkKnown, BeliefTrue, SuppressionIsSafe, About, IdleSender

LEMMA KnowledgeStep == TypeOK /\ KnowledgeInv /\ [Next]_vars => KnowledgeInv'
<1> SUFFICES ASSUME TypeOK, KnowledgeInv, [Next]_vars PROVE KnowledgeInv'
  OBVIOUS
<1>g. SeenGrows
  BY SeenIsMonotonic
<1>k. /\ UNCHANGED controlQueue => ControlKnown'
      /\ UNCHANGED dataQueue => DataKnown'
      /\ UNCHANGED wire => WireKnown'
      /\ UNCHANGED sender => SendKnown'
      /\ UNCHANGED intake => IntakeKnown'
      /\ UNCHANGED processQueue => QueueKnown'
      /\ UNCHANGED worker => WorkKnown'
      /\ UNCHANGED <<duplicateSenders, dontWantPeers>> => BeliefTrue'
      /\ UNCHANGED outcome => SuppressionIsSafe'
  BY <1>g, KnownIsKept
<1>i. /\ ControlKnown /\ DataKnown /\ WireKnown /\ SendKnown
      /\ IntakeKnown /\ QueueKnown /\ WorkKnown
      /\ BeliefTrue /\ SuppressionIsSafe
  BY DEF KnowledgeInv
<1>1. ASSUME NEW m \in Messages, Inject(m) PROVE KnowledgeInv'
  <2>1. IntakeKnown'
    <3> SUFFICES ASSUME NEW h \in Handlers, intake'[h].pc # "idle"
                 PROVE  intake'[h].item.msg \in seen'[At(h)]
      BY DEF IntakeKnown
    <3>1. CASE h = m
      <4>1. intake'[h] = Accepted(Origin[m],
                           [msg |-> m, from |-> Source, hop |-> 0, wave |-> 0])
        BY <1>1, <3>1 DEF Inject, TypeOK
      <4>2. intake'[h].item.msg = m
        BY <4>1 DEF Accepted
      <4>3. At(h) = Origin[m] /\ m \in seen'[Origin[m]]
        BY <1>1, <3>1, FloodingAssumption DEF At, Inject, TypeOK
      <4> QED BY <4>2, <4>3
    <3>2. CASE h # m
      <4>1. intake'[h] = intake[h]
        BY <1>1, <3>2 DEF Inject, TypeOK
      <4> QED BY <1>g, <1>i, <4>1, AtType DEF IntakeKnown, SeenGrows
    <3> QED BY <3>1, <3>2
  <2> QED BY <1>1, <1>k, <2>1 DEF Inject, edges, KnowledgeInv
<1>2. ASSUME NEW e \in Edges, ReceiveData(e) PROVE KnowledgeInv'
  <2> DEFINE f == Head(wire[e])
  <2>1. /\ wire[e] \in Seq(Frames) /\ wire[e] # << >>
        /\ f \in Frames /\ f.msg \in Messages
        /\ e[1] \in Nodes /\ e[2] \in Nodes /\ e \in Handlers
        /\ At(e) = e[2]
    BY <1>2, FramesType, EdgeType, FloodingAssumption DEF ReceiveData, TypeOK, At, Edges
  <2>2. f.msg \in seen[e[1]] /\ About(Tail(wire[e]), seen'[e[1]])
    BY <1>g, <1>i, <2>1, AboutFrames DEF WireKnown, SeenGrows
  <2> HIDE DEF f
  <2>3. WireKnown'
    <3> SUFFICES ASSUME NEW x \in Edges PROVE About(wire'[x], seen'[x[1]])
      BY DEF WireKnown
    <3>1. CASE x = e
      BY <1>2, <2>2, <3>1 DEF ReceiveData, TypeOK
    <3>2. CASE x # e
      <4>1. wire'[x] = wire[x] /\ seen[x[1]] \subseteq seen'[x[1]]
        BY <1>2, <1>g, <3>2, EdgeType DEF ReceiveData, TypeOK, SeenGrows
      <4> QED BY <1>i, <4>1 DEF WireKnown, About
    <3> QED BY <3>1, <3>2
  <2>4. CASE ReceiveFirst(e, f)
    <3>1. IntakeKnown'
      <4> SUFFICES ASSUME NEW h \in Handlers, intake'[h].pc # "idle"
                   PROVE  intake'[h].item.msg \in seen'[At(h)]
        BY DEF IntakeKnown
      <4>1. CASE h = e
        <5>1. intake'[h] = Accepted(e[2], Received(f, e[1]))
          BY <2>1, <2>4, <4>1 DEF ReceiveFirst, TypeOK
        <5>2. intake'[h].item.msg = f.msg
          BY <5>1 DEF Accepted, Received
        <5>3. f.msg \in seen'[e[2]]
          BY <2>1, <2>4 DEF ReceiveFirst, TypeOK
        <5> QED BY <2>1, <4>1, <5>2, <5>3
      <4>2. CASE h # e
        <5>1. intake'[h] = intake[h]
          BY <2>4, <4>2 DEF ReceiveFirst, TypeOK
        <5> QED BY <1>g, <1>i, <5>1, AtType DEF IntakeKnown, SeenGrows
      <4> QED BY <4>1, <4>2
    <3> QED BY <1>2, <1>k, <2>3, <2>4, <3>1 DEF ReceiveData, ReceiveFirst, KnowledgeInv
  <2>5. CASE ReceiveDuplicate(e, f)
    <3>1. BeliefTrue'
      <4>1. \A n, k \in Nodes, m \in Messages :
              k \in duplicateSenders'[n][m] =>
                k \in duplicateSenders[n][m] \/ (k = e[1] /\ m = f.msg)
        BY <2>1, <2>5 DEF ReceiveDuplicate, TypeOK
      <4>2. dontWantPeers' = dontWantPeers
        BY <1>2 DEF ReceiveData
      <4> QED BY <1>g, <1>i, <2>1, <2>2, <4>1, <4>2 DEF BeliefTrue, SeenGrows
    <3> QED BY <1>2, <1>k, <2>3, <2>5, <3>1 DEF ReceiveData, ReceiveDuplicate, KnowledgeInv
  <2> QED BY <1>2, <2>4, <2>5 DEF ReceiveData, f
<1>3. ASSUME NEW e \in Edges, ReceiveIDontWant(e) PROVE KnowledgeInv'
  <2> DEFINE f == Head(wire[e])
  <2>1. /\ wire[e] \in Seq(Frames) /\ wire[e] # << >>
        /\ f \in Frames /\ f.msg \in Messages
        /\ e[1] \in Nodes /\ e[2] \in Nodes
    BY <1>3, FramesType, EdgeType DEF ReceiveIDontWant, TypeOK
  <2>2. f.msg \in seen[e[1]] /\ About(Tail(wire[e]), seen'[e[1]])
    BY <1>g, <1>i, <2>1, AboutFrames DEF WireKnown, SeenGrows
  <2>3. WireKnown'
    <3> SUFFICES ASSUME NEW x \in Edges PROVE About(wire'[x], seen'[x[1]])
      BY DEF WireKnown
    <3>1. CASE x = e
      BY <1>3, <2>2, <3>1 DEF ReceiveIDontWant, TypeOK
    <3>2. CASE x # e
      <4>1. wire'[x] = wire[x] /\ seen[x[1]] \subseteq seen'[x[1]]
        BY <1>3, <1>g, <3>2, EdgeType DEF ReceiveIDontWant, TypeOK, SeenGrows
      <4> QED BY <1>i, <4>1 DEF WireKnown, About
    <3> QED BY <3>1, <3>2
  <2>4. BeliefTrue'
    <3> HIDE DEF f
    <3>1. \A n, k \in Nodes, m \in Messages :
            k \in dontWantPeers'[n][m] =>
              k \in dontWantPeers[n][m] \/ (k = e[1] /\ m = f.msg)
      BY <1>3, <2>1 DEF ReceiveIDontWant, TypeOK, f
    <3>2. duplicateSenders' = duplicateSenders
      BY <1>3 DEF ReceiveIDontWant
    <3> QED BY <1>g, <1>i, <2>1, <2>2, <3>1, <3>2 DEF BeliefTrue, SeenGrows
  <2> QED BY <1>3, <1>k, <2>3, <2>4 DEF ReceiveIDontWant, KnowledgeInv
<1>4. ASSUME NEW h \in Handlers, NEW k \in Nodes, Advise(h, k) PROVE KnowledgeInv'
  <2> DEFINE e == <<At(h), k>>
             f == IDontWantFrame(intake[h].item.msg)
  <2>1. /\ intake[h].item.msg \in seen[At(h)]
        /\ e \in Edges /\ f \in Frames /\ f.msg = intake[h].item.msg
        /\ At(h) \in Nodes /\ e[1] = At(h)
    BY <1>4, <1>i, AtType, EdgeMade, FramesType
       DEF Advise, IntakeKnown, TypeOK, IDontWantFrame
  <2>2. IntakeKnown'
    <3> SUFFICES ASSUME NEW x \in Handlers, intake'[x].pc # "idle"
                 PROVE  intake'[x].item.msg \in seen'[At(x)]
      BY DEF IntakeKnown
    <3>1. intake'[x].item = intake[x].item
      BY <1>4 DEF Advise, TypeOK
    <3>2. intake[x].pc # "idle"
      BY <1>4 DEF Advise, TypeOK
    <3> QED BY <1>g, <1>i, <3>1, <3>2, AtType DEF IntakeKnown, SeenGrows
  <2>3. ControlKnown'
    <3> SUFFICES ASSUME NEW x \in Edges PROVE About(controlQueue'[x], seen'[x[1]])
      BY DEF ControlKnown
    <3> HIDE DEF f
    <3>0. controlQueue[x] \in Seq(Frames) /\ seen[x[1]] \subseteq seen'[x[1]]
          /\ About(controlQueue[x], seen[x[1]])
      BY <1>g, <1>i, EdgeType DEF TypeOK, SeenGrows, ControlKnown
    <3>1. \/ controlQueue'[x] = controlQueue[x]
          \/ x = e /\ controlQueue'[x] = Append(controlQueue[x], f)
      BY <1>4 DEF Advise, TypeOK, f
    <3>2. x = e => f.msg \in seen'[x[1]]
      BY <2>1, <3>0
    <3>3. About(controlQueue[x], seen'[x[1]])
      BY <3>0 DEF About
    <3>4. CASE x = e /\ controlQueue'[x] = Append(controlQueue[x], f)
      <4>1. About(Append(controlQueue[x], f), seen'[x[1]])
        BY <2>1, <3>0, <3>2, <3>3, <3>4, FrameAdded
      <4> QED BY <3>4, <4>1
    <3> QED BY <3>1, <3>3, <3>4
  <2> QED BY <1>4, <1>k, <2>2, <2>3 DEF Advise, knowledge, KnowledgeInv
<1>5. ASSUME NEW h \in Handlers, EnqueueProcessing(h) PROVE KnowledgeInv'
  <2>1. /\ intake[h].item \in Items
        /\ intake[h].item.msg \in seen[At(h)]
        /\ At(h) \in Nodes
    BY <1>5, <1>i, AtType DEF EnqueueProcessing, IntakeKnown, TypeOK
  <2>2. IntakeKnown'
    <3> SUFFICES ASSUME NEW x \in Handlers, intake'[x].pc # "idle"
                 PROVE  intake'[x].item.msg \in seen'[At(x)]
      BY DEF IntakeKnown
    <3>1. intake'[x] = intake[x]
      BY <1>5, IdleType DEF EnqueueProcessing, TypeOK
    <3> QED BY <1>g, <1>i, <3>1, AtType DEF IntakeKnown, SeenGrows
  <2>3. QueueKnown'
    <3> SUFFICES ASSUME NEW n \in Nodes PROVE About(processQueue'[n], seen'[n])
      BY DEF QueueKnown
    <3>0. processQueue[n] \in Seq(Items) /\ seen[n] \subseteq seen'[n]
          /\ About(processQueue[n], seen[n])
      BY <1>g, <1>i DEF TypeOK, SeenGrows, QueueKnown
    <3>1. \/ processQueue'[n] = processQueue[n]
          \/ n = At(h) /\ processQueue'[n] = Append(processQueue[n], intake[h].item)
      BY <1>5 DEF EnqueueProcessing, TypeOK
    <3>2. n = At(h) => intake[h].item.msg \in seen'[n]
      BY <2>1, <3>0
    <3>3. About(processQueue[n], seen'[n])
      BY <3>0 DEF About
    <3>4. CASE n = At(h) /\ processQueue'[n] = Append(processQueue[n], intake[h].item)
      <4>1. About(Append(processQueue[n], intake[h].item), seen'[n])
        BY <2>1, <3>0, <3>2, <3>3, <3>4, ItemAdded
      <4> QED BY <3>4, <4>1
    <3> QED BY <3>1, <3>3, <3>4
  <2> QED BY <1>5, <1>k, <2>2, <2>3 DEF EnqueueProcessing, knowledge, edges, KnowledgeInv
<1>6. ASSUME NEW w \in WorkerIds, StartProcessing(w) PROVE KnowledgeInv'
  <2> DEFINE n == w[1]
  <2>1. /\ n \in Nodes
        /\ processQueue[n] \in Seq(Items) /\ processQueue[n] # << >>
        /\ seen[n] \subseteq seen'[n]
        /\ About(processQueue[n], seen[n])
    BY <1>6, <1>g, <1>i DEF StartProcessing, WorkerIds, TypeOK, SeenGrows, QueueKnown
  <2>2. Head(processQueue[n]).msg \in seen[n] /\ About(Tail(processQueue[n]), seen'[n])
    BY <2>1, AboutItems
  <2>3. QueueKnown'
    <3> SUFFICES ASSUME NEW x \in Nodes PROVE About(processQueue'[x], seen'[x])
      BY DEF QueueKnown
    <3>1. CASE x = n
      BY <1>6, <2>1, <2>2, <3>1 DEF StartProcessing, TypeOK
    <3>2. CASE x # n
      <4>1. processQueue'[x] = processQueue[x] /\ seen[x] \subseteq seen'[x]
        BY <1>6, <1>g, <3>2 DEF StartProcessing, TypeOK, SeenGrows
      <4> QED BY <1>i, <4>1 DEF QueueKnown, About
    <3> QED BY <3>1, <3>2
  <2>4. WorkKnown'
    <3> SUFFICES ASSUME NEW x \in WorkerIds, worker'[x].pc # "idle"
                 PROVE  worker'[x].item.msg \in seen'[x[1]]
      BY DEF WorkKnown
    <3>1. CASE x = w
      <4>1. worker'[x].item = Head(processQueue[n])
        BY <1>6, <3>1 DEF StartProcessing, TypeOK
      <4> QED BY <2>1, <2>2, <3>1, <4>1
    <3>2. CASE x # w
      <4>1. worker'[x] = worker[x] /\ seen[x[1]] \subseteq seen'[x[1]]
        BY <1>6, <1>g, <3>2 DEF StartProcessing, TypeOK, SeenGrows, WorkerIds
      <4> QED BY <1>i, <4>1 DEF WorkKnown
    <3> QED BY <3>1, <3>2
  <2> QED BY <1>6, <1>k, <2>3, <2>4 DEF StartProcessing, knowledge, edges, KnowledgeInv
<1>7. ASSUME NEW w \in WorkerIds, BeginForwarding(w) PROVE KnowledgeInv'
  <2> DEFINE n == w[1]
             item == worker[w].item
             others == Neighbors[n] \ {item.from}
             skipped == others \cap Suppressed(n, item.msg)
             outgoing == [item EXCEPT !.hop = @ + 1, !.wave = OutgoingWave(item)]
  <2>1. /\ n \in Nodes /\ item \in Items /\ item.msg \in Messages
        /\ item.msg \in seen[n]
    BY <1>7, <1>i, FramesType DEF BeginForwarding, WorkerIds, TypeOK, WorkKnown
  <2>2. outgoing.msg = item.msg /\ outgoing \in Items
    BY <2>1, OutgoingType DEF Items
  <2>3. PICK S \in TargetSets(item, others \ skipped) :
          worker' = [worker EXCEPT ![w] = FanOut(outgoing, S)]
    BY <1>7 DEF BeginForwarding
  <2>4. S \in SUBSET Nodes
    BY <2>1, <2>3, TargetsType, NodeIsNotSource
  <2>5. WorkKnown'
    <3> SUFFICES ASSUME NEW x \in WorkerIds, worker'[x].pc # "idle"
                 PROVE  worker'[x].item.msg \in seen'[x[1]]
      BY DEF WorkKnown
    <3> HIDE DEF outgoing, item
    <3>1. CASE x = w
      <4>1. worker'[x] = FanOut(outgoing, S)
        BY <2>3, <3>1 DEF TypeOK
      <4>2. worker'[x].item = outgoing
        BY <2>2, <2>4, <4>1, FanOutType
      <4> QED BY <1>g, <2>1, <2>2, <3>1, <4>2 DEF SeenGrows
    <3>2. CASE x # w
      <4>1. worker'[x] = worker[x] /\ seen[x[1]] \subseteq seen'[x[1]]
        BY <2>3, <1>g, <3>2 DEF TypeOK, SeenGrows, WorkerIds
      <4> QED BY <1>i, <4>1 DEF WorkKnown
    <3> QED BY <3>1, <3>2
  <2>6. \A k \in skipped : item.msg \in seen[k]
    <3>1. \A k \in skipped : k \in Nodes /\ k \in duplicateSenders[n][item.msg]
                                                \cup dontWantPeers[n][item.msg]
      BY <2>1, NodeIsNotSource DEF Suppressed
    <3> HIDE DEF skipped, item
    <3> QED BY <1>i, <2>1, <3>1 DEF BeliefTrue
  <2>7. SuppressionIsSafe'
    <3> SUFFICES ASSUME NEW e \in Edges, NEW m \in Messages, NEW i \in DOMAIN outcome'[e][m],
                        outcome'[e][m][i] = "suppressed"
                 PROVE  m \in seen'[e[2]]
      BY DEF SuppressionIsSafe
    <3>0. seen[e[2]] \subseteq seen'[e[2]] /\ outcome[e][m] \in Seq(Outcomes)
      BY <1>g, EdgeType DEF SeenGrows, TypeOK
    <3>1. CASE e[1] = n /\ e[2] \in skipped /\ m = item.msg
      BY <2>6, <3>0, <3>1
    <3>2. CASE ~(e[1] = n /\ e[2] \in skipped /\ m = item.msg)
      <4>1. outcome' = [x \in Edges |->
           IF x[1] = n /\ x[2] \in skipped
             THEN [outcome[x] EXCEPT ![item.msg] = Append(@, "suppressed")]
             ELSE outcome[x]]
        BY <1>7 DEF BeginForwarding
      <4> HIDE DEF skipped, item
      <4>2. outcome'[e][m] = outcome[e][m]
        BY <3>2, <4>1 DEF TypeOK
      <4> QED BY <1>i, <3>0, <4>2 DEF SuppressionIsSafe
    <3> QED BY <3>1, <3>2
  <2> QED BY <1>7, <1>k, <2>5, <2>7 DEF BeginForwarding, edges, KnowledgeInv
<1>8. ASSUME NEW w \in WorkerIds, NEW k \in Nodes, EnqueueData(w, k) PROVE KnowledgeInv'
  <2> DEFINE e == <<w[1], k>>
             item == worker[w].item
             S == worker[w].todo \ {k}
  <2>1. /\ w[1] \in Nodes /\ item \in Items /\ item.msg \in Messages
        /\ item.msg \in seen[w[1]]
        /\ e \in Edges /\ e[1] = w[1]
        /\ S \in SUBSET Nodes
    BY <1>8, <1>i, FramesType, EdgeMade DEF EnqueueData, WorkerIds, TypeOK, WorkKnown
  <2>2. WorkKnown'
    <3> SUFFICES ASSUME NEW x \in WorkerIds, worker'[x].pc # "idle"
                 PROVE  worker'[x].item.msg \in seen'[x[1]]
      BY DEF WorkKnown
    <3>0. worker' = [worker EXCEPT ![w] = FanOut(item, S)]
      BY <1>8 DEF EnqueueData
    <3> HIDE DEF item, S
    <3>1. CASE x = w
      <4>1. worker'[x] = FanOut(item, S)
        BY <3>0, <3>1 DEF TypeOK
      <4>2. worker'[x].item = item
        BY <2>1, <4>1, FanOutType
      <4> QED BY <1>g, <2>1, <3>1, <4>2 DEF SeenGrows
    <3>2. CASE x # w
      <4>1. worker'[x] = worker[x] /\ seen[x[1]] \subseteq seen'[x[1]]
        BY <3>0, <1>g, <3>2 DEF TypeOK, SeenGrows, WorkerIds
      <4> QED BY <1>i, <4>1 DEF WorkKnown
    <3> QED BY <3>1, <3>2
  <2>3. DataKnown'
    <3> SUFFICES ASSUME NEW x \in Edges PROVE About(dataQueue'[x], seen'[x[1]])
      BY DEF DataKnown
    <3>0. dataQueue[x] \in Seq(Frames) /\ seen[x[1]] \subseteq seen'[x[1]]
          /\ About(dataQueue[x], seen[x[1]])
      BY <1>g, <1>i, EdgeType DEF TypeOK, SeenGrows, DataKnown
    <3>1. \/ dataQueue'[x] = dataQueue[x]
          \/ x = e /\ dataQueue'[x] = Append(dataQueue[x], DataFrame(item))
      <4>1. CASE UNCHANGED dataQueue
        BY <4>1
      <4>2. CASE dataQueue' = [dataQueue EXCEPT ![e] = Append(@, DataFrame(item))]
        <5> HIDE DEF e, item
        <5> QED BY <4>2 DEF TypeOK
      <4> QED BY <1>8, <4>1, <4>2 DEF EnqueueData
    <3>2. /\ DataFrame(item) \in Frames
          /\ x = e => DataFrame(item).msg \in seen'[x[1]]
      BY <2>1, <3>0, FramesType DEF DataFrame
    <3>3. About(dataQueue[x], seen'[x[1]])
      BY <3>0 DEF About
    <3>4. CASE x = e /\ dataQueue'[x] = Append(dataQueue[x], DataFrame(item))
      <4>1. About(Append(dataQueue[x], DataFrame(item)), seen'[x[1]])
        BY <3>0, <3>2, <3>3, <3>4, FrameAdded
      <4> QED BY <3>4, <4>1
    <3> QED BY <3>1, <3>3, <3>4
  <2>4. SuppressionIsSafe'
    <3>1. CASE outcome' = outcome
      BY <1>k, <3>1
    <3>2. CASE ShouldSuppressQueued(e, item.msg) /\ outcome' = Recorded(e, item.msg, "suppressed")
      <4>1. item.msg \in seen[e[2]]
        BY <1>i, <2>1, <3>2, LookUpIsTrue
      <4> HIDE DEF item, e
      <4> QED BY <1>g, <1>i, <2>1, <3>2, <4>1, RecordingIsSafe DEF Outcomes
    <3>3. CASE outcome' = Recorded(e, item.msg, "edge_queue_full")
      <4> HIDE DEF item, e
      <4> QED BY <1>g, <1>i, <2>1, <3>3, RecordingIsSafe DEF Outcomes, Dropped
    <3> QED BY <1>8, <3>1, <3>2, <3>3 DEF EnqueueData
  <2> QED BY <1>8, <1>k, <2>2, <2>3, <2>4 DEF EnqueueData, knowledge, KnowledgeInv
<1>9. ASSUME NEW e \in Edges, TakeControl(e) PROVE KnowledgeInv'
  <2>1. /\ controlQueue[e] \in Seq(Frames) /\ controlQueue[e] # << >>
        /\ seen[e[1]] \subseteq seen'[e[1]] /\ About(controlQueue[e], seen[e[1]])
    BY <1>9, <1>g, <1>i, EdgeType DEF TakeControl, TypeOK, SeenGrows, ControlKnown
  <2>2. Head(controlQueue[e]).msg \in seen[e[1]] /\ About(Tail(controlQueue[e]), seen'[e[1]])
    <3>1. Head(controlQueue[e]) = controlQueue[e][1] /\ 1 \in DOMAIN controlQueue[e]
      BY <2>1
    <3> QED BY <2>1, <3>1, AboutFrames DEF About
  <2>3. ControlKnown'
    <3> SUFFICES ASSUME NEW x \in Edges PROVE About(controlQueue'[x], seen'[x[1]])
      BY DEF ControlKnown
    <3>1. CASE x = e
      BY <1>9, <2>2, <3>1 DEF TakeControl, TypeOK
    <3>2. CASE x # e
      <4>1. controlQueue'[x] = controlQueue[x] /\ seen[x[1]] \subseteq seen'[x[1]]
        BY <1>9, <1>g, <3>2, EdgeType DEF TakeControl, TypeOK, SeenGrows
      <4> QED BY <1>i, <4>1 DEF ControlKnown, About
    <3> QED BY <3>1, <3>2
  <2>4. SendKnown'
    <3> SUFFICES ASSUME NEW x \in Edges, sender'[x].pc # "idle"
                 PROVE  sender'[x].frame.msg \in seen'[x[1]]
      BY DEF SendKnown
    <3>1. CASE sender'[x] = sender[x]
      BY <1>g, <1>i, <3>1, EdgeType DEF SendKnown, SeenGrows
    <3>2. CASE x = e /\ sender'[x].frame = Head(controlQueue[e])
      BY <2>1, <2>2, <3>2
    <3> QED BY <1>9, <3>1, <3>2 DEF TakeControl, TypeOK
  <2> QED BY <1>9, <1>k, <2>3, <2>4 DEF TakeControl, knowledge, KnowledgeInv
<1>10. ASSUME NEW e \in Edges, TakeData(e) PROVE KnowledgeInv'
  <2> DEFINE f == Head(dataQueue[e])
  <2>1. /\ dataQueue[e] \in Seq(Frames) /\ dataQueue[e] # << >>
        /\ f \in Frames /\ f.msg \in Messages
        /\ seen[e[1]] \subseteq seen'[e[1]] /\ About(dataQueue[e], seen[e[1]])
    BY <1>10, <1>g, <1>i, EdgeType, FramesType DEF TakeData, TypeOK, SeenGrows, DataKnown
  <2>2. f.msg \in seen[e[1]] /\ About(Tail(dataQueue[e]), seen'[e[1]])
    BY <2>1, AboutFrames
  <2> HIDE DEF f
  <2>3. DataKnown'
    <3> SUFFICES ASSUME NEW x \in Edges PROVE About(dataQueue'[x], seen'[x[1]])
      BY DEF DataKnown
    <3>1. CASE x = e
      BY <1>10, <2>2, <3>1 DEF TakeData, TypeOK
    <3>2. CASE x # e
      <4>1. dataQueue'[x] = dataQueue[x] /\ seen[x[1]] \subseteq seen'[x[1]]
        BY <1>10, <1>g, <3>2, EdgeType DEF TakeData, TypeOK, SeenGrows
      <4> QED BY <1>i, <4>1 DEF DataKnown, About
    <3> QED BY <3>1, <3>2
  <2>4. SendKnown'
    <3> SUFFICES ASSUME NEW x \in Edges, sender'[x].pc # "idle"
                 PROVE  sender'[x].frame.msg \in seen'[x[1]]
      BY DEF SendKnown
    <3>1. CASE sender'[x] = sender[x]
      BY <1>g, <1>i, <3>1, EdgeType DEF SendKnown, SeenGrows
    <3>2. CASE x = e /\ sender'[x].frame = f
      BY <2>1, <2>2, <3>2
    <3> QED BY <1>10, <3>1, <3>2 DEF TakeData, TypeOK, f
  <2>5. SuppressionIsSafe'
    <3>1. CASE outcome' = outcome
      BY <1>k, <3>1
    <3>2. CASE ShouldSuppressQueued(e, f.msg) /\ outcome' = Recorded(e, f.msg, "suppressed")
      <4>1. f.msg \in seen[e[2]]
        BY <1>i, <2>1, <3>2, LookUpIsTrue
      <4> QED BY <1>g, <1>i, <2>1, <3>2, <4>1, RecordingIsSafe DEF Outcomes
    <3>3. CASE outcome' = Recorded(e, f.msg, "emulated_loss")
      BY <1>g, <1>i, <2>1, <3>3, RecordingIsSafe DEF Outcomes, Dropped
    <3> QED BY <1>10, <3>1, <3>2, <3>3 DEF TakeData, f
  <2> QED BY <1>10, <1>k, <2>3, <2>4, <2>5 DEF TakeData, knowledge, KnowledgeInv
<1>11. ASSUME NEW e \in Edges, EndDelay(e) PROVE KnowledgeInv'
  <2> DEFINE f == sender[e].frame
  <2>1. f \in Frames /\ f.msg \in Messages /\ f.msg \in seen[e[1]]
    BY <1>11, <1>i, FramesType DEF EndDelay, TypeOK, SendKnown
  <2>2. SendKnown'
    <3> SUFFICES ASSUME NEW x \in Edges, sender'[x].pc # "idle"
                 PROVE  sender'[x].frame.msg \in seen'[x[1]]
      BY DEF SendKnown
    <3>1. CASE x = e
      <4>1. sender'[x].frame = f
        BY <1>11, <3>1 DEF EndDelay, TypeOK, IdleSender
      <4> QED BY <1>g, <2>1, <3>1, <4>1, EdgeType DEF SeenGrows
    <3>2. CASE x # e
      <4>1. sender'[x] = sender[x]
        BY <1>11, <3>2 DEF EndDelay, TypeOK
      <4> QED BY <1>g, <1>i, <4>1, EdgeType DEF SendKnown, SeenGrows
    <3> QED BY <3>1, <3>2
  <2>3. SuppressionIsSafe'
    <3> HIDE DEF f
    <3>1. CASE outcome' = outcome
      BY <1>k, <3>1
    <3>2. CASE ShouldSuppressQueued(e, f.msg) /\ outcome' = Recorded(e, f.msg, "suppressed")
      <4>1. f.msg \in seen[e[2]]
        BY <1>i, <2>1, <3>2, LookUpIsTrue
      <4> QED BY <1>g, <1>i, <2>1, <3>2, <4>1, RecordingIsSafe DEF Outcomes
    <3> QED BY <1>11, <3>1, <3>2 DEF EndDelay, f
  <2> QED BY <1>11, <1>k, <2>2, <2>3 DEF EndDelay, knowledge, KnowledgeInv
<1>12. ASSUME NEW e \in Edges, Write(e) PROVE KnowledgeInv'
  <2> DEFINE f == sender[e].frame
  <2>1. f \in Frames /\ f.msg \in Messages /\ f.msg \in seen[e[1]]
    BY <1>12, <1>i, FramesType DEF Write, TypeOK, SendKnown
  <2>2. SendKnown'
    <3> SUFFICES ASSUME NEW x \in Edges, sender'[x].pc # "idle"
                 PROVE  sender'[x].frame.msg \in seen'[x[1]]
      BY DEF SendKnown
    <3>1. sender'[x] = sender[x]
      BY <1>12 DEF Write, TypeOK, IdleSender
    <3> QED BY <1>g, <1>i, <3>1, EdgeType DEF SendKnown, SeenGrows
  <2>3. WireKnown'
    <3> SUFFICES ASSUME NEW x \in Edges PROVE About(wire'[x], seen'[x[1]])
      BY DEF WireKnown
    <3> HIDE DEF f
    <3>0. wire[x] \in Seq(Frames) /\ seen[x[1]] \subseteq seen'[x[1]]
          /\ About(wire[x], seen[x[1]])
      BY <1>g, <1>i, EdgeType DEF TypeOK, SeenGrows, WireKnown
    <3>1. CASE x = e
      <4>0. wire[e] \in Seq(Frames) /\ Len(wire[e]) \in 0..Len(wire[e])
        BY DEF TypeOK
      <4>1. PICK kept \in 0..Len(wire[e]) :
              \/ wire' = [wire EXCEPT ![e] = Append(SubSeq(@, 1, kept), f)]
              \/ wire' = [wire EXCEPT ![e] = SubSeq(@, 1, kept)]
        BY <1>12, <4>0 DEF Write, f
      <4>2. About(wire[e], seen'[e[1]]) /\ f.msg \in seen'[e[1]]
        BY <2>1, <3>0, <3>1 DEF About
      <4>3. /\ SubSeq(wire[e], 1, kept) \in Seq(Frames)
            /\ About(SubSeq(wire[e], 1, kept), seen'[e[1]])
        BY <4>0, <4>1, <4>2, PrefixKept
      <4>4. About(Append(SubSeq(wire[e], 1, kept), f), seen'[e[1]])
        BY <2>1, <4>2, <4>3, FrameAdded
      <4>5. \/ wire'[e] = Append(SubSeq(wire[e], 1, kept), f)
            \/ wire'[e] = SubSeq(wire[e], 1, kept)
        BY <4>1 DEF TypeOK
      <4> QED BY <3>1, <4>3, <4>4, <4>5
    <3>2. CASE x # e
      <4>1. wire'[x] = wire[x]
        BY <1>12, <3>2 DEF Write, TypeOK
      <4> QED BY <3>0, <4>1 DEF About
    <3> QED BY <3>1, <3>2
  <2>4. SuppressionIsSafe'
    <3> HIDE DEF f
    <3>1. CASE outcome' = outcome
      BY <1>k, <3>1
    <3>2. CASE \/ outcome' = Recorded(e, f.msg, "sent")
               \/ outcome' = Recorded(e, f.msg, "stream_write_failed")
      BY <1>g, <1>i, <2>1, <3>2, RecordingIsSafe DEF Outcomes, Dropped
    <3> QED BY <1>12, <3>1, <3>2 DEF Write, f
  <2> QED BY <1>12, <1>k, <2>2, <2>3, <2>4 DEF Write, knowledge, KnowledgeInv
<1>13. ASSUME NEW n \in Nodes, Crash(n) PROVE KnowledgeInv'
  BY <1>13, <1>k DEF Crash, knowledge, edges, KnowledgeInv
<1>14. ASSUME NEW e \in Edges, LoseInFlight(e) PROVE KnowledgeInv'
  <2>1. WireKnown'
    <3> SUFFICES ASSUME NEW x \in Edges PROVE About(wire'[x], seen'[x[1]])
      BY DEF WireKnown
    <3>0. wire[x] \in Seq(Frames) /\ seen[x[1]] \subseteq seen'[x[1]]
          /\ About(wire[x], seen[x[1]])
      BY <1>g, <1>i, EdgeType DEF TypeOK, SeenGrows, WireKnown
    <3>1. CASE x = e
      <4>1. Len(wire[e]) - 1 \in 0..Len(wire[e])
        BY <1>14 DEF LoseInFlight, TypeOK
      <4>2. wire'[e] = SubSeq(wire[e], 1, Len(wire[e]) - 1)
        BY <1>14 DEF LoseInFlight, TypeOK
      <4>3. wire[e] \in Seq(Frames) /\ About(wire[e], seen'[e[1]])
        BY <3>0, <3>1 DEF About
      <4>4. About(SubSeq(wire[e], 1, Len(wire[e]) - 1), seen'[e[1]])
        BY <4>1, <4>3, PrefixKept
      <4> QED BY <3>1, <4>2, <4>4
    <3>2. CASE x # e
      BY <1>14, <3>0, <3>2 DEF LoseInFlight, TypeOK, About
    <3> QED BY <3>1, <3>2
  <2> QED BY <1>14, <1>k, <2>1 DEF LoseInFlight, knowledge, KnowledgeInv
<1>15. CASE UNCHANGED vars
  BY <1>15, <1>k DEF vars, KnowledgeInv
<1> QED
  BY <1>1, <1>2, <1>3, <1>4, <1>5, <1>6, <1>7, <1>8, <1>9, <1>10, <1>11,
     <1>12, <1>13, <1>14, <1>15 DEF Next, Handle, Read, Send, Work

(* In every protocol and topology and whatever is lost, a suppressed       *)
(* payload was suppressed towards a peer that had the message already.     *)
THEOREM SuppressionIsAlwaysSafe == Spec => []SuppressionIsSafe
<1>1. KnowledgeInv => SuppressionIsSafe
  BY DEF KnowledgeInv
<1> QED BY <1>1, KnowledgeInit, KnowledgeStep, TypeCorrect, PTL DEF Spec

-----------------------------------------------------------------------------
(* Every step of the peers is a step of propagation or leaves it alone:    *)
(* a message is registered at its origin first and then only next to a     *)
(* peer that has it.                                                       *)
THEOREM FloodingIsPropagation == Spec => PropagatesSafely
<1>1. Init => Prop!PInit
  BY DEF Init, Prop!PInit
<1>2. TypeOK /\ KnowledgeInv /\ [Next]_vars => [Prop!PNext]_seen
  <2> SUFFICES ASSUME TypeOK, KnowledgeInv, [Next]_vars PROVE [Prop!PNext]_seen
    OBVIOUS
  <2>1. ASSUME NEW m \in Messages, Inject(m) PROVE Prop!PNext
    BY <2>1 DEF Inject, Prop!PNext, Prop!Publish
  <2>2. ASSUME NEW e \in Edges, ReceiveData(e) PROVE [Prop!PNext]_seen
    <3> DEFINE f == Head(wire[e])
    <3>1. CASE ReceiveDuplicate(e, f)
      BY <3>1 DEF ReceiveDuplicate
    <3>2. CASE ReceiveFirst(e, f)
      <4>1. /\ f.msg \in Messages /\ f.msg \in seen[e[1]]
            /\ e[2] \in Nodes /\ e[1] \in Neighbors[e[2]]
        <5>1. wire[e] \in Seq(Frames) /\ wire[e] # << >> /\ About(wire[e], seen[e[1]])
          BY <2>2 DEF ReceiveData, TypeOK, KnowledgeInv, WireKnown
        <5> QED BY <5>1, EdgeType, FramesType, AboutFrames
      <4>2. Prop!Spread(e[2], f.msg)
        <5> HIDE DEF f
        <5> QED BY <3>2, <4>1 DEF ReceiveFirst, Prop!Spread
      <4> QED BY <4>1, <4>2 DEF Prop!PNext
    <3> QED BY <2>2, <3>1, <3>2 DEF ReceiveData
  <2>3. CASE UNCHANGED seen
    BY <2>3
  <2> QED
    BY <2>1, <2>2, <2>3
       DEF Next, Handle, Read, Send, Work, ReceiveIDontWant, Advise, EnqueueProcessing,
           StartProcessing, BeginForwarding, EnqueueData, TakeControl, TakeData,
           EndDelay, Write, Crash, LoseInFlight, knowledge, vars
<1> QED
  BY <1>1, <1>2, TypeCorrect, KnowledgeInit, KnowledgeStep, PTL
     DEF Spec, PropagatesSafely, Prop!PSafeSpec

-----------------------------------------------------------------------------
(* Arithmetic of HopWave's cycle.                                          *)
LEMMA SmallMultiple ==
  ASSUME NEW k \in Nat \ {0}, NEW d \in Int, NEW r \in Int, k * d = r, r < k, -k < r
  PROVE  r = 0
<1>1. d >= 1 => k * d >= k
  OBVIOUS
<1>2. d <= -1 => k * d <= -k
  OBVIOUS
<1>3. d = 0
  BY <1>1, <1>2
<1> QED BY <1>3

LEMMA Remainder ==
  ASSUME NEW k \in Nat \ {0}, NEW q \in Int, NEW r \in 0..(k - 1)
  PROVE  (k * q + r) % k = r
<1> DEFINE a == k * q + r
           d == q - (a \div k)
           s == (a % k) - r
<1>1. /\ a \in Int /\ (a % k) \in 0..(k - 1) /\ (a \div k) \in Int
      /\ a = k * (a \div k) + (a % k)
  OBVIOUS
<1>2. d \in Int /\ s \in Int /\ s < k /\ -k < s /\ k * d = s
  BY <1>1
<1>3. s = 0
  <2> HIDE DEF d, s
  <2> QED BY <1>2, SmallMultiple
<1> QED BY <1>1, <1>3

LEMMA NextLevel ==
  ASSUME NEW h \in Nat, NEW k \in Nat \ {0}
  PROVE  /\ h % k >= k - 1 => (h + 1) % k = 0
         /\ h % k < k - 1 => (h + 1) % k = (h % k) + 1
<1> DEFINE q == h \div k
           r == h % k
<1>1. r \in 0..(k - 1) /\ q \in Int /\ h = k * q + r
  OBVIOUS
<1> HIDE DEF q, r
<1>2. CASE r >= k - 1
  <2>1. h + 1 = k * (q + 1) + 0 /\ q + 1 \in Int /\ 0 \in 0..(k - 1)
    BY <1>1, <1>2
  <2>2. (h + 1) % k = 0
    BY <2>1, Remainder
  <2> QED BY <1>2, <2>2 DEF r
<1>3. CASE r < k - 1
  <2>1. h + 1 = k * q + (r + 1) /\ r + 1 \in 0..(k - 1)
    BY <1>1, <1>3
  <2>2. (h + 1) % k = r + 1
    BY <1>1, <2>1, Remainder
  <2> QED BY <1>3, <2>2 DEF r
<1> QED BY <1>1, <1>2, <1>3

-----------------------------------------------------------------------------
(* What a copy says of its way.  A copy that has crossed h edges tells of  *)
(* h peers that have the message: each of them was new on the way.         *)

Reached(m, known) == {n \in Nodes : m \in known[n]}

(* The state it is judged by.                                              *)
way == [protocol |-> protocol, seen |-> seen, supplier |-> supplier]

InStep(hop, wave, s) ==
  hop \in Nat \ {0} /\ (s.protocol = "hopwave" => wave = (hop - 1) % WaveI)

(* A payload under way on an edge, or in a worker's forwarding loop.       *)
CopyRight(c, s) ==
  InStep(c.hop, c.wave, s) /\ c.hop <= Cardinality(Reached(c.msg, s.seen))

(* A first copy inside peer n.                                             *)
ItemRight(n, item, s) ==
  /\ item.msg \in s.seen[n]
  /\ item.from = s.supplier[n][item.msg]
  /\ IF item.from = Source THEN item.hop = 0 /\ item.wave = 0
     ELSE InStep(item.hop, item.wave, s)
  /\ item.hop + 1 <= Cardinality(Reached(item.msg, s.seen))

FrameRight(f, s) == f.type = "data" => CopyRight(f, s)

IntakeRight ==
  \A h \in Handlers : intake[h].pc # "idle" => ItemRight(At(h), intake[h].item, way)
QueueRight ==
  \A n \in Nodes : \A i \in DOMAIN processQueue[n] : ItemRight(n, processQueue[n][i], way)
WorkRight ==
  \A w \in WorkerIds :
    /\ worker[w].pc = "processing" => ItemRight(w[1], worker[w].item, way)
    /\ worker[w].pc = "forwarding" => CopyRight(worker[w].item, way)
ControlOnly ==
  \A e \in Edges : \A i \in DOMAIN controlQueue[e] : controlQueue[e][i].type = "idontwant"
DataRight ==
  \A e \in Edges : \A i \in DOMAIN dataQueue[e] :
    dataQueue[e][i].type = "data" /\ CopyRight(dataQueue[e][i], way)
SendRight == \A e \in Edges : sender[e].pc # "idle" => FrameRight(sender[e].frame, way)
WireRight == \A e \in Edges : \A i \in DOMAIN wire[e] : FrameRight(wire[e][i], way)

(* An injector carries its own message.                                    *)
InjectorsHold == \A m \in Messages : intake[m].pc # "idle" => intake[m].item.msg = m

TravelInv ==
  /\ IntakeRight /\ QueueRight /\ WorkRight
  /\ ControlOnly /\ DataRight /\ SendRight /\ WireRight
  /\ InjectorsHold

LEMMA ReachedType ==
  ASSUME TypeOK, NEW m \in Messages
  PROVE  /\ IsFiniteSet(Reached(m, seen))
         /\ Cardinality(Reached(m, seen)) \in Nat
         /\ Cardinality(Reached(m, seen)) <= Cardinality(Nodes)
BY FloodingAssumption, FS_Subset, FS_CardinalityType DEF Reached

LEMMA ReachedGrows ==
  ASSUME TypeOK, TypeOK', SeenGrows, NEW m \in Messages
  PROVE  Cardinality(Reached(m, seen)) <= Cardinality(Reached(m, seen'))
<1>1. Reached(m, seen) \subseteq Reached(m, seen')
  BY DEF Reached, SeenGrows
<1>2. IsFiniteSet(Reached(m, seen'))
  BY FloodingAssumption, FS_Subset DEF Reached
<1> QED BY <1>1, <1>2, FS_Subset

(* A peer that is new has one more with it.                                *)
LEMMA OneMoreReached ==
  ASSUME TypeOK, NEW n \in Nodes, NEW m \in Messages, m \notin seen[n],
         seen' = [seen EXCEPT ![n] = @ \cup {m}]
  PROVE  Cardinality(Reached(m, seen')) = Cardinality(Reached(m, seen)) + 1
<1>1. Reached(m, seen') = Reached(m, seen) \cup {n} /\ n \notin Reached(m, seen)
  BY DEF Reached, TypeOK
<1> QED BY <1>1, ReachedType, FS_AddElement

(* What no step takes back: the protocol, and who supplied a message.      *)
LEMMA SupplierStays ==
  ASSUME TypeOK, [Next]_vars
  PROVE  /\ protocol' = protocol
         /\ \A n \in Nodes : \A m \in seen[n] : supplier'[n][m] = supplier[n][m]
<1>0. protocol' = protocol
  BY DEF Next, Read, Handle, Work, Send, vars
<1>1. ASSUME NEW n \in Nodes, NEW m \in Messages, NEW k,
             m \notin seen[n], supplier' = [supplier EXCEPT ![n][m] = k]
      PROVE  \A x \in Nodes : \A y \in seen[x] : supplier'[x][y] = supplier[x][y]
  <2> SUFFICES ASSUME NEW x \in Nodes, NEW y \in seen[x]
               PROVE  supplier'[x][y] = supplier[x][y]
    OBVIOUS
  <2>1. y \in Messages /\ (x = n => y # m)
    BY <1>1 DEF TypeOK
  <2> QED BY <1>1, <2>1 DEF TypeOK
<1>2. ASSUME NEW m \in Messages, Inject(m)
      PROVE  \A x \in Nodes : \A y \in seen[x] : supplier'[x][y] = supplier[x][y]
  BY <1>1, <1>2, FloodingAssumption DEF Inject
<1>3. ASSUME NEW e \in Edges, ReceiveData(e)
      PROVE  \A x \in Nodes : \A y \in seen[x] : supplier'[x][y] = supplier[x][y]
  <2> DEFINE f == Head(wire[e])
  <2>1. f.msg \in Messages
    BY <1>3, FramesType DEF ReceiveData, TypeOK
  <2>2. CASE ReceiveFirst(e, f)
    <3> HIDE DEF f
    <3> QED BY <1>1, <2>1, <2>2, EdgeType DEF ReceiveFirst
  <2>3. CASE ReceiveDuplicate(e, f)
    BY <2>3 DEF ReceiveDuplicate
  <2> QED BY <1>3, <2>2, <2>3 DEF ReceiveData
<1> QED
  BY <1>0, <1>2, <1>3
     DEF Next, Handle, Read, Send, Work, ReceiveIDontWant, Advise, EnqueueProcessing,
         StartProcessing, BeginForwarding, EnqueueData, TakeControl, TakeData,
         EndDelay, Write, Crash, LoseInFlight, vars

(* So what a copy says of its way stays right.                             *)
Lasting ==
  /\ \A n \in Nodes : \A item \in Items : ItemRight(n, item, way) => ItemRight(n, item, way')
  /\ \A c \in Items \cup Frames : CopyRight(c, way) => CopyRight(c, way')

LEMMA RightIsLasting ==
  ASSUME TypeOK, TypeOK', [Next]_vars
  PROVE  Lasting
<1>1. SeenGrows
  BY SeenIsMonotonic
<1>2. /\ protocol' = protocol
      /\ \A n \in Nodes : \A m \in seen[n] : supplier'[n][m] = supplier[n][m]
  BY SupplierStays
<1>3. ASSUME NEW c \in Items \cup Frames
      PROVE  /\ c.msg \in Messages /\ c.hop \in Nat
             /\ Cardinality(Reached(c.msg, seen)) \in Nat /\ Cardinality(Reached(c.msg, seen')) \in Nat
             /\ Cardinality(Reached(c.msg, seen)) <= Cardinality(Reached(c.msg, seen'))
  <2>1. c.msg \in Messages /\ c.hop \in Nat
    BY DEF Items, Frames
  <2>2. Cardinality(Reached(c.msg, seen')) \in Nat
    BY <2>1, FloodingAssumption, FS_Subset, FS_CardinalityType DEF Reached
  <2> QED BY <1>1, <2>1, <2>2, ReachedType, ReachedGrows
<1>4. ASSUME NEW c \in Items \cup Frames, CopyRight(c, way) PROVE CopyRight(c, way')
  <2>1. InStep(c.hop, c.wave, way')
    BY <1>2, <1>4 DEF CopyRight, way, InStep, IsHopWave
  <2>2. c.hop <= Cardinality(Reached(c.msg, seen'))
    BY <1>3, <1>4 DEF CopyRight, way
  <2> QED BY <2>1, <2>2 DEF CopyRight, way
<1>5. ASSUME NEW n \in Nodes, NEW item \in Items, ItemRight(n, item, way)
      PROVE  ItemRight(n, item, way')
  <2>1. item.msg \in seen'[n] /\ item.from = supplier'[n][item.msg]
    BY <1>1, <1>2, <1>5 DEF ItemRight, way, SeenGrows
  <2>2. IF item.from = Source THEN item.hop = 0 /\ item.wave = 0
        ELSE InStep(item.hop, item.wave, way')
    BY <1>2, <1>5 DEF ItemRight, way, InStep, IsHopWave
  <2>3. item.hop + 1 <= Cardinality(Reached(item.msg, seen'))
    BY <1>3, <1>5 DEF ItemRight, way
  <2> QED BY <2>1, <2>2, <2>3 DEF ItemRight, way
<1> QED BY <1>4, <1>5 DEF Lasting

LEMMA TravelIsKept ==
  ASSUME TypeOK, TravelInv, Lasting
  PROVE  /\ UNCHANGED intake => IntakeRight' /\ InjectorsHold'
         /\ UNCHANGED processQueue => QueueRight'
         /\ UNCHANGED worker => WorkRight'
         /\ UNCHANGED controlQueue => ControlOnly'
         /\ UNCHANGED dataQueue => DataRight'
         /\ UNCHANGED sender => SendRight'
         /\ UNCHANGED wire => WireRight'
<1> USE DEF TravelInv
<1>1. UNCHANGED intake => IntakeRight' /\ InjectorsHold'
  BY AtType DEF IntakeRight, InjectorsHold, Lasting, TypeOK
<1>2. UNCHANGED processQueue => QueueRight'
  <2> SUFFICES ASSUME UNCHANGED processQueue, NEW n \in Nodes,
                      NEW i \in DOMAIN processQueue[n]
               PROVE  ItemRight(n, processQueue[n][i], way')
    BY DEF QueueRight
  <2>1. processQueue[n][i] \in Items /\ ItemRight(n, processQueue[n][i], way)
    BY DEF QueueRight, TypeOK
  <2> QED BY <2>1 DEF Lasting
<1>3. UNCHANGED worker => WorkRight'
  BY DEF WorkRight, Lasting, TypeOK, WorkerIds
<1>4. UNCHANGED controlQueue => ControlOnly'
  BY DEF ControlOnly
<1>5. UNCHANGED dataQueue => DataRight'
  BY DEF DataRight, Lasting, TypeOK
<1>6. UNCHANGED sender => SendRight'
  BY DEF SendRight, FrameRight, Lasting, TypeOK
<1>7. UNCHANGED wire => WireRight'
  BY DEF WireRight, FrameRight, Lasting, TypeOK
<1> QED BY <1>1, <1>2, <1>3, <1>4, <1>5, <1>6, <1>7

LEMMA RightOfTail ==
  ASSUME NEW S, NEW q \in Seq(S), q # << >>, NEW i \in DOMAIN Tail(q)
  PROVE  i + 1 \in DOMAIN q /\ Tail(q)[i] = q[i + 1]
OBVIOUS

LEMMA RightOfAppend ==
  ASSUME NEW S, NEW q \in Seq(S), NEW x \in S, NEW i \in DOMAIN Append(q, x)
  PROVE  \/ i \in DOMAIN q /\ Append(q, x)[i] = q[i]
         \/ i = Len(q) + 1 /\ Append(q, x)[i] = x
OBVIOUS

LEMMA RightOfPrefix ==
  ASSUME NEW S, NEW q \in Seq(S), NEW n \in 0..Len(q), NEW i \in DOMAIN SubSeq(q, 1, n)
  PROVE  i \in DOMAIN q /\ SubSeq(q, 1, n)[i] = q[i]
OBVIOUS

(* A frame that is read.                                                   *)
LEMMA ReadKeepsWire ==
  ASSUME TypeOK, TravelInv, Lasting, NEW e \in Edges, wire[e] # << >>,
         wire' = [wire EXCEPT ![e] = Tail(@)]
  PROVE  WireRight'
<1> SUFFICES ASSUME NEW x \in Edges, NEW i \in DOMAIN wire'[x]
             PROVE  FrameRight(wire'[x][i], way')
  BY DEF WireRight
<1>0. wire[x] \in Seq(Frames) /\ wire[e] \in Seq(Frames)
  BY DEF TypeOK
<1>1. \E j \in DOMAIN wire[x] : wire'[x][i] = wire[x][j]
  <2>1. CASE x = e
    <3>1. wire'[x] = Tail(wire[e])
      BY <2>1 DEF TypeOK
    <3> QED BY <1>0, <2>1, <3>1, RightOfTail
  <2>2. CASE x # e
    BY <2>2 DEF TypeOK
  <2> QED BY <2>1, <2>2
<1>2. PICK j \in DOMAIN wire[x] : wire'[x][i] = wire[x][j]
  BY <1>1
<1>3. wire[x][j] \in Frames /\ FrameRight(wire[x][j], way)
  BY <1>0 DEF TravelInv, WireRight
<1> QED BY <1>2, <1>3 DEF FrameRight, Lasting

LEMMA TravelInit == Init => TravelInv
<1> SUFFICES ASSUME Init PROVE TravelInv
  OBVIOUS
<1>1. IntakeRight /\ InjectorsHold /\ WorkRight
  BY IdleType DEF Init, IntakeRight, InjectorsHold, WorkRight, Handlers
<1>2. QueueRight /\ ControlOnly /\ DataRight /\ WireRight
  BY DEF Init, QueueRight, ControlOnly, DataRight, WireRight
<1>3. SendRight
  BY DEF Init, SendRight, IdleSender
<1> QED BY <1>1, <1>2, <1>3 DEF TravelInv

LEMMA TravelStep == TypeOK /\ TypeOK' /\ KnowledgeInv /\ TravelInv /\ [Next]_vars => TravelInv'
<1> SUFFICES ASSUME TypeOK, TypeOK', KnowledgeInv, TravelInv, [Next]_vars PROVE TravelInv'
  OBVIOUS
<1>g. Lasting /\ SeenGrows
  BY RightIsLasting, SeenIsMonotonic
<1>k. /\ UNCHANGED intake => IntakeRight' /\ InjectorsHold'
      /\ UNCHANGED processQueue => QueueRight'
      /\ UNCHANGED worker => WorkRight'
      /\ UNCHANGED controlQueue => ControlOnly'
      /\ UNCHANGED dataQueue => DataRight'
      /\ UNCHANGED sender => SendRight'
      /\ UNCHANGED wire => WireRight'
  BY <1>g, TravelIsKept
<1>i. /\ IntakeRight /\ QueueRight /\ WorkRight
      /\ ControlOnly /\ DataRight /\ SendRight /\ WireRight
      /\ InjectorsHold
  BY DEF TravelInv
<1>1. ASSUME NEW m \in Messages, Inject(m) PROVE TravelInv'
  <2> DEFINE n == Origin[m]
             item == [msg |-> m, from |-> Source, hop |-> 0, wave |-> 0]
  <2>1. /\ n \in Nodes /\ m \in Handlers /\ At(m) = n /\ item \in Items
        /\ intake' = [intake EXCEPT ![m] = Accepted(n, item)]
        /\ Accepted(n, item).item = item
    BY <1>1, FloodingAssumption DEF Inject, Handlers, At, Items, Accepted
  <2>2. ItemRight(n, item, way')
    <3>1. m \in seen'[n] /\ supplier'[n][m] = Source
      BY <1>1, <2>1 DEF Inject, TypeOK
    <3>2. Cardinality(Reached(m, seen')) = Cardinality(Reached(m, seen)) + 1
      BY <1>1, <2>1, OneMoreReached DEF Inject
    <3>3. 0 + 1 <= Cardinality(Reached(m, seen'))
      BY <3>2, ReachedType
    <3> QED BY <3>1, <3>3 DEF ItemRight, way
  <2> HIDE DEF item
  <2>3. IntakeRight'
    <3> SUFFICES ASSUME NEW h \in Handlers, intake'[h].pc # "idle"
                 PROVE  ItemRight(At(h), intake'[h].item, way')
      BY DEF IntakeRight
    <3>1. CASE h = m
      BY <2>1, <2>2, <3>1 DEF TypeOK
    <3>2. CASE h # m
      BY <1>g, <1>i, <2>1, <3>2, AtType DEF IntakeRight, Lasting, TypeOK
    <3> QED BY <3>1, <3>2
  <2>4. InjectorsHold'
    <3> SUFFICES ASSUME NEW x \in Messages, intake'[x].pc # "idle"
                 PROVE  intake'[x].item.msg = x
      BY DEF InjectorsHold
    <3>1. x \in Handlers
      BY DEF Handlers
    <3>2. CASE x = m
      BY <2>1, <3>2 DEF TypeOK, item
    <3>3. CASE x # m
      BY <1>i, <2>1, <3>1, <3>3 DEF InjectorsHold, TypeOK
    <3> QED BY <3>2, <3>3
  <2> QED BY <1>1, <1>k, <2>3, <2>4 DEF Inject, edges, TravelInv
<1>2. ASSUME NEW e \in Edges, ReceiveData(e) PROVE TravelInv'
  <2> DEFINE f == Head(wire[e])
  <2>1. /\ wire[e] \in Seq(Frames) /\ wire[e] # << >>
        /\ f \in Frames /\ f.msg \in Messages /\ f = wire[e][1] /\ 1 \in DOMAIN wire[e]
        /\ f.type = "data"
        /\ e[1] \in Nodes /\ e[2] \in Nodes /\ e \in Handlers /\ At(e) = e[2]
    BY <1>2, FramesType, EdgeType, FloodingAssumption DEF ReceiveData, TypeOK, At, Edges
  <2>2. CopyRight(f, way)
    BY <1>i, <2>1 DEF WireRight, FrameRight
  <2>3. WireRight'
    BY <1>2, <1>g, ReadKeepsWire DEF ReceiveData
  <2> HIDE DEF f
  <2>4. CASE ReceiveFirst(e, f)
    <3> DEFINE item == Received(f, e[1])
    <3>1. /\ item \in Items /\ Accepted(e[2], item).item = item
          /\ intake' = [intake EXCEPT ![e] = Accepted(e[2], item)]
      BY <2>1, <2>4, ReceivedType DEF ReceiveFirst, Accepted
    <3>2. ItemRight(e[2], item, way')
      <4>1. f.msg \in seen'[e[2]] /\ supplier'[e[2]][f.msg] = e[1]
        BY <2>1, <2>4 DEF ReceiveFirst, TypeOK
      <4>2. Cardinality(Reached(f.msg, seen')) = Cardinality(Reached(f.msg, seen)) + 1
        BY <2>1, <2>4, OneMoreReached DEF ReceiveFirst
      <4>3. f.hop \in Nat /\ f.hop + 1 <= Cardinality(Reached(f.msg, seen'))
        BY <2>1, <2>2, <4>2, ReachedType DEF CopyRight, way, Frames
      <4>4. CopyRight(f, way') /\ e[1] # Source
        BY <1>g, <2>1, <2>2, FloodingAssumption DEF Lasting
      <4> QED BY <4>1, <4>3, <4>4 DEF ItemRight, CopyRight, way, Received
    <3> HIDE DEF item
    <3>3. IntakeRight'
      <4> SUFFICES ASSUME NEW h \in Handlers, intake'[h].pc # "idle"
                   PROVE  ItemRight(At(h), intake'[h].item, way')
        BY DEF IntakeRight
      <4>1. CASE h = e
        BY <2>1, <3>1, <3>2, <4>1 DEF TypeOK
      <4>2. CASE h # e
        BY <1>g, <1>i, <3>1, <4>2, AtType DEF IntakeRight, Lasting, TypeOK
      <4> QED BY <4>1, <4>2
    <3>4. InjectorsHold'
      BY <1>i, <2>1, <3>1, FloodingAssumption DEF InjectorsHold, TypeOK, Handlers, Edges
    <3> QED BY <1>2, <1>k, <2>3, <3>3, <3>4 DEF ReceiveData, TravelInv
  <2>5. CASE ReceiveDuplicate(e, f)
    BY <1>2, <1>k, <2>3, <2>5 DEF ReceiveData, ReceiveDuplicate, TravelInv
  <2> QED BY <1>2, <2>4, <2>5 DEF ReceiveData, f
<1>3. ASSUME NEW e \in Edges, ReceiveIDontWant(e) PROVE TravelInv'
  BY <1>3, <1>g, <1>k, ReadKeepsWire DEF ReceiveIDontWant, TravelInv
<1>4. ASSUME NEW h \in Handlers, NEW k \in Nodes, Advise(h, k) PROVE TravelInv'
  <2> DEFINE e == <<At(h), k>>
             f == IDontWantFrame(intake[h].item.msg)
  <2>1. /\ e \in Edges /\ f \in Frames /\ f.type = "idontwant"
        /\ intake[h].pc # "idle"
    BY <1>4, AtType, EdgeMade, FramesType DEF Advise, TypeOK, IDontWantFrame
  <2>2. \A x \in Handlers : intake'[x].item = intake[x].item
                            /\ (intake'[x].pc = intake[x].pc)
    BY <1>4 DEF Advise, TypeOK
  <2>3. IntakeRight'
    <3> SUFFICES ASSUME NEW x \in Handlers, intake'[x].pc # "idle"
                 PROVE  ItemRight(At(x), intake'[x].item, way')
      BY DEF IntakeRight
    <3> QED BY <1>g, <1>i, <2>2, AtType DEF IntakeRight, Lasting, TypeOK
  <2>4. InjectorsHold'
    BY <1>i, <2>2 DEF InjectorsHold, Handlers
  <2>5. ControlOnly'
    <3> SUFFICES ASSUME NEW x \in Edges, NEW i \in DOMAIN controlQueue'[x]
                 PROVE  controlQueue'[x][i].type = "idontwant"
      BY DEF ControlOnly
    <3> HIDE DEF f
    <3>0. controlQueue' \in {controlQueue, [controlQueue EXCEPT ![e] = Append(@, f)]}
      BY <1>4 DEF Advise, f
    <3>2. controlQueue[x] \in Seq(Frames) /\ controlQueue \in [Edges -> Seq(Frames)]
      BY DEF TypeOK
    <3> HIDE DEF e
    <3>1. \/ controlQueue'[x] = controlQueue[x]
          \/ x = e /\ controlQueue'[x] = Append(controlQueue[x], f)
      BY <3>0, <3>2
    <3>3. \/ i \in DOMAIN controlQueue[x] /\ controlQueue'[x][i] = controlQueue[x][i]
          \/ controlQueue'[x][i] = f
      <4>1. CASE controlQueue'[x] = controlQueue[x]
        BY <4>1
      <4>2. CASE controlQueue'[x] = Append(controlQueue[x], f)
        BY <2>1, <3>2, <4>2, RightOfAppend
      <4> QED BY <3>1, <4>1, <4>2
    <3> QED BY <1>i, <2>1, <3>3 DEF ControlOnly
  <2> QED BY <1>4, <1>k, <2>3, <2>4, <2>5 DEF Advise, knowledge, TravelInv
<1>5. ASSUME NEW h \in Handlers, EnqueueProcessing(h) PROVE TravelInv'
  <2> DEFINE n == At(h)
             item == intake[h].item
  <2>1. n \in Nodes /\ item \in Items /\ ItemRight(n, item, way)
    BY <1>5, <1>i, AtType DEF EnqueueProcessing, IntakeRight, TypeOK
  <2>2. intake' = [intake EXCEPT ![h] = Idle] /\ Idle.pc = "idle"
    BY <1>5 DEF EnqueueProcessing, Idle
  <2>3. IntakeRight' /\ InjectorsHold'
    <3>1. \A x \in Handlers : intake'[x].pc # "idle" => intake'[x] = intake[x]
      BY <2>2 DEF TypeOK
    <3>2. IntakeRight'
      <4> SUFFICES ASSUME NEW x \in Handlers, intake'[x].pc # "idle"
                   PROVE  ItemRight(At(x), intake'[x].item, way')
        BY DEF IntakeRight
      <4> QED BY <1>g, <1>i, <3>1, AtType DEF IntakeRight, Lasting, TypeOK
    <3> QED BY <1>i, <3>1, <3>2 DEF InjectorsHold, Handlers
  <2>4. QueueRight'
    <3> SUFFICES ASSUME NEW x \in Nodes, NEW i \in DOMAIN processQueue'[x]
                 PROVE  ItemRight(x, processQueue'[x][i], way')
      BY DEF QueueRight
    <3> HIDE DEF n, item
    <3>0. processQueue[x] \in Seq(Items)
      BY DEF TypeOK
    <3>1. \/ processQueue'[x] = processQueue[x]
          \/ x = n /\ processQueue'[x] = Append(processQueue[x], item)
      BY <1>5, <2>1 DEF EnqueueProcessing, TypeOK, n, item
    <3>2. \/ i \in DOMAIN processQueue[x] /\ processQueue'[x][i] = processQueue[x][i]
          \/ x = n /\ processQueue'[x][i] = item
      BY <2>1, <3>0, <3>1, RightOfAppend
    <3>3. CASE x = n /\ processQueue'[x][i] = item
      BY <1>g, <2>1, <3>3 DEF Lasting
    <3>4. CASE i \in DOMAIN processQueue[x] /\ processQueue'[x][i] = processQueue[x][i]
      BY <1>g, <1>i, <3>0, <3>4 DEF QueueRight, Lasting
    <3> QED BY <3>2, <3>3, <3>4
  <2> QED BY <1>5, <1>k, <2>3, <2>4 DEF EnqueueProcessing, edges, TravelInv
<1>6. ASSUME NEW w \in WorkerIds, StartProcessing(w) PROVE TravelInv'
  <2> DEFINE n == w[1]
             item == Head(processQueue[n])
  <2>1. /\ n \in Nodes /\ processQueue[n] \in Seq(Items) /\ processQueue[n] # << >>
        /\ item \in Items /\ item = processQueue[n][1] /\ 1 \in DOMAIN processQueue[n]
    BY <1>6 DEF StartProcessing, WorkerIds, TypeOK
  <2>2. ItemRight(n, item, way)
    BY <1>i, <2>1 DEF QueueRight
  <2> HIDE DEF n, item
  <2>3. QueueRight'
    <3> SUFFICES ASSUME NEW x \in Nodes, NEW i \in DOMAIN processQueue'[x]
                 PROVE  ItemRight(x, processQueue'[x][i], way')
      BY DEF QueueRight
    <3>0. processQueue[x] \in Seq(Items)
      BY DEF TypeOK
    <3>1. \E j \in DOMAIN processQueue[x] : processQueue'[x][i] = processQueue[x][j]
      <4>1. CASE x = n
        <5>1. processQueue'[x] = Tail(processQueue[n])
          BY <1>6, <2>1, <4>1 DEF StartProcessing, TypeOK, n
        <5> QED BY <2>1, <4>1, <5>1, RightOfTail
      <4>2. CASE x # n
        BY <1>6, <4>2 DEF StartProcessing, TypeOK, n
      <4> QED BY <4>1, <4>2
    <3>2. PICK j \in DOMAIN processQueue[x] : processQueue'[x][i] = processQueue[x][j]
      BY <3>1
    <3>3. processQueue[x][j] \in Items /\ ItemRight(x, processQueue[x][j], way)
      BY <1>i, <3>0 DEF QueueRight
    <3> QED BY <1>g, <3>2, <3>3 DEF Lasting
  <2>4. WorkRight'
    <3>1. worker' = [worker EXCEPT ![w] = [pc |-> "processing", item |-> item, todo |-> {}]]
      BY <1>6 DEF StartProcessing, n, item
    <3>2. ASSUME NEW x \in WorkerIds
          PROVE  /\ worker'[x].pc = "processing" => ItemRight(x[1], worker'[x].item, way')
                 /\ worker'[x].pc = "forwarding" => CopyRight(worker'[x].item, way')
      <4>1. CASE x = w
        BY <1>g, <2>1, <2>2, <3>1, <4>1 DEF Lasting, TypeOK, n
      <4>2. CASE x # w
        BY <1>g, <1>i, <3>1, <4>2 DEF WorkRight, Lasting, TypeOK, WorkerIds
      <4> QED BY <4>1, <4>2
    <3> QED BY <3>2 DEF WorkRight
  <2> QED BY <1>6, <1>k, <2>3, <2>4 DEF StartProcessing, edges, TravelInv
<1>7. ASSUME NEW w \in WorkerIds, BeginForwarding(w) PROVE TravelInv'
  <2> DEFINE item == worker[w].item
             outgoing == [item EXCEPT !.hop = @ + 1, !.wave = OutgoingWave(item)]
  <2>1. /\ w[1] \in Nodes /\ item \in Items /\ ItemRight(w[1], item, way)
    BY <1>7, <1>i DEF BeginForwarding, WorkRight, WorkerIds, TypeOK
  <2>2. outgoing \in Items
    BY <2>1, OutgoingType
  <2>3. /\ item.hop \in Nat /\ item.wave \in Nat
        /\ outgoing.msg = item.msg /\ outgoing.hop = item.hop + 1
        /\ outgoing.wave = OutgoingWave(item)
    BY <2>1 DEF Items
  <2>4. IsHopWave => OutgoingWave(item) = item.hop % WaveI
    <3> HIDE DEF item, outgoing
    <3> SUFFICES ASSUME IsHopWave PROVE OutgoingWave(item) = item.hop % WaveI
      OBVIOUS
    <3>0. WaveI \in Nat \ {0}
      BY FloodingAssumption
    <3>1. CASE item.from = Source
      <4>1. item.hop = 0 /\ OutgoingWave(item) = 0
        BY <2>1, <3>1 DEF ItemRight, way, OutgoingWave, Crest
      <4> QED BY <3>0, <4>1
    <3>2. CASE item.from # Source
      <4>1. item.hop \in Nat \ {0} /\ item.wave = (item.hop - 1) % WaveI
        BY <2>1, <3>2 DEF ItemRight, way, InStep, IsHopWave
      <4> DEFINE h == item.hop - 1
      <4>2. h \in Nat /\ h + 1 = item.hop /\ item.wave = h % WaveI
        BY <4>1
      <4> HIDE DEF h
      <4>3. /\ item.wave >= WaveI - 1 => (h + 1) % WaveI = 0
            /\ item.wave < WaveI - 1 => (h + 1) % WaveI = item.wave + 1
        BY <3>0, <4>2, NextLevel
      <4>4. CASE Crest(item)
        <5>1. item.wave >= WaveI - 1
          BY <2>3, <3>0, <3>2, <4>4 DEF Crest
        <5> QED BY <4>2, <4>3, <4>4, <5>1 DEF OutgoingWave
      <4>5. CASE ~Crest(item)
        <5>1. item.wave < WaveI - 1
          BY <2>3, <3>0, <3>2, <4>5 DEF Crest
        <5> QED BY <4>2, <4>3, <4>5, <5>1 DEF OutgoingWave
      <4> QED BY <4>4, <4>5
    <3> QED BY <3>1, <3>2
  <2>5. CopyRight(outgoing, way)
    <3> HIDE DEF outgoing, item
    <3>1. outgoing.hop <= Cardinality(Reached(outgoing.msg, seen))
      BY <2>1, <2>3 DEF ItemRight, way
    <3>2. outgoing.hop \in Nat \ {0} /\ outgoing.hop - 1 = item.hop
      BY <2>3
    <3> QED BY <2>3, <2>4, <3>1, <3>2 DEF CopyRight, way, InStep, IsHopWave
  <2>6. WorkRight'
    <3>0. PICK targets \in SUBSET Nodes : worker' = [worker EXCEPT ![w] = FanOut(outgoing, targets)]
      BY <1>7, ForwardingFansOut
    <3> HIDE DEF outgoing, item
    <3>1. /\ FanOut(outgoing, targets).pc \in {"idle", "forwarding"}
          /\ FanOut(outgoing, targets).pc # "idle" => FanOut(outgoing, targets).item = outgoing
      BY <2>2, FanOutType
    <3>2. ASSUME NEW x \in WorkerIds
          PROVE  /\ worker'[x].pc = "processing" => ItemRight(x[1], worker'[x].item, way')
                 /\ worker'[x].pc = "forwarding" => CopyRight(worker'[x].item, way')
      <4>1. CASE x = w
        <5>1. worker'[x] = FanOut(outgoing, targets)
          BY <3>0, <4>1 DEF TypeOK
        <5> QED BY <1>g, <2>2, <2>5, <3>1, <5>1 DEF Lasting
      <4>2. CASE x # w
        <5>1. worker'[x] = worker[x]
          BY <3>0, <4>2 DEF TypeOK
        <5>2. /\ x[1] \in Nodes
              /\ worker[x].pc # "idle" => worker[x].item \in Items
          BY DEF TypeOK, WorkerIds
        <5> QED BY <1>g, <1>i, <5>1, <5>2 DEF WorkRight, Lasting
      <4> QED BY <4>1, <4>2
    <3> QED BY <3>2 DEF WorkRight
  <2> QED BY <1>7, <1>k, <2>6 DEF BeginForwarding, edges, TravelInv
<1>8. ASSUME NEW w \in WorkerIds, NEW k \in Nodes, EnqueueData(w, k) PROVE TravelInv'
  <2> DEFINE e == <<w[1], k>>
             item == worker[w].item
             f == DataFrame(item)
  <2>1. /\ w[1] \in Nodes /\ item \in Items /\ CopyRight(item, way)
        /\ k \in Neighbors[w[1]] /\ e \in Edges
    BY <1>8, <1>i, EdgeMade DEF EnqueueData, WorkRight, WorkerIds, TypeOK
  <2>2. f \in Frames /\ f.type = "data" /\ CopyRight(f, way)
    BY <2>1, FramesType DEF DataFrame, CopyRight, way
  <2>3. WorkRight'
    <3> DEFINE left == worker[w].todo \ {k}
    <3>1. worker' = [worker EXCEPT ![w] = FanOut(item, left)] /\ left \in SUBSET Nodes
      BY <1>8 DEF EnqueueData, TypeOK
    <3> HIDE DEF left, item
    <3>2. /\ FanOut(item, left).pc \in {"idle", "forwarding"}
          /\ FanOut(item, left).pc # "idle" => FanOut(item, left).item = item
      BY <2>1, <3>1, FanOutType
    <3>3. ASSUME NEW x \in WorkerIds
          PROVE  /\ worker'[x].pc = "processing" => ItemRight(x[1], worker'[x].item, way')
                 /\ worker'[x].pc = "forwarding" => CopyRight(worker'[x].item, way')
      <4>1. CASE x = w
        <5>1. worker'[x] = FanOut(item, left)
          BY <3>1, <4>1 DEF TypeOK
        <5> QED BY <1>g, <2>1, <3>2, <5>1 DEF Lasting
      <4>2. CASE x # w
        BY <1>g, <1>i, <3>1, <4>2 DEF WorkRight, Lasting, TypeOK, WorkerIds
      <4> QED BY <4>1, <4>2
    <3> QED BY <3>3 DEF WorkRight
  <2>4. DataRight'
    <3> SUFFICES ASSUME NEW x \in Edges, NEW i \in DOMAIN dataQueue'[x]
                 PROVE  dataQueue'[x][i].type = "data" /\ CopyRight(dataQueue'[x][i], way')
      BY DEF DataRight
    <3>0. dataQueue[x] \in Seq(Frames)
      BY DEF TypeOK
    <3>1. \/ dataQueue'[x] = dataQueue[x]
          \/ dataQueue'[x] = Append(dataQueue[x], f)
      <4>1. \/ UNCHANGED dataQueue
            \/ dataQueue' = [dataQueue EXCEPT ![e] = Append(@, f)]
        BY <1>8 DEF EnqueueData
      <4> HIDE DEF e, f
      <4> QED BY <4>1 DEF TypeOK
    <3> HIDE DEF f
    <3>2. \/ i \in DOMAIN dataQueue[x] /\ dataQueue'[x][i] = dataQueue[x][i]
          \/ dataQueue'[x][i] = f
      BY <2>2, <3>0, <3>1, RightOfAppend
    <3>3. CASE dataQueue'[x][i] = f
      BY <1>g, <2>2, <3>3 DEF Lasting
    <3>4. CASE i \in DOMAIN dataQueue[x] /\ dataQueue'[x][i] = dataQueue[x][i]
      BY <1>g, <1>i, <3>0, <3>4 DEF DataRight, Lasting
    <3> QED BY <3>2, <3>3, <3>4
  <2> QED BY <1>8, <1>k, <2>3, <2>4 DEF EnqueueData, knowledge, TravelInv
<1>s. ASSUME NEW e \in Edges, NEW s, sender' = [sender EXCEPT ![e] = s],
             s.pc # "idle" => s.frame \in Frames /\ FrameRight(s.frame, way)
      PROVE  SendRight'
  <2> SUFFICES ASSUME NEW x \in Edges, sender'[x].pc # "idle"
               PROVE  FrameRight(sender'[x].frame, way')
    BY DEF SendRight
  <2>1. CASE x = e
    <3>1. sender'[x] = s
      BY <1>s, <2>1 DEF TypeOK
    <3> QED BY <1>g, <1>s, <3>1 DEF FrameRight, Lasting
  <2>2. CASE x # e
    <3>1. sender'[x] = sender[x]
      BY <1>s, <2>2 DEF TypeOK
    <3> QED BY <1>g, <1>i, <3>1 DEF SendRight, FrameRight, Lasting, TypeOK
  <2> QED BY <2>1, <2>2
<1>9. ASSUME NEW e \in Edges, TakeControl(e) PROVE TravelInv'
  <2> DEFINE f == Head(controlQueue[e])
             s == [pc |-> "delaying", frame |-> f]
  <2>1. /\ controlQueue[e] \in Seq(Frames) /\ controlQueue[e] # << >>
        /\ f \in Frames /\ f.type = "idontwant"
    BY <1>9, <1>i DEF TakeControl, ControlOnly, TypeOK
  <2>2. SendRight'
    <3>1. CASE UNCHANGED sender
      BY <1>k, <3>1
    <3>2. CASE sender' = [sender EXCEPT ![e] = s]
      <4>1. s.frame = f
        OBVIOUS
      <4> HIDE DEF f, s
      <4> QED BY <1>s, <2>1, <3>2, <4>1 DEF FrameRight
    <3> QED BY <1>9, <3>1, <3>2 DEF TakeControl
  <2> HIDE DEF f, s
  <2>3. ControlOnly'
    <3> SUFFICES ASSUME NEW x \in Edges, NEW i \in DOMAIN controlQueue'[x]
                 PROVE  controlQueue'[x][i].type = "idontwant"
      BY DEF ControlOnly
    <3>1. CASE x = e
      <4>1. controlQueue'[x] = Tail(controlQueue[e])
        BY <1>9, <3>1 DEF TakeControl, TypeOK
      <4> QED BY <1>i, <2>1, <3>1, <4>1, RightOfTail DEF ControlOnly
    <3>2. CASE x # e
      BY <1>9, <1>i, <3>2 DEF TakeControl, TypeOK, ControlOnly
    <3> QED BY <3>1, <3>2
  <2> QED BY <1>9, <1>k, <2>2, <2>3 DEF TakeControl, knowledge, TravelInv
<1>10. ASSUME NEW e \in Edges, TakeData(e) PROVE TravelInv'
  <2> DEFINE f == Head(dataQueue[e])
             s == [pc |-> "delaying", frame |-> f]
  <2>1. /\ dataQueue[e] \in Seq(Frames) /\ dataQueue[e] # << >>
        /\ f \in Frames /\ CopyRight(f, way)
    BY <1>10, <1>i DEF TakeData, DataRight, TypeOK
  <2>2. SendRight'
    <3>1. CASE UNCHANGED sender
      BY <1>k, <3>1
    <3>2. CASE sender' = [sender EXCEPT ![e] = s]
      <4>1. s.frame = f
        OBVIOUS
      <4> HIDE DEF f, s
      <4> QED BY <1>s, <2>1, <3>2, <4>1 DEF FrameRight
    <3> QED BY <1>10, <3>1, <3>2 DEF TakeData
  <2> HIDE DEF f, s
  <2>3. DataRight'
    <3> SUFFICES ASSUME NEW x \in Edges, NEW i \in DOMAIN dataQueue'[x]
                 PROVE  dataQueue'[x][i].type = "data" /\ CopyRight(dataQueue'[x][i], way')
      BY DEF DataRight
    <3>0. dataQueue[x] \in Seq(Frames)
      BY DEF TypeOK
    <3>1. \E j \in DOMAIN dataQueue[x] : dataQueue'[x][i] = dataQueue[x][j]
      <4>1. CASE x = e
        <5>1. dataQueue'[x] = Tail(dataQueue[e])
          BY <1>10, <4>1 DEF TakeData, TypeOK
        <5> QED BY <2>1, <4>1, <5>1, RightOfTail
      <4>2. CASE x # e
        BY <1>10, <4>2 DEF TakeData, TypeOK
      <4> QED BY <4>1, <4>2
    <3>2. PICK j \in DOMAIN dataQueue[x] : dataQueue'[x][i] = dataQueue[x][j]
      BY <3>1
    <3>3. dataQueue[x][j] \in Frames /\ CopyRight(dataQueue[x][j], way) /\ dataQueue[x][j].type = "data"
      BY <1>i, <3>0 DEF DataRight
    <3> QED BY <1>g, <3>2, <3>3 DEF Lasting
  <2> QED BY <1>10, <1>k, <2>2, <2>3 DEF TakeData, knowledge, TravelInv
<1>11. ASSUME NEW e \in Edges, EndDelay(e) PROVE TravelInv'
  <2>1. sender[e].frame \in Frames /\ FrameRight(sender[e].frame, way)
    BY <1>11, <1>i DEF EndDelay, SendRight, TypeOK
  <2>2. SendRight'
    BY <1>11, <1>s, <2>1 DEF EndDelay, IdleSender
  <2> QED BY <1>11, <1>k, <2>2 DEF EndDelay, knowledge, TravelInv
<1>12. ASSUME NEW e \in Edges, Write(e) PROVE TravelInv'
  <2> DEFINE f == sender[e].frame
  <2>1. f \in Frames /\ FrameRight(f, way)
    BY <1>12, <1>i DEF Write, SendRight, TypeOK
  <2>2. SendRight'
    BY <1>12, <1>s DEF Write, IdleSender
  <2>3. PICK kept \in 0..Len(wire[e]) :
          \/ wire' = [wire EXCEPT ![e] = SubSeq(@, 1, kept)]
          \/ wire' = [wire EXCEPT ![e] = Append(SubSeq(@, 1, kept), f)]
    <3>1. wire[e] \in Seq(Frames)
      BY DEF TypeOK
    <3>2. Len(wire[e]) \in 0..Len(wire[e])
      BY <3>1
    <3> QED BY <1>12, <3>2 DEF Write
  <2> HIDE DEF f
  <2>4. WireRight'
    <3> SUFFICES ASSUME NEW x \in Edges, NEW i \in DOMAIN wire'[x]
                 PROVE  FrameRight(wire'[x][i], way')
      BY DEF WireRight
    <3> DEFINE p == SubSeq(wire[e], 1, kept)
    <3>0. wire[x] \in Seq(Frames) /\ wire[e] \in Seq(Frames) /\ p \in Seq(Frames)
      BY DEF TypeOK
    <3>1. \/ wire'[x] = wire[x]
          \/ x = e /\ wire'[x] = p
          \/ x = e /\ wire'[x] = Append(p, f)
      BY <2>3 DEF TypeOK
    <3>2. \A j \in DOMAIN p : j \in DOMAIN wire[e] /\ p[j] = wire[e][j]
      BY <3>0, RightOfPrefix
    <3> HIDE DEF p
    <3>3. \/ i \in DOMAIN wire[x] /\ wire'[x][i] = wire[x][i]
          \/ wire'[x][i] = f
      <4>1. CASE x = e /\ wire'[x] = Append(p, f)
        <5>1. \/ i \in DOMAIN p /\ wire'[x][i] = p[i]
              \/ wire'[x][i] = f
          BY <2>1, <3>0, <4>1, RightOfAppend
        <5> QED BY <3>2, <4>1, <5>1
      <4> QED BY <3>1, <3>2, <4>1
    <3>4. CASE wire'[x][i] = f
      BY <1>g, <2>1, <3>4 DEF FrameRight, Lasting
    <3>5. CASE i \in DOMAIN wire[x] /\ wire'[x][i] = wire[x][i]
      BY <1>g, <1>i, <3>0, <3>5 DEF WireRight, FrameRight, Lasting
    <3> QED BY <3>3, <3>4, <3>5
  <2> QED BY <1>12, <1>k, <2>2, <2>4 DEF Write, knowledge, TravelInv
<1>13. ASSUME NEW n \in Nodes, Crash(n) PROVE TravelInv'
  BY <1>13, <1>k DEF Crash, edges, TravelInv
<1>14. ASSUME NEW e \in Edges, LoseInFlight(e) PROVE TravelInv'
  <2>1. WireRight'
    <3> SUFFICES ASSUME NEW x \in Edges, NEW i \in DOMAIN wire'[x]
                 PROVE  FrameRight(wire'[x][i], way')
      BY DEF WireRight
    <3>0. wire[x] \in Seq(Frames) /\ wire[e] \in Seq(Frames) /\ wire[e] # << >>
      BY <1>14 DEF LoseInFlight, TypeOK
    <3>1. Len(wire[e]) - 1 \in 0..Len(wire[e])
      BY <3>0
    <3>2. \/ wire'[x] = wire[x]
          \/ x = e /\ wire'[x] = SubSeq(wire[e], 1, Len(wire[e]) - 1)
      BY <1>14 DEF LoseInFlight, TypeOK
    <3>3. i \in DOMAIN wire[x] /\ wire'[x][i] = wire[x][i]
      <4>1. CASE wire'[x] = wire[x]
        BY <4>1
      <4>2. CASE x = e /\ wire'[x] = SubSeq(wire[e], 1, Len(wire[e]) - 1)
        BY <3>0, <3>1, <4>2, RightOfPrefix
      <4> QED BY <3>2, <4>1, <4>2
    <3>4. wire[x][i] \in Frames
      BY <3>0, <3>3
    <3> QED BY <1>g, <1>i, <3>3, <3>4 DEF WireRight, FrameRight, Lasting
  <2> QED BY <1>14, <1>k, <2>1 DEF LoseInFlight, knowledge, TravelInv
<1>15. CASE UNCHANGED vars
  BY <1>15, <1>k DEF vars, TravelInv
<1> QED
  BY <1>1, <1>2, <1>3, <1>4, <1>5, <1>6, <1>7, <1>8, <1>9, <1>10, <1>11, <1>12,
     <1>13, <1>14, <1>15
     DEF Next, Handle, Read, Send, Work

LEMMA TravelCorrect == Spec => []TravelInv
BY TypeCorrect, KnowledgeInit, KnowledgeStep, TravelInit, TravelStep, PTL DEF Spec

(* What is held is one of the first copies the invariant speaks of.        *)
LEMMA HeldIsRight ==
  ASSUME TypeOK, TravelInv, NEW item \in Held
  PROVE  item \in Items /\ \E n \in Nodes : ItemRight(n, item, way)
<1>1. CASE \E h \in Handlers : intake[h].pc = "accepted" /\ item = intake[h].item
  BY <1>1, AtType DEF TravelInv, IntakeRight, TypeOK
<1>2. CASE \E n \in Nodes : \E i \in DOMAIN processQueue[n] : item = processQueue[n][i]
  <2> PICK n \in Nodes : \E i \in DOMAIN processQueue[n] : item = processQueue[n][i]
    BY <1>2
  <2>1. processQueue[n] \in Seq(Items)
    BY DEF TypeOK
  <2> QED BY <2>1 DEF TravelInv, QueueRight
<1>3. CASE \E w \in WorkerIds : worker[w].pc = "processing" /\ item = worker[w].item
  <2> PICK w \in WorkerIds : worker[w].pc = "processing" /\ item = worker[w].item
    BY <1>3
  <2>1. w[1] \in Nodes
    BY DEF WorkerIds
  <2>2. ItemRight(w[1], item, way)
    BY DEF TravelInv, WorkRight
  <2>3. item \in Items
    BY DEF TypeOK
  <2> QED BY <2>1, <2>2, <2>3
<1>4. \/ \E h \in Handlers : intake[h].pc = "accepted" /\ item = intake[h].item
      \/ \E n \in Nodes : \E i \in DOMAIN processQueue[n] : item = processQueue[n][i]
      \/ \E w \in WorkerIds : worker[w].pc = "processing" /\ item = worker[w].item
  <2> DEFINE A == {intake[h].item : h \in {x \in Handlers : intake[x].pc = "accepted"}}
             B(n) == {processQueue[n][i] : i \in DOMAIN processQueue[n]}
             U == UNION {B(n) : n \in Nodes}
             C == {worker[w].item : w \in {x \in WorkerIds : worker[x].pc = "processing"}}
  <2>1. item \in A => \E h \in Handlers : intake[h].pc = "accepted" /\ item = intake[h].item
    OBVIOUS
  <2>2. item \in U => \E n \in Nodes : \E i \in DOMAIN processQueue[n] : item = processQueue[n][i]
    OBVIOUS
  <2>3. item \in C => \E w \in WorkerIds : worker[w].pc = "processing" /\ item = worker[w].item
    OBVIOUS
  <2>4. Held = A \cup U \cup C
    BY DEF Held
  <2> HIDE DEF A, B, C, U
  <2>5. item \in A \/ item \in U \/ item \in C
    BY <2>4
  <2> QED BY <2>1, <2>2, <2>3, <2>5
<1> QED BY <1>1, <1>2, <1>3, <1>4

(* The first copy a peer accepts has crossed fewer edges than there are    *)
(* peers: each edge it crossed reached a peer that was new to the message. *)
THEOREM HopsAreBounded == Spec => []HopBound
<1>1. TypeOK /\ TravelInv => HopBound
  <2> SUFFICES ASSUME TypeOK, TravelInv, NEW item \in Held
               PROVE  item.hop < Cardinality(Nodes)
    BY DEF HopBound
  <2>1. /\ item.msg \in Messages /\ item.hop \in Nat
        /\ item.hop + 1 <= Cardinality(Reached(item.msg, seen))
    BY HeldIsRight DEF Items, ItemRight, way
  <2>2. Cardinality(Nodes) \in Nat
    BY FloodingAssumption, FS_CardinalityType
  <2> QED BY <2>1, <2>2, ReachedType
<1> QED BY <1>1, TypeCorrect, TravelCorrect, PTL

(* HopWave's cycle hop is the level of the copy modulo I, although every   *)
(* relay only adds one or starts again.                                    *)
THEOREM WaveIsLevel == Spec => []WaveFollowsHop
<1>1. TypeOK /\ TravelInv => WaveFollowsHop
  BY HeldIsRight DEF WaveFollowsHop, ItemRight, way, InStep, IsHopWave
<1> QED BY <1>1, TypeCorrect, TravelCorrect, PTL

-----------------------------------------------------------------------------
(* Where a message is.  The parts of Places and Copies, without their tags. *)
(* Of a part only two things matter: has it one element at most (Solo), and *)
(* has it any.                                                              *)

Solo(S) == \A x, y \in S : x = y

OneOf4(A, B, C, D) ==
  /\ Solo(A) /\ Solo(B) /\ Solo(C) /\ Solo(D)
  /\ A # {} => B = {} /\ C = {} /\ D = {}
  /\ B # {} => C = {} /\ D = {}
  /\ C # {} => D = {}

OneOf5(A, B, C, D, E) ==
  OneOf4(A, B, C, D) /\ Solo(E) /\ (E # {} => A \cup B \cup C \cup D = {})

(* The positions of m in a queue of items or frames.                       *)
Spots(q, m) == {i \in DOMAIN q : q[i].msg = m}

LEMMA SoloSets ==
  /\ \A S : S = {} => Solo(S)
  /\ \A S, x : S = {x} => Solo(S) /\ S # {}
BY DEF Solo

LEMMA SoloLeft ==
  ASSUME NEW S, NEW x \in S, Solo(S)
  PROVE  S \ {x} = {}
BY DEF Solo

LEMMA SpotsOfEmpty ==
  ASSUME NEW m
  PROVE  Spots(<< >>, m) = {}
BY DEF Spots

LEMMA SpotsOfAppend ==
  ASSUME NEW T, NEW q \in Seq(T), NEW x \in T, NEW m
  PROVE  /\ x.msg = m => Spots(Append(q, x), m) = Spots(q, m) \cup {Len(q) + 1}
         /\ x.msg # m => Spots(Append(q, x), m) = Spots(q, m)
<1>1. /\ DOMAIN Append(q, x) = DOMAIN q \cup {Len(q) + 1}
      /\ \A i \in DOMAIN q : Append(q, x)[i] = q[i]
      /\ Append(q, x)[Len(q) + 1] = x
      /\ Len(q) + 1 \notin DOMAIN q
  OBVIOUS
<1> QED BY <1>1 DEF Spots

LEMMA SpotsOfTail ==
  ASSUME NEW T, NEW q \in Seq(T), q # << >>, NEW m, Solo(Spots(q, m))
  PROVE  /\ Solo(Spots(Tail(q), m))
         /\ Head(q).msg = m => Spots(q, m) # {} /\ Spots(Tail(q), m) = {}
         /\ Head(q).msg # m => (Spots(Tail(q), m) = {} <=> Spots(q, m) = {})
<1>1. /\ DOMAIN q = 1..Len(q) /\ Len(q) \in Nat \ {0} /\ 1 \in DOMAIN q
      /\ Head(q) = q[1]
      /\ DOMAIN Tail(q) = 1..(Len(q) - 1)
      /\ \A i \in DOMAIN Tail(q) : Tail(q)[i] = q[i + 1] /\ i + 1 \in DOMAIN q
  OBVIOUS
<1>2. \A i \in Spots(Tail(q), m) : i + 1 \in Spots(q, m) /\ i \in Nat \ {0}
  BY <1>1 DEF Spots
<1>3. ASSUME NEW i \in Spots(q, m), i # 1
      PROVE  i - 1 \in Spots(Tail(q), m)
  <2>1. i \in 2..Len(q) /\ q[i].msg = m
    BY <1>1, <1>3 DEF Spots
  <2>2. i - 1 \in DOMAIN Tail(q) /\ (i - 1) + 1 = i
    BY <1>1, <2>1
  <2>3. Tail(q)[i - 1] = q[i]
    BY <1>1, <2>2
  <2> QED BY <2>1, <2>2, <2>3 DEF Spots
<1>4. Solo(Spots(Tail(q), m))
  <2> SUFFICES ASSUME NEW i \in Spots(Tail(q), m), NEW j \in Spots(Tail(q), m)
               PROVE  i = j
    BY DEF Solo
  <2>1. i + 1 = j + 1 /\ i \in Nat /\ j \in Nat
    BY <1>2 DEF Solo
  <2> QED BY <2>1
<1>5. Head(q).msg = m => 1 \in Spots(q, m)
  BY <1>1 DEF Spots
<1>6. Head(q).msg = m => Spots(Tail(q), m) = {}
  <2> SUFFICES ASSUME Head(q).msg = m, NEW i \in Spots(Tail(q), m) PROVE FALSE
    OBVIOUS
  <2>1. i + 1 = 1 /\ i \in Nat \ {0}
    BY <1>2, <1>5 DEF Solo
  <2> QED BY <2>1
<1>7. Head(q).msg # m => (Spots(Tail(q), m) = {} <=> Spots(q, m) = {})
  <2> SUFFICES ASSUME Head(q).msg # m
               PROVE  Spots(Tail(q), m) = {} <=> Spots(q, m) = {}
    OBVIOUS
  <2>1. 1 \notin Spots(q, m)
    BY <1>1 DEF Spots
  <2>2. Spots(q, m) # {} => Spots(Tail(q), m) # {}
    BY <1>3, <2>1
  <2> QED BY <1>2, <2>2
<1> QED BY <1>4, <1>5, <1>6, <1>7

-----------------------------------------------------------------------------
(* A message a peer has is in one place there.                             *)

IntakesOf(tk, n, m) ==
  {h \in Handlers : At(h) = n /\ tk[h].pc = "accepted" /\ tk[h].item.msg = m}
WaitsOf(pq, n, m) == Spots(pq[n], m)
WorkersOf(wk, n, m) ==
  {w \in WorkerIds : w[1] = n /\ wk[w].pc = "processing" /\ wk[w].item.msg = m}
StartsOf(fs, n, m) == {m} \cap fs[n]
DropsOf(nd, n, m) == {m} \cap nd[n]

Somewhere(n, m) ==
  IntakesOf(intake, n, m) # {} \/ WaitsOf(processQueue, n, m) # {} \/ WorkersOf(worker, n, m) # {}
    \/ StartsOf(forwardingStarted, n, m) # {} \/ DropsOf(nodeDrops, n, m) # {}

OnePlace(n, m) ==
  /\ OneOf5(IntakesOf(intake, n, m), WaitsOf(processQueue, n, m), WorkersOf(worker, n, m),
            StartsOf(forwardingStarted, n, m), DropsOf(nodeDrops, n, m))
  /\ m \in seen[n] <=> Somewhere(n, m)

PlaceInv == \A n \in Nodes, m \in Messages : OnePlace(n, m)

LEMMA PlaceInit == Init => PlaceInv
<1> SUFFICES ASSUME Init, NEW n \in Nodes, NEW m \in Messages PROVE OnePlace(n, m)
  BY DEF PlaceInv
<1>1. IntakesOf(intake, n, m) = {}
  BY IdleType DEF Init, IntakesOf
<1>2. WorkersOf(worker, n, m) = {}
  BY IdleType DEF Init, WorkersOf
<1>3. /\ WaitsOf(processQueue, n, m) = {} /\ StartsOf(forwardingStarted, n, m) = {}
      /\ DropsOf(nodeDrops, n, m) = {} /\ m \notin seen[n]
  BY DEF Init, WaitsOf, Spots, StartsOf, DropsOf
<1> QED BY <1>1, <1>2, <1>3 DEF OnePlace, OneOf5, OneOf4, Solo, Somewhere

LEMMA PlaceStep == TypeOK /\ TravelInv /\ PlaceInv /\ [Next]_vars => PlaceInv'
<1> SUFFICES ASSUME TypeOK, TravelInv, PlaceInv, [Next]_vars,
                    NEW n \in Nodes, NEW m \in Messages
             PROVE  OnePlace(n, m)'
  BY DEF PlaceInv
<1>i. OnePlace(n, m)
  BY DEF PlaceInv
<1>t. /\ intake \in [Handlers -> [pc : {"idle", "accepted"},
                                 item : Items \cup {NoItem}, todo : SUBSET Nodes]]
      /\ worker \in [WorkerIds -> [pc : {"idle", "processing", "forwarding"},
                                  item : Items \cup {NoItem}, todo : SUBSET Nodes]]
  BY DEF TypeOK
<1>k. /\ UNCHANGED intake => IntakesOf(intake', n, m) = IntakesOf(intake, n, m)
      /\ UNCHANGED processQueue => WaitsOf(processQueue', n, m) = WaitsOf(processQueue, n, m)
      /\ UNCHANGED worker => WorkersOf(worker', n, m) = WorkersOf(worker, n, m)
      /\ UNCHANGED forwardingStarted =>
           StartsOf(forwardingStarted', n, m) = StartsOf(forwardingStarted, n, m)
      /\ UNCHANGED nodeDrops => DropsOf(nodeDrops', n, m) = DropsOf(nodeDrops, n, m)
  OBVIOUS
(* An injector or a reader goes on to r.                                   *)
<1>h. ASSUME NEW h \in Handlers, NEW r, intake' = [intake EXCEPT ![h] = r]
      PROVE  IntakesOf(intake', n, m) =
               (IntakesOf(intake, n, m) \ {h})
                 \cup (IF At(h) = n /\ r.pc = "accepted" /\ r.item.msg = m THEN {h} ELSE {})
  <2>1. intake'[h] = r /\ \A x \in Handlers : x # h => intake'[x] = intake[x]
    BY <1>t, <1>h
  <2> QED BY <2>1 DEF IntakesOf
(* A worker goes on to r.                                                  *)
<1>w. ASSUME NEW w \in WorkerIds, NEW r, worker' = [worker EXCEPT ![w] = r]
      PROVE  WorkersOf(worker', n, m) =
               (WorkersOf(worker, n, m) \ {w})
                 \cup (IF w[1] = n /\ r.pc = "processing" /\ r.item.msg = m THEN {w} ELSE {})
  <2>1. worker'[w] = r /\ \A x \in WorkerIds : x # w => worker'[x] = worker[x]
    BY <1>t, <1>w
  <2> QED BY <2>1 DEF WorkersOf
<1>s. ASSUME IntakesOf(intake', n, m) = IntakesOf(intake, n, m),
             WaitsOf(processQueue', n, m) = WaitsOf(processQueue, n, m),
             WorkersOf(worker', n, m) = WorkersOf(worker, n, m),
             StartsOf(forwardingStarted', n, m) = StartsOf(forwardingStarted, n, m),
             DropsOf(nodeDrops', n, m) = DropsOf(nodeDrops, n, m), m \in seen'[n] <=> m \in seen[n]
      PROVE  OnePlace(n, m)'
  BY <1>i, <1>s DEF OnePlace, Somewhere
(* A peer registers m, and a goroutine of it takes m in.                   *)
<1>r. ASSUME NEW h \in Handlers, NEW c, NEW y \in Messages,
             intake[h].pc = "idle", c.pc = "accepted", c.item.msg = y,
             y \notin seen[At(h)],
             intake' = [intake EXCEPT ![h] = c],
             seen' = [seen EXCEPT ![At(h)] = @ \cup {y}],
             UNCHANGED <<processQueue, worker, forwardingStarted, nodeDrops>>
      PROVE  OnePlace(n, m)'
  <2>1. h \notin IntakesOf(intake, n, m)
    BY <1>r DEF IntakesOf
  <2>2. IntakesOf(intake', n, m) =
          (IntakesOf(intake, n, m) \ {h}) \cup (IF At(h) = n /\ y = m THEN {h} ELSE {})
    BY <1>r, <1>h
  <2>3. At(h) \in Nodes
    BY <1>r, AtType
  <2>4. CASE At(h) = n /\ y = m
    <3>1. ~Somewhere(n, m) /\ m \in seen'[n]
      BY <1>i, <1>r, <2>3, <2>4 DEF OnePlace, TypeOK
    <3>2. IntakesOf(intake', n, m) = {h}
      BY <2>2, <2>4, <3>1 DEF Somewhere
    <3> QED BY <1>k, <1>r, <3>1, <3>2, SoloSets DEF OnePlace, OneOf5, OneOf4, Somewhere
  <2>5. CASE ~(At(h) = n /\ y = m)
    <3>1. IntakesOf(intake', n, m) = IntakesOf(intake, n, m)
      BY <2>1, <2>2, <2>5
    <3>2. m \in seen'[n] <=> m \in seen[n]
      BY <1>r, <2>3, <2>5 DEF TypeOK
    <3> QED BY <1>k, <1>r, <1>s, <3>1, <3>2
  <2> QED BY <2>4, <2>5
<1>1. ASSUME NEW x \in Messages, Inject(x) PROVE OnePlace(n, m)'
  <2> DEFINE k == Origin[x]
             c == Accepted(k, [msg |-> x, from |-> Source, hop |-> 0, wave |-> 0])
  <2>1. /\ k \in Nodes /\ x \in Handlers /\ At(x) = k
        /\ c.pc = "accepted" /\ c.item.msg = x
    BY FloodingAssumption DEF Handlers, At, Accepted
  <2>2. intake[x].pc = "idle"
    <3> SUFFICES ASSUME intake[x].pc # "idle" PROVE FALSE
      OBVIOUS
    <3>1. intake[x].pc = "accepted" /\ intake[x].item.msg = x
      BY <2>1 DEF TravelInv, InjectorsHold, TypeOK
    <3>2. x \in IntakesOf(intake, k, x)
      BY <2>1, <3>1 DEF IntakesOf
    <3>3. x \in seen[k]
      BY <2>1, <3>2 DEF PlaceInv, OnePlace, Somewhere
    <3> QED BY <1>1, <3>3 DEF Inject
  <2>3. /\ intake' = [intake EXCEPT ![x] = c] /\ x \notin seen[At(x)]
        /\ seen' = [seen EXCEPT ![At(x)] = @ \cup {x}]
        /\ UNCHANGED <<processQueue, worker, forwardingStarted, nodeDrops>>
    BY <1>1, <2>1 DEF Inject
  <2> HIDE DEF k, c
  <2> QED BY <1>r, <2>1, <2>2, <2>3
<1>2. ASSUME NEW e \in Edges, ReceiveData(e) PROVE OnePlace(n, m)'
  <2> DEFINE f == Head(wire[e])
             c == Accepted(e[2], Received(f, e[1]))
  <2>1. /\ wire[e] \in Seq(Frames) /\ wire[e] # << >> /\ f \in Frames
        /\ e \in Handlers /\ At(e) = e[2]
    BY <1>2, EdgeType, FloodingAssumption DEF ReceiveData, TypeOK, At, Edges
  <2>2. f.msg \in Messages /\ c.pc = "accepted" /\ c.item.msg = f.msg
    BY <2>1, FramesType DEF Accepted, Received
  <2>3. /\ intake[e].pc = "idle"
        /\ UNCHANGED <<processQueue, worker, forwardingStarted, nodeDrops>>
    BY <1>2 DEF ReceiveData
  <2>4. CASE ReceiveFirst(e, f)
    <3>1. /\ intake' = [intake EXCEPT ![e] = c] /\ f.msg \notin seen[At(e)]
          /\ seen' = [seen EXCEPT ![At(e)] = @ \cup {f.msg}]
      BY <2>1, <2>4 DEF ReceiveFirst
    <3> HIDE DEF c, f
    <3> QED BY <1>r, <2>1, <2>2, <2>3, <3>1
  <2>5. CASE ReceiveDuplicate(e, f)
    BY <1>k, <1>s, <2>3, <2>5 DEF ReceiveDuplicate
  <2> QED BY <1>2, <2>4, <2>5 DEF ReceiveData
<1>3. ASSUME NEW e \in Edges, ReceiveIDontWant(e) PROVE OnePlace(n, m)'
  BY <1>3, <1>k, <1>s DEF ReceiveIDontWant
<1>4. ASSUME NEW h \in Handlers, NEW k \in Nodes, Advise(h, k) PROVE OnePlace(n, m)'
  <2>1. \A x \in Handlers : intake'[x].item = intake[x].item /\ intake'[x].pc = intake[x].pc
    BY <1>4 DEF Advise, TypeOK
  <2>2. IntakesOf(intake', n, m) = IntakesOf(intake, n, m)
    BY <2>1 DEF IntakesOf
  <2> QED BY <1>4, <1>k, <1>s, <2>2 DEF Advise, knowledge
<1>5. ASSUME NEW h \in Handlers, EnqueueProcessing(h) PROVE OnePlace(n, m)'
  <2> DEFINE k == At(h)
             item == intake[h].item
  <2>1. /\ k \in Nodes /\ item \in Items /\ processQueue[k] \in Seq(Items)
        /\ intake[h].pc = "accepted" /\ intake' = [intake EXCEPT ![h] = Idle]
        /\ UNCHANGED <<seen, worker, forwardingStarted>>
    BY <1>5, AtType DEF EnqueueProcessing, TypeOK, knowledge
  <2>2. IntakesOf(intake', n, m) = IntakesOf(intake, n, m) \ {h}
    BY <2>1, <1>h, IdleType
  <2>3. h \in IntakesOf(intake, n, m) <=> k = n /\ item.msg = m
    BY <2>1 DEF IntakesOf
  <2> HIDE DEF k, item
  <2>4. CASE k = n /\ item.msg = m
    <3>0. IntakesOf(intake', n, m) = {}
      BY <1>i, <2>2, <2>3, <2>4, SoloLeft DEF OnePlace, OneOf5, OneOf4
    <3>1. /\ WaitsOf(processQueue, n, m) = {} /\ WorkersOf(worker, n, m) = {}
          /\ StartsOf(forwardingStarted, n, m) = {}
          /\ DropsOf(nodeDrops, n, m) = {} /\ IntakesOf(intake', n, m) = {} /\ m \in seen'[n]
      BY <1>i, <2>1, <2>3, <2>4, <3>0 DEF OnePlace, OneOf5, OneOf4, Somewhere
    <3>2. WorkersOf(worker', n, m) = {} /\ StartsOf(forwardingStarted', n, m) = {}
      BY <1>k, <2>1, <3>1
    <3>3. \/ /\ WaitsOf(processQueue', n, m) # {} /\ Solo(WaitsOf(processQueue', n, m))
             /\ DropsOf(nodeDrops', n, m) = {}
          \/ /\ WaitsOf(processQueue', n, m) = {}
             /\ DropsOf(nodeDrops', n, m) # {} /\ Solo(DropsOf(nodeDrops', n, m))
      <4>1. CASE processQueue' = [processQueue EXCEPT ![k] = Append(@, item)] /\ UNCHANGED nodeDrops
        <5>1. processQueue'[n] = Append(processQueue[n], item) /\ processQueue[n] \in Seq(Items)
          BY <2>1, <2>4, <4>1 DEF TypeOK
        <5>2. WaitsOf(processQueue', n, m) = {Len(processQueue[n]) + 1}
          <6> DEFINE q == processQueue[n]
          <6>0. q \in Seq(Items) /\ item \in Items /\ item.msg = m
            BY <2>1, <2>4, <5>1
          <6>1. Spots(Append(q, item), m) = Spots(q, m) \cup {Len(q) + 1}
            <7> HIDE DEF q
            <7> QED BY <6>0, SpotsOfAppend
          <6> QED BY <3>1, <5>1, <6>1 DEF WaitsOf
        <5>3. DropsOf(nodeDrops', n, m) = {}
          BY <1>k, <3>1, <4>1
        <5> QED BY <5>2, <5>3, SoloSets
      <4>2. CASE nodeDrops' = [nodeDrops EXCEPT ![k] = @ \cup {item.msg}] /\ UNCHANGED processQueue
        <5>1. m \in nodeDrops'[n]
          BY <2>4, <4>2 DEF TypeOK
        <5>2. DropsOf(nodeDrops', n, m) = {m}
          BY <5>1 DEF DropsOf
        <5>3. WaitsOf(processQueue', n, m) = {}
          BY <1>k, <3>1, <4>2
        <5> QED BY <5>2, <5>3, SoloSets
      <4> QED BY <1>5, <4>1, <4>2 DEF EnqueueProcessing, k, item
    <3> QED BY <3>1, <3>2, <3>3, SoloSets DEF OnePlace, OneOf5, OneOf4, Somewhere
  <2>5. CASE ~(k = n /\ item.msg = m)
    <3>1. IntakesOf(intake', n, m) = IntakesOf(intake, n, m)
      BY <2>2, <2>3, <2>5
    <3>2. WaitsOf(processQueue', n, m) = WaitsOf(processQueue, n, m)
      <4>1. CASE processQueue'[n] = processQueue[n]
        BY <4>1 DEF WaitsOf
      <4>2. CASE k = n /\ processQueue'[n] = Append(processQueue[n], item)
        <5>1. processQueue[n] \in Seq(Items) /\ item.msg # m
          BY <2>1, <2>5, <4>2
        <5>2. Spots(Append(processQueue[n], item), m) = Spots(processQueue[n], m)
          BY <2>1, <5>1, SpotsOfAppend
        <5> QED BY <4>2, <5>2 DEF WaitsOf
      <4>3. \/ UNCHANGED processQueue
            \/ processQueue' = [processQueue EXCEPT ![k] = Append(@, item)]
        BY <1>5 DEF EnqueueProcessing, k, item
      <4> QED BY <4>1, <4>2, <4>3 DEF TypeOK
    <3>3. DropsOf(nodeDrops', n, m) = DropsOf(nodeDrops, n, m)
      <4>1. nodeDrops'[n] = nodeDrops[n] \/ (k = n /\ nodeDrops'[n] = nodeDrops[n] \cup {item.msg})
        BY <1>5 DEF EnqueueProcessing, k, item, TypeOK
      <4> QED BY <2>5, <4>1 DEF DropsOf
    <3> QED BY <1>k, <1>s, <2>1, <3>1, <3>2, <3>3
  <2> QED BY <2>4, <2>5
<1>6. ASSUME NEW w \in WorkerIds, StartProcessing(w) PROVE OnePlace(n, m)'
  <2> DEFINE k == w[1]
             q == processQueue[k]
             item == Head(q)
             c == [pc |-> "processing", item |-> item, todo |-> {}]
  <2>1. /\ k \in Nodes /\ q \in Seq(Items) /\ q # << >> /\ item \in Items
        /\ worker[w].pc = "idle" /\ worker' = [worker EXCEPT ![w] = c]
        /\ processQueue' = [processQueue EXCEPT ![k] = Tail(q)]
        /\ UNCHANGED <<intake, seen, forwardingStarted, nodeDrops>>
    BY <1>6 DEF StartProcessing, WorkerIds, TypeOK, knowledge
  <2>2. c.pc = "processing" /\ c.item = item
    OBVIOUS
  <2> HIDE DEF c, item
  <2>3. WorkersOf(worker', n, m) = WorkersOf(worker, n, m) \cup (IF k = n /\ item.msg = m THEN {w} ELSE {})
    <3>1. w \notin WorkersOf(worker, n, m)
      BY <2>1 DEF WorkersOf
    <3> QED BY <2>1, <2>2, <3>1, <1>w
  <2> HIDE DEF q
  <2>4. CASE k = n
    <3>1. processQueue[n] = q /\ processQueue'[n] = Tail(q) /\ Solo(Spots(q, m))
      BY <1>i, <2>1, <2>4 DEF q, TypeOK, WaitsOf, OnePlace, OneOf5, OneOf4
    <3>2. /\ Solo(WaitsOf(processQueue', n, m))
          /\ item.msg = m => WaitsOf(processQueue, n, m) # {} /\ WaitsOf(processQueue', n, m) = {}
          /\ item.msg # m => (WaitsOf(processQueue', n, m) = {} <=> WaitsOf(processQueue, n, m) = {})
      BY <2>1, <3>1, SpotsOfTail DEF WaitsOf, item
    <3>3. CASE item.msg = m
      <4>1. WorkersOf(worker', n, m) = {w}
        BY <1>i, <2>3, <2>4, <3>2, <3>3 DEF OnePlace, OneOf5, OneOf4
      <4>2. WorkersOf(worker', n, m) # {} /\ Solo(WorkersOf(worker', n, m))
        BY <4>1, SoloSets
      <4>3. /\ IntakesOf(intake', n, m) = IntakesOf(intake, n, m)
            /\ StartsOf(forwardingStarted', n, m) = StartsOf(forwardingStarted, n, m)
            /\ DropsOf(nodeDrops', n, m) = DropsOf(nodeDrops, n, m) /\ seen' = seen
        BY <1>k, <2>1
      <4> QED BY <1>i, <3>2, <3>3, <4>2, <4>3 DEF OnePlace, OneOf5, OneOf4, Somewhere
    <3>4. CASE item.msg # m
      <4>1. WorkersOf(worker', n, m) = WorkersOf(worker, n, m)
        BY <2>3, <3>4
      <4> QED BY <1>i, <1>k, <2>1, <3>2, <3>4, <4>1 DEF OnePlace, OneOf5, OneOf4, Somewhere
    <3> QED BY <3>3, <3>4
  <2>5. CASE k # n
    <3>1. WorkersOf(worker', n, m) = WorkersOf(worker, n, m)
      BY <2>3, <2>5
    <3>2. WaitsOf(processQueue', n, m) = WaitsOf(processQueue, n, m)
      BY <2>1, <2>5 DEF WaitsOf, TypeOK
    <3> QED BY <1>k, <1>s, <2>1, <3>1, <3>2
  <2> QED BY <2>4, <2>5
<1>7. ASSUME NEW w \in WorkerIds, BeginForwarding(w) PROVE OnePlace(n, m)'
  <2> DEFINE k == w[1]
             item == worker[w].item
             outgoing == [item EXCEPT !.hop = @ + 1, !.wave = OutgoingWave(item)]
  <2>1. /\ k \in Nodes /\ item \in Items /\ worker[w].pc = "processing"
        /\ forwardingStarted' = [forwardingStarted EXCEPT ![k] = @ \cup {item.msg}]
        /\ UNCHANGED <<intake, seen, processQueue, nodeDrops>>
    BY <1>7 DEF BeginForwarding, WorkerIds, TypeOK
  <2>2. PICK targets \in SUBSET Nodes : worker' = [worker EXCEPT ![w] = FanOut(outgoing, targets)]
    BY <1>7, ForwardingFansOut
  <2>3. outgoing \in Items
    BY <2>1, OutgoingType
  <2> HIDE DEF outgoing
  <2>4. FanOut(outgoing, targets).pc # "processing"
    BY <2>3, FanOutType
  <2>5. WorkersOf(worker', n, m) = WorkersOf(worker, n, m) \ {w}
    BY <2>2, <2>4, <1>w
  <2>6. w \in WorkersOf(worker, n, m) <=> k = n /\ item.msg = m
    BY <2>1 DEF WorkersOf
  <2> HIDE DEF k, item
  <2>7. CASE k = n /\ item.msg = m
    <3>1. m \in forwardingStarted'[n]
      BY <2>1, <2>7 DEF TypeOK
    <3>2. StartsOf(forwardingStarted', n, m) = {m}
      BY <3>1 DEF StartsOf
    <3>3. WorkersOf(worker', n, m) = {}
      BY <1>i, <2>5, <2>6, <2>7, SoloLeft DEF OnePlace, OneOf5, OneOf4
    <3>4. /\ StartsOf(forwardingStarted', n, m) # {} /\ Solo(StartsOf(forwardingStarted', n, m))
          /\ WorkersOf(worker, n, m) # {}
      BY <2>6, <2>7, <3>2, SoloSets
    <3>5. /\ IntakesOf(intake', n, m) = IntakesOf(intake, n, m)
          /\ WaitsOf(processQueue', n, m) = WaitsOf(processQueue, n, m)
          /\ DropsOf(nodeDrops', n, m) = DropsOf(nodeDrops, n, m) /\ seen' = seen
      BY <1>k, <2>1
    <3> QED BY <1>i, <3>3, <3>4, <3>5, SoloSets DEF OnePlace, OneOf5, OneOf4, Somewhere
  <2>8. CASE ~(k = n /\ item.msg = m)
    <3>1. WorkersOf(worker', n, m) = WorkersOf(worker, n, m)
      BY <2>5, <2>6, <2>8
    <3>2. StartsOf(forwardingStarted', n, m) = StartsOf(forwardingStarted, n, m)
      BY <2>1, <2>8 DEF StartsOf, TypeOK
    <3> QED BY <1>k, <1>s, <2>1, <3>1, <3>2
  <2> QED BY <2>7, <2>8
<1>8. ASSUME NEW w \in WorkerIds, NEW k \in Nodes, EnqueueData(w, k) PROVE OnePlace(n, m)'
  <2> DEFINE item == worker[w].item
             left == worker[w].todo \ {k}
  <2>1. /\ worker[w].pc = "forwarding" /\ item \in Items /\ left \in SUBSET Nodes
        /\ worker' = [worker EXCEPT ![w] = FanOut(item, left)]
        /\ UNCHANGED <<intake, seen, forwardingStarted, processQueue, nodeDrops>>
    BY <1>8 DEF EnqueueData, TypeOK, knowledge
  <2>2. w \notin WorkersOf(worker, n, m)
    BY <2>1 DEF WorkersOf
  <2> HIDE DEF item, left
  <2>3. FanOut(item, left).pc # "processing"
    BY <2>1, FanOutType
  <2>4. WorkersOf(worker', n, m) = WorkersOf(worker, n, m) \ {w}
    BY <2>1, <2>3, <1>w
  <2>5. WorkersOf(worker', n, m) = WorkersOf(worker, n, m)
    BY <2>2, <2>4
  <2> QED BY <1>k, <1>s, <2>1, <2>5
<1>9. ASSUME NEW e \in Edges, TakeControl(e) \/ TakeData(e) \/ EndDelay(e) \/ Write(e)
      PROVE  OnePlace(n, m)'
  BY <1>9, <1>k, <1>s DEF TakeControl, TakeData, EndDelay, Write, knowledge
<1>10. ASSUME NEW x \in Nodes, Crash(x) PROVE OnePlace(n, m)'
  BY <1>10, <1>k, <1>s DEF Crash, knowledge
<1>11. ASSUME NEW e \in Edges, LoseInFlight(e) PROVE OnePlace(n, m)'
  BY <1>11, <1>k, <1>s DEF LoseInFlight, knowledge
<1>12. CASE UNCHANGED vars
  BY <1>12, <1>k, <1>s DEF vars
<1> QED
  BY <1>1, <1>2, <1>3, <1>4, <1>5, <1>6, <1>7, <1>8, <1>9, <1>10, <1>11, <1>12
     DEF Next, Handle, Read, Send, Work

LEMMA PlaceCorrect == Spec => []PlaceInv
BY TypeCorrect, TravelCorrect, PlaceInit, PlaceStep, PTL DEF Spec

(* A message a peer has registered is in one place there at any time: it   *)
(* is processed at most once and never lost without a record, whichever    *)
(* readers, injectors and workers race for it.                             *)
THEOREM ProcessedOnce == Spec => []ProcessedAtMostOnce
<1>1. PlaceInv => ProcessedAtMostOnce
  <2> SUFFICES ASSUME PlaceInv, NEW n \in Nodes, NEW m \in Messages
               PROVE  /\ m \in seen[n] <=> Places(n, m) # {}
                      /\ \A p, q \in Places(n, m) : p = q
    BY DEF ProcessedAtMostOnce
  <2> DEFINE A == {<<"intake", h>> : h \in IntakesOf(intake, n, m)}
             B == {<<"queue", i>> : i \in WaitsOf(processQueue, n, m)}
             C == {<<"worker", w>> : w \in WorkersOf(worker, n, m)}
             D == {<<"started", x>> : x \in StartsOf(forwardingStarted, n, m)}
             E == {<<"dropped", x>> : x \in DropsOf(nodeDrops, n, m)}
  <2>1. Places(n, m) = A \cup B \cup C \cup D \cup E
    BY DEF Places, IntakesOf, WaitsOf, Spots, WorkersOf, StartsOf, DropsOf
  <2>3. OnePlace(n, m)
    BY DEF PlaceInv
  <2>4. OneOf5(A, B, C, D, E) /\ (m \in seen[n] <=> A \cup B \cup C \cup D \cup E # {})
    <3>1. /\ Solo(A) /\ Solo(B) /\ Solo(C) /\ Solo(D) /\ Solo(E)
          /\ A = {} <=> IntakesOf(intake, n, m) = {}
          /\ B = {} <=> WaitsOf(processQueue, n, m) = {}
          /\ C = {} <=> WorkersOf(worker, n, m) = {}
          /\ D = {} <=> StartsOf(forwardingStarted, n, m) = {}
          /\ E = {} <=> DropsOf(nodeDrops, n, m) = {}
      <4>1. /\ Solo(IntakesOf(intake, n, m)) /\ Solo(WaitsOf(processQueue, n, m))
            /\ Solo(WorkersOf(worker, n, m))
            /\ Solo(StartsOf(forwardingStarted, n, m)) /\ Solo(DropsOf(nodeDrops, n, m))
        BY <2>3 DEF OnePlace, OneOf5, OneOf4
      <4>2. Solo(A) /\ (A = {} <=> IntakesOf(intake, n, m) = {})
        BY <4>1 DEF Solo
      <4>3. Solo(B) /\ (B = {} <=> WaitsOf(processQueue, n, m) = {})
        BY <4>1 DEF Solo
      <4>4. Solo(C) /\ (C = {} <=> WorkersOf(worker, n, m) = {})
        BY <4>1 DEF Solo
      <4>5. Solo(D) /\ (D = {} <=> StartsOf(forwardingStarted, n, m) = {})
        BY <4>1 DEF Solo
      <4>6. Solo(E) /\ (E = {} <=> DropsOf(nodeDrops, n, m) = {})
        BY <4>1 DEF Solo
      <4> QED BY <4>2, <4>3, <4>4, <4>5, <4>6
    <3> HIDE DEF A, B, C, D, E
    <3> QED BY <2>3, <3>1 DEF OnePlace, OneOf5, OneOf4, Somewhere
  <2> HIDE DEF A, B, C, D, E
  <2> QED BY <2>1, <2>4 DEF OneOf5, OneOf4, Solo
<1> QED BY <1>1, PlaceCorrect, PTL

-----------------------------------------------------------------------------
(* A payload that goes out on an edge is in one place there, and which      *)
(* edges it goes out on is what the peer planned when it started to forward. *)

PlannersOf(wk, e, m) ==
  {w \in WorkerIds : /\ w[1] = e[1] /\ wk[w].pc = "forwarding"
                     /\ wk[w].item.msg = m /\ e[2] \in wk[w].todo}
QueuedOf(dq, e, m) == Spots(dq[e], m)
SendsOf(sd, e, m) ==
  {f \in {sd[e].frame} : sd[e].pc # "idle" /\ f.type = "data" /\ f.msg = m}
FatesOf(oc, e, m) == DOMAIN oc[e][m]

(* m goes out, or went out, on e.                                          *)
GoesOut(e, m) ==
  PlannersOf(worker, e, m) # {} \/ QueuedOf(dataQueue, e, m) # {}
    \/ SendsOf(sender, e, m) # {} \/ FatesOf(outcome, e, m) # {}

Planned(e, m) == m \in forwardingStarted[e[1]] /\ supplier[e[1]][m] # e[2]

OneFate(e, m) ==
  /\ OneOf4(PlannersOf(worker, e, m), QueuedOf(dataQueue, e, m),
            SendsOf(sender, e, m), FatesOf(outcome, e, m))
  /\ GoesOut(e, m) => Planned(e, m)
  /\ Planned(e, m) /\ ~IsHopWave => GoesOut(e, m)

FateInv == \A e \in Edges, m \in Messages : OneFate(e, m)

LEMMA FateInit == Init => FateInv
<1> SUFFICES ASSUME Init, NEW e \in Edges, NEW m \in Messages PROVE OneFate(e, m)
  BY DEF FateInv
<1>1. PlannersOf(worker, e, m) = {}
  BY IdleType DEF Init, PlannersOf
<1>2. QueuedOf(dataQueue, e, m) = {} /\ SendsOf(sender, e, m) = {}
  BY DEF Init, QueuedOf, Spots, SendsOf, IdleSender
<1>3. FatesOf(outcome, e, m) = {} /\ m \notin forwardingStarted[e[1]]
  BY EdgeType DEF Init, FatesOf
<1> QED BY <1>1, <1>2, <1>3 DEF OneFate, OneOf4, Solo, GoesOut, Planned

LEMMA AppendDomain ==
  ASSUME NEW T, NEW s \in Seq(T), NEW x
  PROVE  /\ DOMAIN Append(s, x) = DOMAIN s \cup {Len(s) + 1}
         /\ DOMAIN s = {} => DOMAIN Append(s, x) = {1}
<1>1. DOMAIN s = 1..Len(s) /\ Len(s) \in Nat /\ DOMAIN Append(s, x) = 1..(Len(s) + 1)
  OBVIOUS
<1>2. DOMAIN s = {} => Len(s) = 0
  <2> SUFFICES ASSUME Len(s) # 0 PROVE 1 \in DOMAIN s
    OBVIOUS
  <2> QED BY <1>1
<1> QED BY <1>1, <1>2

LEMMA FateStep ==
  TypeOK /\ TypeOK' /\ TravelInv /\ PlaceInv /\ FateInv /\ [Next]_vars => FateInv'
<1> SUFFICES ASSUME TypeOK, TypeOK', TravelInv, PlaceInv, FateInv, [Next]_vars,
                    NEW x \in Edges, NEW m \in Messages
             PROVE  OneFate(x, m)'
  BY DEF FateInv
<1> DEFINE P == PlannersOf(worker, x, m)   P1 == PlannersOf(worker', x, m)
           Q == QueuedOf(dataQueue, x, m)  Q1 == QueuedOf(dataQueue', x, m)
           S == SendsOf(sender, x, m)      S1 == SendsOf(sender', x, m)
           F == FatesOf(outcome, x, m)     F1 == FatesOf(outcome', x, m)
<1>i. /\ OneOf4(P, Q, S, F)
      /\ P # {} \/ Q # {} \/ S # {} \/ F # {} => Planned(x, m)
      /\ Planned(x, m) /\ ~IsHopWave => P # {} \/ Q # {} \/ S # {} \/ F # {}
  BY DEF FateInv, OneFate, GoesOut
<1>e. x[1] \in Nodes /\ x[2] \in Nodes /\ x = <<x[1], x[2]>>
  BY EdgeType
<1>t. /\ worker \in [WorkerIds -> [pc : {"idle", "processing", "forwarding"},
                                  item : Items \cup {NoItem}, todo : SUBSET Nodes]]
      /\ sender \in [Edges -> [pc : {"idle", "delaying", "writing"},
                               frame : Frames \cup {NoFrame}]]
      /\ dataQueue \in [Edges -> Seq(Frames)]
      /\ outcome \in [Edges -> [Messages -> Seq(Outcomes)]]
  BY DEF TypeOK
<1>a. m \in forwardingStarted[x[1]] =>
        m \in seen[x[1]] /\ supplier'[x[1]][m] = supplier[x[1]][m]
  <2> SUFFICES ASSUME m \in forwardingStarted[x[1]]
               PROVE  m \in seen[x[1]] /\ supplier'[x[1]][m] = supplier[x[1]][m]
    OBVIOUS
  <2>1. StartsOf(forwardingStarted, x[1], m) # {}
    BY DEF StartsOf
  <2>2. m \in seen[x[1]]
    BY <1>e, <2>1 DEF PlaceInv, OnePlace, Somewhere
  <2> QED BY <1>e, <2>2, SupplierStays
<1>b. IsHopWave' <=> IsHopWave
  BY SupplierStays DEF IsHopWave
<1>k. /\ UNCHANGED worker => P1 = P
      /\ UNCHANGED dataQueue => Q1 = Q
      /\ UNCHANGED sender => S1 = S
      /\ UNCHANGED outcome => F1 = F
  OBVIOUS
(* m stays where it is, or goes on to another place.                       *)
<1>v. ASSUME OneOf4(P1, Q1, S1, F1),
             P1 # {} \/ Q1 # {} \/ S1 # {} \/ F1 # {}
               <=> P # {} \/ Q # {} \/ S # {} \/ F # {},
             m \in forwardingStarted'[x[1]] <=> m \in forwardingStarted[x[1]]
      PROVE  OneFate(x, m)'
  <2>1. Planned(x, m)' <=> Planned(x, m)
    BY <1>a, <1>v DEF Planned
  <2>2. GoesOut(x, m)' <=> P1 # {} \/ Q1 # {} \/ S1 # {} \/ F1 # {}
    BY DEF GoesOut
  <2>3. OneOf4(PlannersOf(worker, x, m), QueuedOf(dataQueue, x, m),
               SendsOf(sender, x, m), FatesOf(outcome, x, m))'
    BY <1>v
  <2> HIDE DEF P, Q, S, F, P1, Q1, S1, F1
  <2> QED BY <1>b, <1>i, <1>v, <2>1, <2>2, <2>3 DEF OneFate
<1>s. ASSUME P1 = P, Q1 = Q, S1 = S, F1 = F,
             m \in forwardingStarted'[x[1]] <=> m \in forwardingStarted[x[1]]
      PROVE  OneFate(x, m)'
  <2> HIDE DEF P, Q, S, F, P1, Q1, S1, F1
  <2> QED BY <1>i, <1>s, <1>v
(* A worker goes on to r.                                                  *)
<1>w. ASSUME NEW w \in WorkerIds, NEW r, worker' = [worker EXCEPT ![w] = r]
      PROVE  P1 = (P \ {w}) \cup (IF /\ w[1] = x[1] /\ r.pc = "forwarding"
                                     /\ r.item.msg = m /\ x[2] \in r.todo THEN {w} ELSE {})
  <2>1. worker'[w] = r /\ \A y \in WorkerIds : y # w => worker'[y] = worker[y]
    BY <1>t, <1>w
  <2> QED BY <2>1 DEF PlannersOf
(* A sender goes on to s.                                                  *)
<1>n. ASSUME NEW e \in Edges, NEW s, sender' = [sender EXCEPT ![e] = s]
      PROVE  /\ x # e => S1 = S
             /\ x = e => S1 = IF s.pc # "idle" /\ s.frame.type = "data" /\ s.frame.msg = m
                                THEN {s.frame} ELSE {}
  <2>1. sender'[e] = s /\ \A y \in Edges : y # e => sender'[y] = sender[y]
    BY <1>t, <1>n
  <2> QED BY <2>1 DEF SendsOf
(* A fate is recorded.                                                     *)
<1>o. ASSUME NEW e \in Edges, NEW y \in Messages, NEW what,
             outcome' = Recorded(e, y, what)
      PROVE  /\ ~(x = e /\ m = y) => F1 = F
             /\ x = e /\ m = y /\ F = {} => F1 = {1}
  <2>1. CASE x = e /\ m = y
    <3>1. outcome'[x][m] = Append(outcome[x][m], what) /\ outcome[x][m] \in Seq(Outcomes)
      BY <1>t, <1>o, <2>1 DEF Recorded
    <3> QED BY <2>1, <3>1, AppendDomain DEF FatesOf
  <2>2. CASE ~(x = e /\ m = y)
    <3>1. outcome'[x][m] = outcome[x][m]
      BY <1>t, <1>o, <2>2 DEF Recorded
    <3> QED BY <2>2, <3>1 DEF FatesOf
  <2> QED BY <2>1, <2>2
(* What a sender held has its fate, and the sender is idle.                *)
<1>d. ASSUME NEW e \in Edges, NEW what,
             sender[e].pc # "idle", sender' = [sender EXCEPT ![e] = IdleSender],
             outcome' = IF sender[e].frame.type = "data"
                          THEN Recorded(e, sender[e].frame.msg, what) ELSE outcome,
             UNCHANGED <<worker, dataQueue, forwardingStarted>>
      PROVE  OneFate(x, m)'
  <2> DEFINE f == sender[e].frame
  <2>1. f \in Frames /\ f.msg \in Messages
    BY <1>d, FramesType DEF TypeOK
  <2>2. P1 = P /\ Q1 = Q
    BY <1>d, <1>k
  <2>3. (x # e => S1 = S) /\ (x = e => S1 = {})
    <3>1. IdleSender.pc = "idle"
      BY DEF IdleSender
    <3> QED BY <1>d, <1>n, <3>1
  <2>4. x = e => (S # {} <=> f.type = "data" /\ f.msg = m)
    BY <1>d DEF SendsOf
  <2>5. f.type # "data" => F1 = F
    BY <1>d, <1>k
  <2>6. f.type = "data" => /\ ~(x = e /\ m = f.msg) => F1 = F
                           /\ x = e /\ m = f.msg /\ F = {} => F1 = {1}
    BY <1>d, <1>o, <2>1
  <2>7. UNCHANGED forwardingStarted
    BY <1>d
  <2> HIDE DEF P, Q, S, F, P1, Q1, S1, F1, f
  <2>8. CASE x = e /\ f.type = "data" /\ m = f.msg
    <3>1. S # {} /\ P = {} /\ Q = {} /\ F = {}
      BY <1>i, <2>4, <2>8 DEF OneOf4
    <3>2. F1 = {1} /\ S1 = {} /\ P1 = {} /\ Q1 = {}
      BY <2>2, <2>3, <2>6, <2>8, <3>1
    <3> QED BY <1>v, <2>7, <3>1, <3>2, SoloSets DEF OneOf4
  <2>9. CASE ~(x = e /\ f.type = "data" /\ m = f.msg)
    <3>1. S1 = S /\ F1 = F
      BY <2>3, <2>4, <2>5, <2>6, <2>9
    <3> QED BY <1>s, <2>2, <2>7, <3>1
  <2> QED BY <2>8, <2>9
<1>1. ASSUME NEW y \in Messages, Inject(y) PROVE OneFate(x, m)'
  BY <1>1, <1>k, <1>s DEF Inject, edges
<1>2. ASSUME NEW e \in Edges, ReceiveData(e) \/ ReceiveIDontWant(e) PROVE OneFate(x, m)'
  BY <1>2, <1>k, <1>s DEF ReceiveData, ReceiveIDontWant
<1>3. ASSUME NEW h \in Handlers, EnqueueProcessing(h) \/ \E k \in Nodes : Advise(h, k)
      PROVE  OneFate(x, m)'
  BY <1>3, <1>k, <1>s DEF EnqueueProcessing, Advise, knowledge, edges
<1>4. ASSUME NEW w \in WorkerIds, StartProcessing(w) PROVE OneFate(x, m)'
  <2> DEFINE c == [pc |-> "processing", item |-> Head(processQueue[w[1]]), todo |-> {}]
  <2>1. /\ worker[w].pc = "idle" /\ worker' = [worker EXCEPT ![w] = c]
        /\ UNCHANGED <<dataQueue, sender, outcome, forwardingStarted>>
    BY <1>4 DEF StartProcessing, knowledge, edges
  <2>2. c.pc = "processing"
    OBVIOUS
  <2> HIDE DEF c
  <2>3. w \notin P
    BY <2>1 DEF PlannersOf
  <2>4. P1 = P \ {w}
    BY <1>w, <2>1, <2>2
  <2>5. P1 = P
    BY <2>3, <2>4
  <2> QED BY <1>k, <1>s, <2>1, <2>5
<1>5. ASSUME NEW w \in WorkerIds, BeginForwarding(w) PROVE OneFate(x, m)'
  <2> DEFINE n == w[1]
             item == worker[w].item
             others == Neighbors[n] \ {item.from}
             skipped == others \cap Suppressed(n, item.msg)
             outgoing == [item EXCEPT !.hop = @ + 1, !.wave = OutgoingWave(item)]
  <2>1. /\ n \in Nodes /\ item \in Items /\ worker[w].pc = "processing"
        /\ forwardingStarted' = [forwardingStarted EXCEPT ![n] = @ \cup {item.msg}]
        /\ UNCHANGED <<dataQueue, sender, supplier>>
    BY <1>5 DEF BeginForwarding, WorkerIds, TypeOK, edges
  <2>2. ItemRight(n, item, way)
    BY <2>1 DEF TravelInv, WorkRight
  <2>3. item.from = supplier[n][item.msg] /\ item.msg \in Messages
    BY <2>1, <2>2 DEF ItemRight, way, Items
  <2>4. item.msg \notin forwardingStarted[n]
    <3>1. w \in WorkersOf(worker, n, item.msg)
      BY <2>1 DEF WorkersOf
    <3>2. StartsOf(forwardingStarted, n, item.msg) = {}
      BY <2>1, <2>3, <3>1 DEF PlaceInv, OnePlace, OneOf5, OneOf4
    <3> QED BY <3>2 DEF StartsOf
  <2>5. PICK targets \in TargetSets(item, others \ skipped) :
          worker' = [worker EXCEPT ![w] = FanOut(outgoing, targets)]
    BY <1>5 DEF BeginForwarding
  <2>6. /\ targets \subseteq others \ skipped
        /\ ~IsHopWave => targets = others \ skipped
    BY <2>5, TargetsType DEF TargetSets
  <2>7. outgoing.msg = item.msg
    BY <2>1 DEF Items
  <2>8. F1 = IF x[1] = n /\ x[2] \in skipped /\ m = item.msg
               THEN DOMAIN Append(outcome[x][m], "suppressed") ELSE F
    <3>1. outcome' = [e \in Edges |->
            IF e[1] = n /\ e[2] \in skipped
              THEN [outcome[e] EXCEPT ![item.msg] = Append(@, "suppressed")]
              ELSE outcome[e]]
      BY <1>5 DEF BeginForwarding
    <3> HIDE DEF n, skipped, item
    <3>2. outcome'[x] = IF x[1] = n /\ x[2] \in skipped
              THEN [outcome[x] EXCEPT ![item.msg] = Append(@, "suppressed")]
              ELSE outcome[x]
      BY <3>1
    <3>3. outcome'[x][m] = IF x[1] = n /\ x[2] \in skipped /\ m = item.msg
              THEN Append(outcome[x][m], "suppressed") ELSE outcome[x][m]
      BY <1>t, <3>2
    <3> QED BY <3>3 DEF FatesOf
  <2>9. /\ FanOut(outgoing, targets).pc = "forwarding" <=> targets # {}
        /\ targets # {} => /\ FanOut(outgoing, targets).item = outgoing
                           /\ FanOut(outgoing, targets).todo = targets
    BY DEF FanOut, Idle
  <2> HIDE DEF outgoing
  <2>10. P1 = (P \ {w}) \cup (IF n = x[1] /\ item.msg = m /\ x[2] \in targets THEN {w} ELSE {})
    <3>1. P1 = (P \ {w}) \cup (IF /\ w[1] = x[1] /\ FanOut(outgoing, targets).pc = "forwarding"
                                  /\ FanOut(outgoing, targets).item.msg = m
                                  /\ x[2] \in FanOut(outgoing, targets).todo
                                 THEN {w} ELSE {})
      BY <1>w, <2>5
    <3> HIDE DEF P, P1
    <3> QED BY <2>7, <2>9, <3>1
  <2>11. w \notin P
    BY <2>1 DEF PlannersOf
  <2>12. Q1 = Q /\ S1 = S
    BY <1>k, <2>1
  <2>13. outcome[x][m] \in Seq(Outcomes)
    BY <1>t
  <2>14. F = {} => DOMAIN Append(outcome[x][m], "suppressed") = {1}
    BY <2>13, AppendDomain DEF FatesOf
  <2>15. (GoesOut(x, m))' <=> P1 # {} \/ Q1 # {} \/ S1 # {} \/ F1 # {}
    BY DEF GoesOut
  <2>16. OneFate(x, m)' <=> /\ OneOf4(P1, Q1, S1, F1)
                            /\ (GoesOut(x, m))' => (Planned(x, m))'
                            /\ (Planned(x, m))' /\ ~IsHopWave' => (GoesOut(x, m))'
    BY DEF OneFate
  <2> HIDE DEF P, Q, S, F, P1, Q1, S1, F1, n, item, skipped
  <2>17. CASE x[1] = n /\ m = item.msg
    <3>1. ~Planned(x, m)
      BY <2>4, <2>17 DEF Planned
    <3>2. P = {} /\ Q = {} /\ S = {} /\ F = {}
      BY <1>i, <3>1
    <3>3. Planned(x, m)' <=> x[2] # item.from
      BY <2>1, <2>3, <2>17 DEF Planned, TypeOK
    <3>4. x[2] \in Neighbors[n] /\ others = Neighbors[n] \ {item.from} /\ skipped \subseteq others
      BY <2>17, EdgeType DEF skipped
    <3> HIDE DEF others
    <3>5. P1 = IF x[2] \in targets THEN {w} ELSE {}
      BY <2>10, <2>17, <3>2
    <3>6. F1 = IF x[2] \in skipped THEN {1} ELSE {}
      BY <2>8, <2>14, <2>17, <3>2
    <3>7. Q1 = {} /\ S1 = {}
      BY <2>12, <3>2
    <3>8. OneOf4(P1, Q1, S1, F1)
      <4>1. Solo(P1) /\ Solo(F1) /\ Solo(Q1) /\ Solo(S1)
        BY <3>5, <3>6, <3>7, SoloSets
      <4> QED BY <2>6, <3>5, <3>6, <3>7, <4>1 DEF OneOf4
    <3>9. GoesOut(x, m)' <=> x[2] \in targets \cup skipped
      BY <2>15, <3>5, <3>6, <3>7
    <3> QED BY <1>b, <2>6, <2>16, <3>3, <3>4, <3>8, <3>9
  <2>18. CASE ~(x[1] = n /\ m = item.msg)
    <3>1. P1 = P
      BY <2>10, <2>11, <2>18
    <3>2. F1 = F
      BY <2>8, <2>18
    <3>3. m \in forwardingStarted'[x[1]] <=> m \in forwardingStarted[x[1]]
      BY <1>e, <2>1, <2>18 DEF TypeOK
    <3> QED BY <1>s, <2>12, <3>1, <3>2, <3>3
  <2> QED BY <2>17, <2>18
<1>6. ASSUME NEW w \in WorkerIds, NEW k \in Nodes, EnqueueData(w, k) PROVE OneFate(x, m)'
  <2> DEFINE e == <<w[1], k>>
             item == worker[w].item
             left == worker[w].todo \ {k}
             f == DataFrame(item)
  <2>1. /\ w[1] \in Nodes /\ item \in Items /\ worker[w].pc = "forwarding"
        /\ k \in worker[w].todo /\ k \in Neighbors[w[1]] /\ e \in Edges
        /\ worker' = [worker EXCEPT ![w] = FanOut(item, left)]
        /\ UNCHANGED <<sender, forwardingStarted>>
    BY <1>6, EdgeMade DEF EnqueueData, WorkerIds, TypeOK, knowledge
  <2>2. f \in Frames /\ f.msg = item.msg /\ item.msg \in Messages
    BY <2>1, FramesType DEF DataFrame
  <2>3. w \in P <=> w[1] = x[1] /\ item.msg = m /\ x[2] \in worker[w].todo
    BY <2>1 DEF PlannersOf
  <2>4. /\ FanOut(item, left).pc = "forwarding" <=> left # {}
        /\ left # {} => FanOut(item, left).item = item /\ FanOut(item, left).todo = left
    BY DEF FanOut, Idle
  <2>5. P1 = (P \ {w}) \cup (IF w[1] = x[1] /\ item.msg = m /\ x[2] \in left THEN {w} ELSE {})
    <3> HIDE DEF item, left
    <3>1. P1 = (P \ {w}) \cup (IF /\ w[1] = x[1] /\ FanOut(item, left).pc = "forwarding"
                                  /\ FanOut(item, left).item.msg = m
                                  /\ x[2] \in FanOut(item, left).todo
                                 THEN {w} ELSE {})
      BY <1>w, <2>1
    <3> HIDE DEF P, P1
    <3> QED BY <2>4, <3>1
  <2>6. \/ /\ dataQueue' = [dataQueue EXCEPT ![e] = Append(@, f)]
           /\ UNCHANGED outcome
        \/ /\ UNCHANGED dataQueue
           /\ \E what : outcome' = Recorded(e, item.msg, what)
    BY <1>6 DEF EnqueueData
  <2>7. S1 = S
    BY <1>k, <2>1
  <2>8. x = e <=> x[1] = w[1] /\ x[2] = k
    BY <1>e
  <2>9. UNCHANGED forwardingStarted
    BY <2>1
  <2> HIDE DEF item, e, f
  <2>10. CASE x = e /\ item.msg = m
    <3>1. w \in P
      BY <2>1, <2>3, <2>8, <2>10
    <3>2. P # {} /\ Q = {} /\ S = {} /\ F = {} /\ P \ {w} = {}
      <4> HIDE DEF P, Q, S, F
      <4> QED BY <1>i, <3>1, SoloLeft DEF OneOf4
    <3>3. P1 = {}
      BY <2>5, <2>8, <2>10, <3>2
    <3>4. CASE dataQueue' = [dataQueue EXCEPT ![e] = Append(@, f)] /\ UNCHANGED outcome
      <4>1. dataQueue'[x] = Append(dataQueue[x], f) /\ dataQueue[x] \in Seq(Frames)
        BY <1>t, <2>10, <3>4
      <4> DEFINE q == dataQueue[x]
      <4>2. Spots(Append(q, f), m) = Spots(q, m) \cup {Len(q) + 1}
        <5>1. q \in Seq(Frames) /\ f \in Frames /\ f.msg = m
          BY <2>2, <2>10, <4>1
        <5> HIDE DEF q
        <5> QED BY <5>1, SpotsOfAppend
      <4>3. Q1 = {Len(dataQueue[x]) + 1}
        BY <3>2, <4>1, <4>2 DEF QueuedOf
      <4>4. F1 = {}
        BY <1>k, <3>2, <3>4
      <4>5. Solo(Q1) /\ Q1 # {}
        BY <4>3, SoloSets
      <4> HIDE DEF P, Q, S, F, P1, Q1, S1, F1
      <4> QED BY <1>v, <2>7, <2>9, <3>2, <3>3, <4>4, <4>5, SoloSets DEF OneOf4
    <3>5. CASE UNCHANGED dataQueue /\ \E what : outcome' = Recorded(e, item.msg, what)
      <4>1. F1 = {1}
        BY <1>o, <2>1, <2>2, <2>10, <3>2, <3>5
      <4>2. Q1 = {}
        BY <1>k, <3>2, <3>5
      <4>3. Solo(F1) /\ F1 # {}
        BY <4>1, SoloSets
      <4> HIDE DEF P, Q, S, F, P1, Q1, S1, F1
      <4> QED BY <1>v, <2>7, <2>9, <3>2, <3>3, <4>2, <4>3, SoloSets DEF OneOf4
    <3> QED BY <2>6, <3>4, <3>5
  <2>11. CASE ~(x = e /\ item.msg = m)
    <3>1. P1 = P
      <4>1. w \in P <=> w[1] = x[1] /\ item.msg = m /\ x[2] \in left
        BY <2>3, <2>8, <2>11
      <4> HIDE DEF P, P1, left
      <4> QED BY <2>5, <4>1
    <3>2. Q1 = Q
      <4>1. \/ dataQueue'[x] = dataQueue[x]
            \/ /\ x = e /\ f.msg # m /\ dataQueue[x] \in Seq(Frames)
               /\ dataQueue'[x] = Append(dataQueue[x], f)
        BY <1>t, <2>2, <2>6, <2>11
      <4>2. CASE dataQueue'[x] = dataQueue[x]
        BY <4>2 DEF QueuedOf
      <4>3. CASE dataQueue'[x] # dataQueue[x]
        <5> DEFINE q == dataQueue[x]
        <5>1. q \in Seq(Frames) /\ f \in Frames /\ f.msg # m /\ dataQueue'[x] = Append(q, f)
          BY <2>2, <4>1, <4>3
        <5>2. Spots(Append(q, f), m) = Spots(q, m)
          <6> HIDE DEF q
          <6> QED BY <5>1, SpotsOfAppend
        <5> QED BY <5>1, <5>2 DEF QueuedOf
      <4> QED BY <4>2, <4>3
    <3>3. F1 = F
      <4>1. CASE UNCHANGED outcome
        BY <1>k, <4>1
      <4>2. CASE \E what : outcome' = Recorded(e, item.msg, what)
        BY <1>o, <2>1, <2>2, <2>11, <4>2
      <4> QED BY <2>6, <4>1, <4>2
    <3> QED BY <1>s, <2>7, <2>9, <3>1, <3>2, <3>3
  <2> QED BY <2>10, <2>11
<1>7. ASSUME NEW e \in Edges, TakeControl(e) PROVE OneFate(x, m)'
  <2> DEFINE f == Head(controlQueue[e])
             s == [pc |-> "delaying", frame |-> f]
  <2>1. /\ f.type = "idontwant" /\ sender[e].pc = "idle"
        /\ UNCHANGED <<worker, dataQueue, outcome, forwardingStarted>>
    <3>1. controlQueue[e] # << >> /\ controlQueue[e] \in Seq(Frames)
      BY <1>7 DEF TakeControl, TypeOK
    <3>2. 1 \in DOMAIN controlQueue[e] /\ f = controlQueue[e][1]
      BY <3>1
    <3>3. f.type = "idontwant"
      BY <3>2 DEF TravelInv, ControlOnly
    <3> QED BY <1>7, <3>3 DEF TakeControl, knowledge
  <2>2. x = e => S = {}
    BY <2>1 DEF SendsOf
  <2>3. s.frame = f
    OBVIOUS
  <2>4. UNCHANGED sender \/ sender' = [sender EXCEPT ![e] = s]
    BY <1>7 DEF TakeControl
  <2> HIDE DEF f, s
  <2>5. S1 = S
    <3>1. CASE UNCHANGED sender
      BY <1>k, <3>1
    <3>2. CASE sender' = [sender EXCEPT ![e] = s]
      BY <1>n, <2>1, <2>2, <2>3, <3>2
    <3> QED BY <2>4, <3>1, <3>2
  <2> QED BY <1>k, <1>s, <2>1, <2>5
<1>8. ASSUME NEW e \in Edges, TakeData(e) PROVE OneFate(x, m)'
  <2> DEFINE q == dataQueue[e]
             f == Head(q)
             s == [pc |-> "delaying", frame |-> f]
  <2>1. /\ q \in Seq(Frames) /\ q # << >> /\ f \in Frames /\ f.msg \in Messages
        /\ f.type = "data" /\ sender[e].pc = "idle"
        /\ dataQueue' = [dataQueue EXCEPT ![e] = Tail(@)]
        /\ UNCHANGED <<worker, forwardingStarted>>
    <3>1. q \in Seq(Frames) /\ q # << >>
      BY <1>8 DEF TakeData, TypeOK
    <3>2. 1 \in DOMAIN q /\ f = q[1] /\ f \in Frames
      BY <3>1
    <3>3. f.type = "data" /\ f.msg \in Messages
      BY <3>2, FramesType DEF TravelInv, DataRight
    <3> QED BY <1>8, <3>1, <3>2, <3>3 DEF TakeData, knowledge
  <2>2. \/ sender' = [sender EXCEPT ![e] = s] /\ UNCHANGED outcome
        \/ UNCHANGED sender /\ \E what : outcome' = Recorded(e, f.msg, what)
    BY <1>8 DEF TakeData
  <2>3. s.frame = f /\ s.pc = "delaying"
    OBVIOUS
  <2>4. P1 = P /\ UNCHANGED forwardingStarted
    BY <1>k, <2>1
  <2>5. x = e => S = {}
    BY <2>1 DEF SendsOf
  <2>6. x = e => dataQueue'[x] = Tail(q) /\ dataQueue[x] = q
    BY <1>t, <2>1
  <2>7. x # e => Q1 = Q
    BY <1>t, <2>1 DEF QueuedOf
  <2>8. x = e => /\ Solo(Q1)
                 /\ f.msg = m => Q # {} /\ Q1 = {}
                 /\ f.msg # m => (Q1 = {} <=> Q = {})
    <3> SUFFICES ASSUME x = e
                 PROVE  /\ Solo(Q1)
                        /\ f.msg = m => Q # {} /\ Q1 = {}
                        /\ f.msg # m => (Q1 = {} <=> Q = {})
      OBVIOUS
    <3>1. Q = Spots(q, m) /\ Q1 = Spots(Tail(q), m)
      BY <2>6 DEF QueuedOf
    <3>2. Solo(Spots(q, m))
      BY <1>i, <3>1 DEF OneOf4
    <3>3. /\ Solo(Spots(Tail(q), m))
          /\ f.msg = m => Spots(q, m) # {} /\ Spots(Tail(q), m) = {}
          /\ f.msg # m => (Spots(Tail(q), m) = {} <=> Spots(q, m) = {})
      <4> HIDE DEF q
      <4> QED BY <2>1, <3>2, SpotsOfTail
    <3> QED BY <3>1, <3>3
  <2>9. \/ /\ F1 = F
           /\ S1 = IF x = e /\ f.msg = m THEN {f} ELSE S
        \/ /\ S1 = S
           /\ ~(x = e /\ m = f.msg) => F1 = F
           /\ x = e /\ m = f.msg /\ F = {} => F1 = {1}
    <3> HIDE DEF s, f
    <3>1. CASE sender' = [sender EXCEPT ![e] = s] /\ UNCHANGED outcome
      <4>1. F1 = F
        BY <1>k, <3>1
      <4>2. /\ x # e => S1 = S
            /\ x = e => S1 = IF s.pc # "idle" /\ s.frame.type = "data" /\ s.frame.msg = m
                               THEN {s.frame} ELSE {}
        BY <1>n, <3>1
      <4> HIDE DEF S, S1, F, F1
      <4> QED BY <2>1, <2>3, <2>5, <4>1, <4>2
    <3>2. CASE UNCHANGED sender /\ \E what : outcome' = Recorded(e, f.msg, what)
      BY <1>k, <1>o, <2>1, <3>2
    <3> QED BY <2>2, <3>1, <3>2
  <2> HIDE DEF P, Q, S, F, P1, Q1, S1, F1, f, q
  <2>10. CASE x = e /\ f.msg = m
    <3>1. Q # {} /\ Q1 = {} /\ P = {} /\ S = {} /\ F = {} /\ P1 = {}
      BY <1>i, <2>4, <2>8, <2>10 DEF OneOf4
    <3>2. (S1 = {f} /\ F1 = {}) \/ (S1 = {} /\ F1 = {1})
      BY <2>9, <2>10, <3>1
    <3>3. Solo(S1) /\ Solo(F1) /\ Solo(P1) /\ Solo(Q1) /\ (S1 # {} \/ F1 # {})
      BY <3>1, <3>2, SoloSets
    <3>4. OneOf4(P1, Q1, S1, F1)
      BY <3>1, <3>2, <3>3 DEF OneOf4
    <3> QED BY <1>v, <2>4, <3>1, <3>3, <3>4
  <2>11. CASE ~(x = e /\ f.msg = m)
    <3>1. P1 = P /\ S1 = S /\ F1 = F
      BY <2>4, <2>9, <2>11
    <3>2. Solo(Q1) /\ (Q1 = {} <=> Q = {})
      BY <1>i, <2>7, <2>8, <2>11 DEF OneOf4
    <3>3. OneOf4(P1, Q1, S1, F1)
      BY <1>i, <3>1, <3>2 DEF OneOf4
    <3> QED BY <1>v, <2>4, <3>1, <3>2, <3>3
  <2> QED BY <2>10, <2>11
<1>9. ASSUME NEW e \in Edges, EndDelay(e) PROVE OneFate(x, m)'
  <2> DEFINE f == sender[e].frame
             drop == f.type = "data" /\ ShouldSuppressQueued(e, f.msg)
             s == [pc |-> "writing", frame |-> f]
  <2>1. /\ sender[e].pc = "delaying"
        /\ sender' = [sender EXCEPT ![e] = IF drop THEN IdleSender ELSE s]
        /\ outcome' = IF drop THEN Recorded(e, f.msg, "suppressed") ELSE outcome
        /\ UNCHANGED <<worker, dataQueue, forwardingStarted>>
    BY <1>9 DEF EndDelay, knowledge
  <2>2. CASE drop
    <3>1. /\ sender' = [sender EXCEPT ![e] = IdleSender]
          /\ outcome' = IF f.type = "data" THEN Recorded(e, f.msg, "suppressed") ELSE outcome
      BY <2>1, <2>2
    <3> QED BY <1>d, <2>1, <3>1
  <2>3. CASE ~drop
    <3>1. sender' = [sender EXCEPT ![e] = s] /\ UNCHANGED outcome
      BY <2>1, <2>3
    <3>2. s.pc # "idle" /\ s.frame = f
      OBVIOUS
    <3>3. x = e => S = IF f.type = "data" /\ f.msg = m THEN {f} ELSE {}
      BY <2>1 DEF SendsOf
    <3>4. /\ x # e => S1 = S
          /\ x = e => S1 = IF s.pc # "idle" /\ s.frame.type = "data" /\ s.frame.msg = m
                             THEN {s.frame} ELSE {}
      BY <1>n, <3>1
    <3>5. S1 = S
      <4> HIDE DEF S, S1, s
      <4> QED BY <3>2, <3>3, <3>4
    <3> QED BY <1>k, <1>s, <2>1, <3>1, <3>5
  <2> QED BY <2>2, <2>3
<1>10. ASSUME NEW e \in Edges, Write(e) PROVE OneFate(x, m)'
  <2> DEFINE f == sender[e].frame
  <2>1. /\ sender[e].pc # "idle" /\ sender' = [sender EXCEPT ![e] = IdleSender]
        /\ \E what : outcome' = IF f.type = "data" THEN Recorded(e, f.msg, what) ELSE outcome
        /\ UNCHANGED <<worker, dataQueue, forwardingStarted>>
    BY <1>10 DEF Write, knowledge
  <2> QED BY <1>d, <2>1
<1>11. ASSUME NEW n \in Nodes, Crash(n) PROVE OneFate(x, m)'
  BY <1>11, <1>k, <1>s DEF Crash, knowledge, edges
<1>12. ASSUME NEW e \in Edges, LoseInFlight(e) PROVE OneFate(x, m)'
  BY <1>12, <1>k, <1>s DEF LoseInFlight, knowledge
<1>13. CASE UNCHANGED vars
  BY <1>13, <1>k, <1>s DEF vars
<1> QED
  BY <1>1, <1>2, <1>3, <1>4, <1>5, <1>6, <1>7, <1>8, <1>9, <1>10, <1>11, <1>12, <1>13
     DEF Next, Handle, Read, Send, Work

LEMMA FateCorrect == Spec => []FateInv
BY TypeCorrect, TravelCorrect, PlaceCorrect, FateInit, FateStep, PTL DEF Spec

(* A payload has one fate at most on an edge, and is in one place until it *)
(* has it: queues, loop, sender and records never hold it twice.           *)
THEOREM OneFateOnly == Spec => []AtMostOneFate
<1>1. FateInv => AtMostOneFate
  <2> SUFFICES ASSUME FateInv, NEW e \in Edges, NEW m \in Messages
               PROVE  \A p, q \in Copies(e, m) : p = q
    BY DEF AtMostOneFate
  <2> DEFINE A == {<<"planned", w>> : w \in PlannersOf(worker, e, m)}
             B == {<<"queued", i>> : i \in QueuedOf(dataQueue, e, m)}
             C == {<<"sending", f>> : f \in SendsOf(sender, e, m)}
             D == {<<"recorded", i>> : i \in FatesOf(outcome, e, m)}
  <2>1. Copies(e, m) = A \cup B \cup C \cup D
    BY DEF Copies, PlannersOf, QueuedOf, Spots, SendsOf, FatesOf
  <2>2. OneOf4(PlannersOf(worker, e, m), QueuedOf(dataQueue, e, m),
               SendsOf(sender, e, m), FatesOf(outcome, e, m))
    BY DEF FateInv, OneFate
  <2>3. /\ Solo(PlannersOf(worker, e, m)) /\ Solo(QueuedOf(dataQueue, e, m))
        /\ Solo(SendsOf(sender, e, m)) /\ Solo(FatesOf(outcome, e, m))
    BY <2>2 DEF OneOf4
  <2>4. Solo(A) /\ (A = {} <=> PlannersOf(worker, e, m) = {})
    BY <2>3 DEF Solo
  <2>5. Solo(B) /\ (B = {} <=> QueuedOf(dataQueue, e, m) = {})
    BY <2>3 DEF Solo
  <2>6. Solo(C) /\ (C = {} <=> SendsOf(sender, e, m) = {})
    BY <2>3 DEF Solo
  <2>7. Solo(D) /\ (D = {} <=> FatesOf(outcome, e, m) = {})
    BY <2>3 DEF Solo
  <2> HIDE DEF A, B, C, D
  <2>8. OneOf4(A, B, C, D)
    BY <2>2, <2>4, <2>5, <2>6, <2>7 DEF OneOf4
  <2> QED BY <2>1, <2>8 DEF OneOf4, Solo
<1> QED BY <1>1, FateCorrect, PTL

(* Nothing of a message goes out to the peer that supplied it: no plan, no *)
(* queue, no sender and no record of that edge ever names it.              *)
THEOREM SupplierIsSpared == Spec => []NeverBackToSupplier
<1>1. FateInv => NeverBackToSupplier
  <2> SUFFICES ASSUME FateInv, NEW e \in Edges, NEW m \in Messages,
                      supplier[e[1]][m] = e[2]
               PROVE  Copies(e, m) = {}
    BY DEF NeverBackToSupplier
  <2>1. ~GoesOut(e, m)
    BY DEF FateInv, OneFate, Planned
  <2>2. /\ PlannersOf(worker, e, m) = {} /\ QueuedOf(dataQueue, e, m) = {}
        /\ SendsOf(sender, e, m) = {} /\ FatesOf(outcome, e, m) = {}
    BY <2>1 DEF GoesOut
  <2> QED BY <2>2 DEF Copies, PlannersOf, QueuedOf, Spots, SendsOf, FatesOf
<1> QED BY <1>1, FateCorrect, PTL

-----------------------------------------------------------------------------
(* At rest.                                                                *)

LEMMA RestIsEmpty ==
  ASSUME TypeOK, AtRest, NEW n \in alive, NEW m \in Messages
  PROVE  /\ IntakesOf(intake, n, m) = {} /\ WaitsOf(processQueue, n, m) = {}
         /\ WorkersOf(worker, n, m) = {}
         /\ \A e \in Edges : e[1] = n =>
              /\ PlannersOf(worker, e, m) = {} /\ QueuedOf(dataQueue, e, m) = {}
              /\ SendsOf(sender, e, m) = {}
<1>1. IntakesOf(intake, n, m) = {}
  BY DEF AtRest, IntakesOf
<1>2. WaitsOf(processQueue, n, m) = {}
  BY DEF AtRest, WaitsOf, Spots
<1>3. WorkersOf(worker, n, m) = {}
  BY DEF AtRest, WorkersOf
<1>4. ASSUME NEW e \in Edges, e[1] = n
      PROVE  /\ PlannersOf(worker, e, m) = {} /\ QueuedOf(dataQueue, e, m) = {}
             /\ SendsOf(sender, e, m) = {}
  <2>1. PlannersOf(worker, e, m) = {}
    BY <1>4 DEF AtRest, PlannersOf
  <2>2. QueuedOf(dataQueue, e, m) = {} /\ SendsOf(sender, e, m) = {}
    BY <1>4 DEF AtRest, QueuedOf, Spots, SendsOf
  <2> QED BY <2>1, <2>2
<1> QED BY <1>1, <1>2, <1>3, <1>4

(* What a living peer at rest has, it dropped or forwarded; and what went  *)
(* out on an edge has its fate.                                            *)
LEMMA RestIsSettled ==
  ASSUME TypeOK, PlaceInv, FateInv, AtRest, NEW e \in Edges, e[1] \in alive,
         NEW m \in seen[e[1]], m \notin nodeDrops[e[1]]
  PROVE  /\ m \in Messages /\ m \in forwardingStarted[e[1]]
         /\ GoesOut(e, m) <=> outcome[e][m] # << >>
         /\ outcome[e][m] # << >> => Len(outcome[e][m]) = 1
         /\ outcome[e][m] \in Seq(Outcomes)
<1>1. m \in Messages /\ e[1] \in Nodes
  BY EdgeType DEF TypeOK
<1>2. /\ IntakesOf(intake, e[1], m) = {} /\ WaitsOf(processQueue, e[1], m) = {}
      /\ WorkersOf(worker, e[1], m) = {}
      /\ PlannersOf(worker, e, m) = {} /\ QueuedOf(dataQueue, e, m) = {}
      /\ SendsOf(sender, e, m) = {}
  BY <1>1, RestIsEmpty
<1>3. m \in forwardingStarted[e[1]]
  <2>1. OnePlace(e[1], m)
    BY <1>1 DEF PlaceInv
  <2>2. DropsOf(nodeDrops, e[1], m) = {}
    BY DEF DropsOf
  <2>3. StartsOf(forwardingStarted, e[1], m) # {}
    BY <1>2, <2>1, <2>2 DEF OnePlace, Somewhere
  <2> QED BY <2>3 DEF StartsOf
<1> DEFINE o == outcome[e][m]
<1>4. o \in Seq(Outcomes)
  BY <1>1 DEF TypeOK
<1>5. FatesOf(outcome, e, m) = DOMAIN o /\ Solo(DOMAIN o)
  BY <1>1 DEF FatesOf, FateInv, OneFate, OneOf4
<1>6. GoesOut(e, m) <=> DOMAIN o # {}
  BY <1>2, <1>5 DEF GoesOut
<1> HIDE DEF o
<1>7. o # << >> <=> DOMAIN o # {}
  BY <1>4
<1>8. o # << >> => Len(o) = 1
  <2> SUFFICES ASSUME o # << >>, Len(o) # 1 PROVE FALSE
    OBVIOUS
  <2>0. DOMAIN o = 1..Len(o) /\ Len(o) \in Nat /\ Len(o) # 0
    BY <1>4
  <2>1. 1 \in DOMAIN o /\ 2 \in DOMAIN o
    BY <2>0
  <2> QED BY <1>5, <2>1 DEF Solo
<1> QED BY <1>1, <1>3, <1>4, <1>6, <1>7, <1>8 DEF o

(* Flooding's plan is carried out to the letter: at rest, each neighbor    *)
(* but the supplier has one recorded fate of each message not dropped.     *)
THEOREM PlanIsCarriedOut == Spec => []PlanCarriedOut
<1>1. TypeOK /\ PlaceInv /\ FateInv => PlanCarriedOut
  <2> SUFFICES ASSUME TypeOK, PlaceInv, FateInv, AtRest, NEW n \in alive,
                      NEW m \in Messages, m \in seen[n] \ nodeDrops[n], ~IsHopWave,
                      NEW k \in Neighbors[n] \ {supplier[n][m]}
               PROVE  Len(outcome[<<n, k>>][m]) = 1
    BY DEF PlanCarriedOut
  <2> DEFINE e == <<n, k>>
  <2>1. e \in Edges /\ e[1] = n /\ e[2] = k
    BY EdgeMade DEF TypeOK
  <2> HIDE DEF e
  <2>2. /\ m \in forwardingStarted[n]
        /\ GoesOut(e, m) <=> outcome[e][m] # << >>
        /\ outcome[e][m] # << >> => Len(outcome[e][m]) = 1
    BY <2>1, RestIsSettled
  <2>3. GoesOut(e, m)
    BY <2>1, <2>2 DEF FateInv, OneFate, Planned
  <2> QED BY <2>2, <2>3 DEF e
<1> QED BY <1>1, TypeCorrect, PlaceCorrect, FateCorrect, PTL

-----------------------------------------------------------------------------
(* Nothing is lost without a record while no stream breaks and no peer     *)
(* dies: what was sent is on the wire or was read, and who supplied a      *)
(* message has it.                                                         *)

HasSent(o) == \E i \in DOMAIN o : o[i] = "sent"
Carries(q, m) == \E i \in DOMAIN q : q[i].type = "data" /\ q[i].msg = m

SupplierHas ==
  \A n \in Nodes : \A m \in seen[n] : supplier[n][m] \in Nodes => m \in seen[supplier[n][m]]

Arrives(e, m) == HasSent(outcome[e][m]) => m \in seen[e[2]] \/ Carries(wire[e], m)

SentArrives ==
  ~StreamFaults /\ alive = Nodes => \A e \in Edges, m \in Messages : Arrives(e, m)

LEMMA SentOfAppend ==
  ASSUME NEW o \in Seq(Outcomes), NEW what, what # "sent", HasSent(Append(o, what))
  PROVE  HasSent(o)
BY DEF HasSent

LEMMA CarriedOn ==
  ASSUME NEW q \in Seq(Frames), NEW f \in Frames, NEW m
  PROVE  /\ Carries(q, m) => Carries(Append(q, f), m)
         /\ f.type = "data" /\ f.msg = m => Carries(Append(q, f), m)
<1>1. /\ \A i \in DOMAIN q : i \in DOMAIN Append(q, f) /\ Append(q, f)[i] = q[i]
      /\ Len(q) + 1 \in DOMAIN Append(q, f) /\ Append(q, f)[Len(q) + 1] = f
  OBVIOUS
<1> QED BY <1>1 DEF Carries

LEMMA CarriedBehind ==
  ASSUME NEW q \in Seq(Frames), q # << >>, NEW m, Carries(q, m)
  PROVE  Carries(Tail(q), m) \/ (Head(q).type = "data" /\ Head(q).msg = m)
<1>1. PICK i \in DOMAIN q : q[i].type = "data" /\ q[i].msg = m
  BY DEF Carries
<1>2. CASE i = 1
  BY <1>1, <1>2
<1>3. CASE i # 1
  <2>1. i - 1 \in DOMAIN Tail(q) /\ Tail(q)[i - 1] = q[i]
    BY <1>3
  <2> QED BY <1>1, <2>1 DEF Carries
<1> QED BY <1>2, <1>3

LEMMA SupplierInit == Init => SupplierHas /\ SentArrives
<1> SUFFICES ASSUME Init PROVE SupplierHas /\ SentArrives
  OBVIOUS
<1>1. SupplierHas
  BY DEF Init, SupplierHas
<1>2. ASSUME NEW e \in Edges, NEW m \in Messages PROVE Arrives(e, m)
  <2>1. outcome[e][m] = << >>
    BY DEF Init
  <2> QED BY <2>1 DEF Arrives, HasSent
<1> QED BY <1>1, <1>2 DEF SentArrives

LEMMA SupplierStep ==
  TypeOK /\ KnowledgeInv /\ SupplierHas /\ [Next]_vars => SupplierHas'
<1> SUFFICES ASSUME TypeOK, KnowledgeInv, SupplierHas, [Next]_vars,
                    NEW n \in Nodes, NEW m \in seen'[n], supplier'[n][m] \in Nodes
             PROVE  m \in seen'[supplier'[n][m]]
  BY DEF SupplierHas
<1>g. SeenGrows
  BY SeenIsMonotonic
<1>1. CASE m \in seen[n]
  <2> DEFINE s == supplier[n][m]
  <2>1. supplier'[n][m] = s
    BY <1>1, SupplierStays
  <2>2. s \in Nodes
    BY <2>1
  <2>3. m \in seen[s]
    BY <1>1, <2>2 DEF SupplierHas
  <2> HIDE DEF s
  <2>4. m \in seen'[s]
    BY <1>g, <2>2, <2>3 DEF SeenGrows
  <2> QED BY <2>1, <2>4
<1>2. CASE m \notin seen[n]
  <2>1. ASSUME NEW y \in Messages, Inject(y) PROVE FALSE
    <3>1. n = Origin[y] /\ m = y
      BY <1>2, <2>1 DEF Inject, TypeOK
    <3>2. supplier'[n][m] = Source
      BY <2>1, <3>1 DEF Inject, TypeOK
    <3> QED BY <3>2, FloodingAssumption
  <2>2. ASSUME NEW e \in Edges, ReceiveData(e) PROVE m \in seen'[supplier'[n][m]]
    <3> DEFINE f == Head(wire[e])
    <3>1. /\ wire[e] \in Seq(Frames) /\ wire[e] # << >> /\ f.msg \in Messages
          /\ e[1] \in Nodes /\ e[2] \in Nodes
      BY <2>2, FramesType, EdgeType DEF ReceiveData, TypeOK
    <3>2. f.msg \in seen[e[1]]
      BY <3>1, AboutFrames DEF KnowledgeInv, WireKnown
    <3> HIDE DEF f
    <3>3. ReceiveFirst(e, f)
      BY <1>2, <2>2 DEF ReceiveData, ReceiveDuplicate, f
    <3>4. n = e[2] /\ m = f.msg
      BY <1>2, <3>1, <3>3 DEF ReceiveFirst, TypeOK
    <3>5. supplier'[n][m] = e[1]
      BY <3>1, <3>3, <3>4 DEF ReceiveFirst, TypeOK
    <3> QED BY <1>g, <3>1, <3>2, <3>4, <3>5 DEF SeenGrows
  <2>3. CASE UNCHANGED seen
    BY <1>2, <2>3
  <2> QED
    BY <2>1, <2>2, <2>3
       DEF Next, Handle, Read, Send, Work, ReceiveIDontWant, Advise, EnqueueProcessing,
           StartProcessing, BeginForwarding, EnqueueData, TakeControl, TakeData,
           EndDelay, Write, Crash, LoseInFlight, knowledge, vars
<1> QED BY <1>1, <1>2

LEMMA ArrivalStep ==
  TypeOK /\ TypeOK' /\ SentArrives /\ [Next]_vars => SentArrives'
<1> SUFFICES ASSUME TypeOK, TypeOK', SentArrives, [Next]_vars,
                    ~StreamFaults, alive' = Nodes,
                    NEW x \in Edges, NEW m \in Messages
             PROVE  Arrives(x, m)'
  BY DEF SentArrives
<1>g. SeenGrows
  BY SeenIsMonotonic
<1>e. x[1] \in Nodes /\ x[2] \in Nodes /\ x = <<x[1], x[2]>>
  BY EdgeType
<1>a. alive = Nodes
  <2>1. ASSUME NEW e \in Edges, Read(e) \/ Send(e) PROVE alive' = alive
    BY <2>1 DEF Read, Send, ReceiveData, ReceiveIDontWant, TakeControl, TakeData, EndDelay, Write
  <2>2. ASSUME NEW h \in Handlers, Handle(h) PROVE alive' = alive
    BY <2>2 DEF Handle, Advise, EnqueueProcessing
  <2>3. ASSUME NEW w \in WorkerIds, Work(w) PROVE alive' = alive
    BY <2>3 DEF Work, StartProcessing, BeginForwarding, EnqueueData
  <2>4. ASSUME NEW k \in Nodes, Crash(k) PROVE alive' \subseteq alive
    BY <2>4 DEF Crash
  <2>5. ASSUME NEW y, Inject(y) PROVE alive' = alive
    BY <2>5 DEF Inject
  <2>6. ASSUME NEW e, LoseInFlight(e) PROVE alive' = alive
    BY <2>6 DEF LoseInFlight
  <2>7. alive' \subseteq alive
    BY <2>1, <2>2, <2>3, <2>4, <2>5, <2>6 DEF Next, vars
  <2>8. alive \subseteq Nodes
    BY DEF TypeOK
  <2> QED BY <2>7, <2>8
<1>i. HasSent(outcome[x][m]) => m \in seen[x[2]] \/ Carries(wire[x], m)
  BY <1>a DEF SentArrives, Arrives
<1>t. /\ outcome \in [Edges -> [Messages -> Seq(Outcomes)]]
      /\ wire \in [Edges -> Seq(Frames)]
      /\ seen[x[2]] \subseteq seen'[x[2]]
  BY <1>e, <1>g DEF TypeOK, SeenGrows
<1>s. ASSUME HasSent(outcome'[x][m]) => HasSent(outcome[x][m]),
             Carries(wire[x], m) => Carries(wire'[x], m) \/ m \in seen'[x[2]]
      PROVE  Arrives(x, m)'
  BY <1>i, <1>s, <1>t DEF Arrives
<1>o. ASSUME NEW e \in Edges, NEW y \in Messages, NEW what, what # "sent",
             outcome' = Recorded(e, y, what), UNCHANGED wire
      PROVE  Arrives(x, m)'
  <2>1. \/ outcome'[x][m] = outcome[x][m]
        \/ outcome'[x][m] = Append(outcome[x][m], what)
    BY <1>t, <1>o DEF Recorded
  <2>2. HasSent(outcome'[x][m]) => HasSent(outcome[x][m])
    BY <1>t, <1>o, <2>1, SentOfAppend
  <2> QED BY <1>o, <1>s, <2>2
<1>u. ASSUME UNCHANGED <<outcome, wire>> PROVE Arrives(x, m)'
  BY <1>s, <1>u
<1>1. ASSUME NEW y \in Messages, Inject(y) PROVE Arrives(x, m)'
  BY <1>1, <1>u DEF Inject, edges
<1>2. ASSUME NEW e \in Edges, ReceiveData(e) PROVE Arrives(x, m)'
  <2> DEFINE f == Head(wire[e])
  <2>1. /\ wire[e] \in Seq(Frames) /\ wire[e] # << >> /\ e[2] \in Nodes
        /\ wire' = [wire EXCEPT ![e] = Tail(@)] /\ UNCHANGED outcome
    BY <1>2, EdgeType DEF ReceiveData, TypeOK
  <2>2. f.msg \in seen'[e[2]]
    <3> HIDE DEF f
    <3>1. CASE ReceiveFirst(e, f)
      BY <2>1, <3>1 DEF ReceiveFirst, TypeOK
    <3>2. CASE ReceiveDuplicate(e, f)
      BY <1>g, <2>1, <3>2 DEF ReceiveDuplicate, SeenGrows
    <3> QED BY <1>2, <3>1, <3>2 DEF ReceiveData, f
  <2>3. Carries(wire[x], m) => Carries(wire'[x], m) \/ m \in seen'[x[2]]
    <3>1. CASE x = e
      <4>1. wire'[x] = Tail(wire[e])
        BY <1>t, <2>1, <3>1
      <4> QED BY <2>1, <2>2, <3>1, <4>1, CarriedBehind
    <3>2. CASE x # e
      BY <1>t, <2>1, <3>2
    <3> QED BY <3>1, <3>2
  <2> QED BY <1>s, <2>1, <2>3
<1>3. ASSUME NEW e \in Edges, ReceiveIDontWant(e) PROVE Arrives(x, m)'
  <2>1. /\ wire[e] \in Seq(Frames) /\ wire[e] # << >> /\ Head(wire[e]).type # "data"
        /\ wire' = [wire EXCEPT ![e] = Tail(@)] /\ UNCHANGED outcome
    BY <1>3 DEF ReceiveIDontWant, TypeOK
  <2>3. Carries(wire[x], m) => Carries(wire'[x], m)
    <3>1. CASE x = e
      <4>1. wire'[x] = Tail(wire[e])
        BY <1>t, <2>1, <3>1
      <4> QED BY <2>1, <3>1, <4>1, CarriedBehind
    <3>2. CASE x # e
      BY <1>t, <2>1, <3>2
    <3> QED BY <3>1, <3>2
  <2> QED BY <1>s, <2>1, <2>3
<1>4. ASSUME NEW h \in Handlers, EnqueueProcessing(h) \/ \E k \in Nodes : Advise(h, k)
      PROVE  Arrives(x, m)'
  BY <1>4, <1>u DEF EnqueueProcessing, Advise, edges
<1>5. ASSUME NEW w \in WorkerIds, StartProcessing(w) PROVE Arrives(x, m)'
  BY <1>5, <1>u DEF StartProcessing, edges
<1>6. ASSUME NEW w \in WorkerIds, BeginForwarding(w) PROVE Arrives(x, m)'
  <2> DEFINE n == w[1]
             y == worker[w].item.msg
             skipped == (Neighbors[n] \ {worker[w].item.from}) \cap Suppressed(n, y)
  <2>1. /\ outcome' = [e \in Edges |->
             IF e[1] = n /\ e[2] \in skipped
               THEN [outcome[e] EXCEPT ![y] = Append(@, "suppressed")] ELSE outcome[e]]
        /\ UNCHANGED wire
    BY <1>6 DEF BeginForwarding, edges
  <2> HIDE DEF n, y, skipped
  <2>2. \/ outcome'[x] = outcome[x]
        \/ outcome'[x] = [outcome[x] EXCEPT ![y] = Append(@, "suppressed")]
    BY <2>1
  <2>3. \/ outcome'[x][m] = outcome[x][m]
        \/ outcome'[x][m] = Append(outcome[x][m], "suppressed")
    BY <1>t, <2>2
  <2>4. HasSent(outcome'[x][m]) => HasSent(outcome[x][m])
    BY <1>t, <2>3, SentOfAppend
  <2> QED BY <1>s, <2>1, <2>4
<1>7. ASSUME NEW w \in WorkerIds, NEW k \in Nodes, EnqueueData(w, k) PROVE Arrives(x, m)'
  <2> DEFINE e == <<w[1], k>>
             y == worker[w].item.msg
  <2>1. e \in Edges /\ y \in Messages /\ UNCHANGED wire
    BY <1>7, EdgeMade, FramesType DEF EnqueueData, WorkerIds, TypeOK
  <2>2. \/ UNCHANGED outcome
        \/ outcome' = Recorded(e, y, "suppressed")
        \/ outcome' = Recorded(e, y, "edge_queue_full")
    BY <1>7 DEF EnqueueData
  <2> HIDE DEF e, y
  <2> QED BY <1>o, <1>u, <2>1, <2>2
<1>8. ASSUME NEW e \in Edges, TakeControl(e) PROVE Arrives(x, m)'
  BY <1>8, <1>u DEF TakeControl
<1>9. ASSUME NEW e \in Edges, TakeData(e) PROVE Arrives(x, m)'
  <2> DEFINE y == Head(dataQueue[e]).msg
  <2>1. y \in Messages /\ UNCHANGED wire
    BY <1>9, FramesType DEF TakeData, TypeOK
  <2>2. \/ UNCHANGED outcome
        \/ outcome' = Recorded(e, y, "suppressed")
        \/ outcome' = Recorded(e, y, "emulated_loss")
    BY <1>9 DEF TakeData
  <2> HIDE DEF y
  <2> QED BY <1>o, <1>u, <2>1, <2>2
<1>10. ASSUME NEW e \in Edges, EndDelay(e) PROVE Arrives(x, m)'
  <2> DEFINE y == sender[e].frame.msg
  <2>1. y \in Messages /\ UNCHANGED wire
    BY <1>10, FramesType DEF EndDelay, TypeOK
  <2>2. UNCHANGED outcome \/ outcome' = Recorded(e, y, "suppressed")
    BY <1>10 DEF EndDelay
  <2> HIDE DEF y
  <2> QED BY <1>o, <1>u, <2>1, <2>2
<1>11. ASSUME NEW e \in Edges, Write(e) PROVE Arrives(x, m)'
  <2> DEFINE f == sender[e].frame
  <2>1. f \in Frames /\ f.msg \in Messages /\ e[2] \in alive
    BY <1>11, <1>a, FramesType, EdgeType DEF Write, TypeOK
  <2>2. /\ wire' = [wire EXCEPT ![e] = Append(SubSeq(@, 1, Len(wire[e])), f)]
        /\ outcome' = IF f.type = "data" THEN Recorded(e, f.msg, "sent") ELSE outcome
    BY <1>11, <2>1 DEF Write
  <2> HIDE DEF f
  <2>3. CASE x = e
    <3>0. wire[e] \in Seq(Frames)
      BY <1>t
    <3>1. SubSeq(wire[e], 1, Len(wire[e])) = wire[e]
      BY <3>0
    <3>2. wire'[x] = Append(wire[x], f)
      BY <1>t, <2>2, <2>3, <3>1
    <3>3. Carries(wire[x], m) => Carries(wire'[x], m)
      BY <1>t, <2>1, <3>2, CarriedOn
    <3>4. CASE f.type = "data" /\ f.msg = m
      <4>1. Carries(wire'[x], m)
        BY <1>t, <2>1, <3>2, <3>4, CarriedOn
      <4> QED BY <4>1 DEF Arrives
    <3>5. CASE ~(f.type = "data" /\ f.msg = m)
      <4>1. outcome'[x][m] = outcome[x][m]
        BY <1>t, <2>1, <2>2, <3>5 DEF Recorded
      <4> QED BY <1>s, <3>3, <4>1
    <3> QED BY <3>4, <3>5
  <2>4. CASE x # e
    <3>1. wire'[x] = wire[x] /\ outcome'[x][m] = outcome[x][m]
      BY <1>t, <2>2, <2>4 DEF Recorded
    <3> QED BY <1>s, <3>1
  <2> QED BY <2>3, <2>4
<1>12. ASSUME NEW n \in Nodes, Crash(n) PROVE Arrives(x, m)'
  BY <1>12, <1>u DEF Crash, edges
<1>13. ASSUME NEW e \in Edges, LoseInFlight(e) PROVE Arrives(x, m)'
  BY <1>13, <1>a, EdgeType DEF LoseInFlight
<1>14. CASE UNCHANGED vars
  BY <1>14, <1>u DEF vars
<1> QED
  BY <1>1, <1>2, <1>3, <1>4, <1>5, <1>6, <1>7, <1>8, <1>9, <1>10, <1>11, <1>12,
     <1>13, <1>14
     DEF Next, Handle, Read, Send, Work

LEMMA OwedCorrect == Spec => [](SupplierHas /\ SentArrives)
BY TypeCorrect, KnowledgeInit, KnowledgeStep, SupplierInit, SupplierStep, ArrivalStep,
   PTL DEF Spec

(* As long as no stream breaks, a gap in propagation is never silent: at   *)
(* rest, a peer that has the message beside one that has not recorded the  *)
(* drop that explains it.  A broken stream takes with it frames already    *)
(* recorded as sent, which is why the theorem is about whole streams.      *)
THEOREM NoSilentGap ==
  ASSUME ~StreamFaults
  PROVE  Spec => []GapsAreExplained
<1>1. TypeOK /\ KnowledgeInv /\ PlaceInv /\ FateInv /\ SupplierHas /\ SentArrives
        => GapsAreExplained
  <2> SUFFICES ASSUME TypeOK, KnowledgeInv, PlaceInv, FateInv, SupplierHas, SentArrives,
                      AtRest, alive = Nodes, NEW e \in Edges, NEW m \in Messages,
                      m \in seen[e[1]], m \notin seen[e[2]], m \notin nodeDrops[e[1]],
                      ~(IsHopWave /\ outcome[e][m] = << >>)
               PROVE  \E i \in DOMAIN outcome[e][m] : outcome[e][m][i] \in Dropped
    BY DEF GapsAreExplained
  <2>1. e[1] \in Nodes /\ e[2] \in Nodes
    BY EdgeType
  <2>2. /\ m \in forwardingStarted[e[1]]
        /\ GoesOut(e, m) <=> outcome[e][m] # << >>
        /\ outcome[e][m] \in Seq(Outcomes)
    BY <2>1, RestIsSettled
  <2>3. supplier[e[1]][m] # e[2]
    BY <2>1 DEF SupplierHas
  <2>4. outcome[e][m] # << >>
    BY <2>2, <2>3 DEF FateInv, OneFate, Planned
  <2>5. 1 \in DOMAIN outcome[e][m] /\ outcome[e][m][1] \in Outcomes
    BY <2>2, <2>4
  <2>6. outcome[e][m][1] # "suppressed"
    BY <2>5 DEF KnowledgeInv, SuppressionIsSafe
  <2>7. outcome[e][m][1] # "sent"
    <3> SUFFICES ASSUME outcome[e][m][1] = "sent" PROVE FALSE
      OBVIOUS
    <3>1. Carries(wire[e], m)
      BY <2>5 DEF SentArrives, Arrives, HasSent
    <3>2. wire[e] = << >>
      BY <2>1 DEF AtRest
    <3> QED BY <3>1, <3>2 DEF Carries
  <2> QED BY <2>5, <2>6, <2>7 DEF Outcomes
<1> QED
  BY <1>1, TypeCorrect, KnowledgeInit, KnowledgeStep, PlaceCorrect, FateCorrect,
     OwedCorrect, PTL DEF Spec

(* No peer is cut off from another.                                        *)
Connected ==
  \A S \in (SUBSET Nodes) \ {{}} : (\A n \in S : Neighbors[n] \subseteq S) => S = Nodes

(* No peer has recorded a drop of m.                                       *)
Undropped(m) ==
  /\ \A n \in Nodes : m \notin nodeDrops[n]
  /\ \A e \in Edges : \A i \in DOMAIN outcome[e][m] : outcome[e][m][i] \notin Dropped

(* What the experiment measures starts from here: in a connected network   *)
(* of whole streams, a message that was injected and that no peer recorded *)
(* as dropped has reached every peer once all is at rest, whatever was     *)
(* suppressed on the way.  HopWave may leave a peer out for good.          *)
ReachesEveryone ==
  AtRest /\ alive = Nodes /\ Connected /\ ~IsHopWave =>
    \A m \in Messages : m \in seen[Origin[m]] /\ Undropped(m) =>
      \A n \in Nodes : m \in seen[n]

(* And so, in a connected network of any shape and size, a message that    *)
(* was injected and that no peer recorded as dropped has reached everyone  *)
(* once all is at rest: the peers that have it are a set no edge leaves.   *)
THEOREM EveryoneIsReached ==
  ASSUME ~StreamFaults
  PROVE  Spec => []ReachesEveryone
<1>1. GapsAreExplained => ReachesEveryone
  <2> SUFFICES ASSUME GapsAreExplained, AtRest, alive = Nodes, Connected, ~IsHopWave,
                      NEW m \in Messages, m \in seen[Origin[m]], Undropped(m)
               PROVE  \A n \in Nodes : m \in seen[n]
    BY DEF ReachesEveryone
  <2> DEFINE S == {n \in Nodes : m \in seen[n]}
  <2>1. Origin[m] \in S
    BY FloodingAssumption
  <2>2. ASSUME NEW n \in S, NEW k \in Neighbors[n] PROVE k \in S
    <3>1. n \in Nodes /\ k \in Nodes
      BY FloodingAssumption
    <3>2. <<n, k>> \in Edges
      BY <3>1, EdgeMade
    <3> SUFFICES ASSUME m \notin seen[k] PROVE FALSE
      BY <3>1
    <3>3. m \in seen[n]
      OBVIOUS
    <3>4. \/ m \in nodeDrops[n]
          \/ \E i \in DOMAIN outcome[<<n, k>>][m] : outcome[<<n, k>>][m][i] \in Dropped
      BY <3>2, <3>3 DEF GapsAreExplained
    <3> QED BY <3>1, <3>2, <3>4 DEF Undropped
  <2>3. S \in (SUBSET Nodes) \ {{}} /\ \A n \in S : Neighbors[n] \subseteq S
    BY <2>1, <2>2
  <2>4. S = Nodes
    <3> HIDE DEF S
    <3> QED BY <2>3 DEF Connected
  <2> QED BY <2>4
<1> QED BY <1>1, NoSilentGap, PTL

=============================================================================
