------------------------------- MODULE Flooding -------------------------------
(***************************************************************************)
(* How messages travel between peers (internal/p2p/peer.go, forwarding.go, *)
(* hopwave.go), with every goroutine of every peer stepping on its own:    *)
(*                                                                         *)
(*   injector   Peer.Inject, one per message                               *)
(*   reader     Peer.handleStream, one per inbound stream                  *)
(*   worker     Peer.runWorker, ProcessingWorkers per peer                 *)
(*   sender     edgeSender.run/send, one per directed edge                 *)
(*                                                                         *)
(* A step is what a goroutine does between two points where another one    *)
(* can see or change what it uses.  The four forwarding protocols share    *)
(* the actions and differ in protocol.  Two runs of adjacent code are one  *)
(* step although they hold no common lock, because swapping them with any  *)
(* other goroutine's step changes nothing: the IDONTWANT look-up and the   *)
(* append in enqueueData, and the dequeue and the look-up in send.         *)
(*                                                                         *)
(* An edge's two queues are those of TwoClassQueue, which EdgeQueue        *)
(* implements.  A stream is a reliable FIFO until a write on it fails.     *)
(*                                                                         *)
(* A definition whose name ends in Bug is no part of Spec: it is the wrong *)
(* variant of the definition after it that some property must catch.       *)
(***************************************************************************)
EXTENDS Integers, Sequences, FiniteSets

CONSTANTS
  Nodes,
  Neighbors,             (* node -> its configured neighbors               *)
  Messages,
  Origin,                (* message -> the node it is injected at          *)
  Source,                (* processItem.from = "": made here, not received *)
  NoMessage,             (* the message of a goroutine that holds none     *)
  Workers,               (* worker indices of a peer                       *)
  Configured,            (* the protocols the experiment may be run with   *)
  WaveI, WaveF,          (* HopWave's I, and F in percent                  *)
  ProcessQueueCapacity,  (* Performance.QueueCapacity                      *)
  EdgeQueueCapacity,     (* Network.QueueCapacity                          *)
  Lossy,                 (* is LossRate above zero?                        *)
  StreamFaults,          (* may a write on a stream fail?                  *)
  MayCrash               (* the nodes that may die (no peer is restarted)  *)

Protocols ==
  {"base_flooding", "duplicate_aware_flooding", "idontwant_flooding", "hopwave"}

(* The topology is an undirected graph without self-loops (NormalizeTopology). *)
ASSUME FloodingAssumption ==
  /\ IsFiniteSet(Nodes)
  /\ Neighbors \in [Nodes -> SUBSET Nodes]
  /\ \A n \in Nodes : n \notin Neighbors[n]
  /\ \A n \in Nodes : \A k \in Neighbors[n] : n \in Neighbors[k]
  /\ Origin \in [Messages -> Nodes]
  /\ Source \notin Nodes
  /\ NoMessage \notin Messages
  /\ Messages \cap (Nodes \X Nodes) = {}
  /\ Configured \subseteq Protocols
  /\ WaveI \in Nat \ {0}
  /\ WaveF \in 1..100
  /\ ProcessQueueCapacity \in Nat
  /\ EdgeQueueCapacity \in Nat
  /\ Lossy \in BOOLEAN
  /\ StreamFaults \in BOOLEAN
  /\ MayCrash \subseteq Nodes

VARIABLES
  protocol,      (* Scenario.Protocol, the same at every peer              *)
  alive,         (* the peers that still run                               *)
  seen,          (* node -> Peer.seen                                      *)
  duplicateSenders, (* node -> message -> knowledge.duplicateSenders       *)
  dontWantPeers, (* node -> message -> knowledge.dontWantPeers             *)
  forwardingStarted, (* node -> messages with knowledge.forwardingStarted  *)
  intake,        (* injector or reader -> the first copy it is handling    *)
  processQueue,  (* node -> Peer.processQueue                              *)
  worker,        (* worker -> where it stands                              *)
  controlQueue,  (* edge -> edgeSender.controlQueue                        *)
  dataQueue,     (* edge -> edgeSender.dataQueue                           *)
  sender,        (* edge -> where the sender stands                        *)
  wire,          (* edge -> frames written and not yet read                *)
  outcome,       (* history: edge -> message -> what the sending peer      *)
                 (* recorded of this payload, in order                     *)
  nodeDrops,     (* history: node -> messages dropped with node_queue_full *)
  supplier       (* history: node -> message -> who supplied the first copy *)

vars == <<protocol, alive, seen, duplicateSenders, dontWantPeers, forwardingStarted,
          intake, processQueue, worker, controlQueue, dataQueue, sender, wire,
          outcome, nodeDrops, supplier>>

knowledge == <<seen, duplicateSenders, dontWantPeers, forwardingStarted>>
edges == <<controlQueue, dataQueue, sender, wire>>

-----------------------------------------------------------------------------
(* An edge is named <<from, to>>; its reader runs at "to".  An injector is *)
(* named by its message.                                                   *)
Edges == {e \in Nodes \X Nodes : e[2] \in Neighbors[e[1]]}
Handlers == Edges \cup Messages
WorkerIds == Nodes \X Workers

At(h) == IF h \in Messages THEN Origin[h] ELSE h[2]

UsesDuplicateNeighborSuppression == protocol = "duplicate_aware_flooding"
UsesIDontWant == protocol = "idontwant_flooding"
IsHopWave == protocol = "hopwave"

(* processItem: what is processed, who supplied it, how far it has come.   *)
Items == [msg : Messages, from : Nodes \cup {Source}, hop : Nat, wave : Nat]
NoItem == [msg |-> NoMessage, from |-> Source, hop |-> 0, wave |-> 0]

(* WireFrame.                                                              *)
Frames == [type : {"data", "idontwant"}, msg : Messages, hop : Nat, wave : Nat]
NoFrame == [type |-> "data", msg |-> NoMessage, hop |-> 0, wave |-> 0]

(* Bug: the sender counts the hop once more.                               *)
DataFrameBug(item) ==
  [type |-> "data", msg |-> item.msg, hop |-> item.hop + 1, wave |-> item.wave]

DataFrame(item) ==
  [type |-> "data", msg |-> item.msg, hop |-> item.hop, wave |-> item.wave]
IDontWantFrame(m) == [type |-> "idontwant", msg |-> m, hop |-> 0, wave |-> 0]

(* Bug: acceptMessage forgets which neighbor the frame came from.          *)
ReceivedBug(f, k) == [msg |-> f.msg, from |-> Source, hop |-> f.hop, wave |-> f.wave]

Received(f, k) == [msg |-> f.msg, from |-> k, hop |-> f.hop, wave |-> f.wave]

Idle == [pc |-> "idle", item |-> NoItem, todo |-> {}]
IdleSender == [pc |-> "idle", frame |-> NoFrame]

(* A first copy was registered: tell the other neighbors (todo) if the     *)
(* protocol says so, then hand it to the workers.                          *)
Accepted(n, item) ==
  [pc |-> "accepted", item |-> item,
   todo |-> IF UsesIDontWant THEN Neighbors[n] \ {item.from} ELSE {}]

(* Bug: the forwarding loop stops before its last target.                  *)
FanOutBug(item, targets) ==
  IF Cardinality(targets) <= 1 THEN Idle
  ELSE [pc |-> "forwarding", item |-> item, todo |-> targets]

(* A worker with targets left to enqueue to, or back at its receive.       *)
FanOut(item, targets) ==
  IF targets = {} THEN Idle
  ELSE [pc |-> "forwarding", item |-> item, todo |-> targets]

(* Bug: a drop at a full edge queue leaves no trace.                       *)
RecordedBug(e, m, what) ==
  IF what = "edge_queue_full" THEN outcome ELSE [outcome EXCEPT ![e][m] = Append(@, what)]

Recorded(e, m, what) == [outcome EXCEPT ![e][m] = Append(@, what)]

Dropped == {"edge_queue_full", "emulated_loss", "stream_write_failed"}
Outcomes == Dropped \cup {"sent", "suppressed"}

(* Bug: any IDONTWANT for the message suppresses it towards everyone.      *)
ShouldSuppressQueuedBug(e, m) == UsesIDontWant /\ dontWantPeers[e[1]][m] # {}

(* shouldSuppressQueued.                                                   *)
ShouldSuppressQueued(e, m) ==
  UsesIDontWant /\ e[2] \in dontWantPeers[e[1]][m]

-----------------------------------------------------------------------------
Init ==
  /\ protocol \in Configured
  /\ alive = Nodes
  /\ seen = [n \in Nodes |-> {}]
  /\ duplicateSenders = [n \in Nodes |-> [m \in Messages |-> {}]]
  /\ dontWantPeers = [n \in Nodes |-> [m \in Messages |-> {}]]
  /\ forwardingStarted = [n \in Nodes |-> {}]
  /\ intake = [h \in Handlers |-> Idle]
  /\ processQueue = [n \in Nodes |-> << >>]
  /\ worker = [w \in WorkerIds |-> Idle]
  /\ controlQueue = [e \in Edges |-> << >>]
  /\ dataQueue = [e \in Edges |-> << >>]
  /\ sender = [e \in Edges |-> IdleSender]
  /\ wire = [e \in Edges |-> << >>]
  /\ outcome = [e \in Edges |-> [m \in Messages |-> << >>]]
  /\ nodeDrops = [n \in Nodes |-> {}]
  /\ supplier = [n \in Nodes |-> [m \in Messages |-> NoMessage]]

-----------------------------------------------------------------------------
(* Injector and reader.                                                    *)

(* Inject: registerLocalMessage, for one of the messages of a schedule.    *)
Inject(m) ==
  LET n == Origin[m]
  IN  /\ n \in alive
      /\ m \notin seen[n]
      /\ seen' = [seen EXCEPT ![n] = @ \cup {m}]
      /\ supplier' = [supplier EXCEPT ![n][m] = Source]
      /\ intake' = [intake EXCEPT ![m] =
           Accepted(n, [msg |-> m, from |-> Source, hop |-> 0, wave |-> 0])]
      /\ UNCHANGED <<alive, duplicateSenders, dontWantPeers, forwardingStarted,
                     processQueue, worker, edges, outcome, nodeDrops>>

(* Bug: only a forwarded message counts as known, so two copies that       *)
(* arrive before that are both first.                                      *)
ReceiveFirstTwiceBug(e, f) ==
  /\ f.msg \notin forwardingStarted[e[2]]
  /\ seen' = [seen EXCEPT ![e[2]] = @ \cup {f.msg}]
  /\ supplier' = [supplier EXCEPT ![e[2]][f.msg] = e[1]]
  /\ intake' = [intake EXCEPT ![e] = Accepted(e[2], Received(f, e[1]))]
  /\ UNCHANGED duplicateSenders

(* Bug: the memory of seen messages is replaced by the newest one.         *)
ReceiveFirstForgetsBug(e, f) ==
  /\ f.msg \notin seen[e[2]]
  /\ seen' = [seen EXCEPT ![e[2]] = {f.msg}]
  /\ supplier' = [supplier EXCEPT ![e[2]][f.msg] = e[1]]
  /\ intake' = [intake EXCEPT ![e] = Accepted(e[2], Received(f, e[1]))]
  /\ UNCHANGED duplicateSenders

(* registerReceivedMessage, of a first copy.                               *)
ReceiveFirst(e, f) ==
  /\ f.msg \notin seen[e[2]]
  /\ seen' = [seen EXCEPT ![e[2]] = @ \cup {f.msg}]
  /\ supplier' = [supplier EXCEPT ![e[2]][f.msg] = e[1]]
  /\ intake' = [intake EXCEPT ![e] = Accepted(e[2], Received(f, e[1]))]
  /\ UNCHANGED duplicateSenders

(* registerReceivedMessage, of a later copy: acceptMessage returns.        *)
ReceiveDuplicate(e, f) ==
  /\ f.msg \in seen[e[2]]
  /\ duplicateSenders' =
       IF UsesDuplicateNeighborSuppression
            /\ f.msg \notin forwardingStarted[e[2]]
         THEN [duplicateSenders EXCEPT ![e[2]][f.msg] = @ \cup {e[1]}]
         ELSE duplicateSenders
  /\ UNCHANGED <<seen, supplier, intake>>

(* handleStream reads a data frame.                                        *)
ReceiveData(e) ==
  /\ e[2] \in alive
  /\ intake[e].pc = "idle"
  /\ wire[e] # << >> /\ Head(wire[e]).type = "data"
  /\ wire' = [wire EXCEPT ![e] = Tail(@)]
  /\ ReceiveFirst(e, Head(wire[e])) \/ ReceiveDuplicate(e, Head(wire[e]))
  /\ UNCHANGED <<alive, dontWantPeers, forwardingStarted, processQueue, worker,
                 controlQueue, dataQueue, sender, outcome, nodeDrops>>

(* handleStream reads a control frame: acceptIDontWant.                    *)
ReceiveIDontWant(e) ==
  /\ e[2] \in alive
  /\ intake[e].pc = "idle"
  /\ wire[e] # << >> /\ Head(wire[e]).type = "idontwant"
  /\ wire' = [wire EXCEPT ![e] = Tail(@)]
  /\ dontWantPeers' =
       IF UsesIDontWant
         THEN [dontWantPeers EXCEPT ![e[2]][Head(wire[e]).msg] = @ \cup {e[1]}]
         ELSE dontWantPeers
  /\ UNCHANGED <<alive, seen, duplicateSenders, forwardingStarted, intake,
                 processQueue, worker, controlQueue, dataQueue, sender, outcome,
                 nodeDrops, supplier>>

(* One turn of broadcastIDontWant's loop: enqueueControl, dropped if full. *)
Advise(h, k) ==
  LET e == <<At(h), k>>
      f == IDontWantFrame(intake[h].item.msg)
  IN  /\ At(h) \in alive
      /\ intake[h].pc = "accepted"
      /\ k \in intake[h].todo
      /\ intake' = [intake EXCEPT ![h] =
           [pc |-> "accepted", item |-> @.item, todo |-> @.todo \ {k}]]
      /\ controlQueue' =
           IF Len(controlQueue[e]) < EdgeQueueCapacity
             THEN [controlQueue EXCEPT ![e] = Append(@, f)]
             ELSE controlQueue
      /\ UNCHANGED <<alive, knowledge, processQueue, worker, dataQueue, sender,
                     wire, outcome, nodeDrops, supplier>>

(* enqueueProcessing: the send never blocks, a full queue drops the copy.  *)
EnqueueProcessing(h) ==
  LET n == At(h)
      item == intake[h].item
  IN  /\ n \in alive
      /\ intake[h].pc = "accepted"
      /\ intake[h].todo = {}
      /\ intake' = [intake EXCEPT ![h] = Idle]
      /\ \/ /\ Len(processQueue[n]) < ProcessQueueCapacity
            /\ processQueue' = [processQueue EXCEPT ![n] = Append(@, item)]
            /\ UNCHANGED nodeDrops
         \/ /\ Len(processQueue[n]) >= ProcessQueueCapacity
            /\ nodeDrops' = [nodeDrops EXCEPT ![n] = @ \cup {item.msg}]
            /\ UNCHANGED processQueue
      /\ UNCHANGED <<alive, knowledge, worker, edges, outcome, supplier>>

-----------------------------------------------------------------------------
(* Worker.                                                                 *)

(* runWorker receives an item and sleeps for the processing delay.         *)
StartProcessing(w) ==
  LET n == w[1]
  IN  /\ n \in alive
      /\ worker[w].pc = "idle"
      /\ processQueue[n] # << >>
      /\ processQueue' = [processQueue EXCEPT ![n] = Tail(@)]
      /\ worker' = [worker EXCEPT ![w] =
           [pc |-> "processing", item |-> Head(processQueue[n]), todo |-> {}]]
      /\ UNCHANGED <<alive, knowledge, intake, edges, outcome, nodeDrops, supplier>>

(* Bug: the duplicates of any message suppress this one.                   *)
SuppressedBug(n, m) ==
  CASE UsesDuplicateNeighborSuppression -> UNION {duplicateSenders[n][x] : x \in Messages}
    [] UsesIDontWant -> dontWantPeers[n][m]
    [] OTHER -> {}

(* beginForwarding's result.                                               *)
Suppressed(n, m) ==
  CASE UsesDuplicateNeighborSuppression -> duplicateSenders[n][m]
    [] UsesIDontWant -> dontWantPeers[n][m]
    [] OTHER -> {}

(* Bug: a cycle one level too long.                                        *)
CrestBug(item) == item.from = Source \/ WaveI <= 1 \/ item.wave >= WaveI

(* decideHopWaveRelay.                                                     *)
Crest(item) == item.from = Source \/ WaveI <= 1 \/ item.wave >= WaveI - 1
OutgoingWave(item) ==
  IF IsHopWave THEN (IF Crest(item) THEN 0 ELSE item.wave + 1) ELSE item.wave

(* selectHopWaveTargets picks round(F * eligible) neighbors, at least one, *)
(* by a seeded shuffle: any subset of that size.                           *)
TroughFanout(eligible) ==
  LET rounded == (WaveF * Cardinality(eligible) + 50) \div 100
  IN  IF eligible = {} THEN 0 ELSE IF rounded < 1 THEN 1 ELSE rounded

TargetSets(item, eligible) ==
  IF IsHopWave /\ ~Crest(item)
    THEN {S \in SUBSET eligible : Cardinality(S) = TroughFanout(eligible)}
    ELSE {eligible}

(* The delay is over: beginForwarding, the loop that records suppressions, *)
(* the relay decision.                                                     *)
BeginForwarding(w) ==
  LET n == w[1]
      item == worker[w].item
      others == Neighbors[n] \ {item.from}
      skipped == others \cap Suppressed(n, item.msg)
      outgoing == [item EXCEPT !.hop = @ + 1, !.wave = OutgoingWave(item)]
  IN  /\ n \in alive
      /\ worker[w].pc = "processing"
      /\ forwardingStarted' = [forwardingStarted EXCEPT ![n] = @ \cup {item.msg}]
      /\ outcome' = [e \in Edges |->
           IF e[1] = n /\ e[2] \in skipped
             THEN [outcome[e] EXCEPT ![item.msg] = Append(@, "suppressed")]
             ELSE outcome[e]]
      /\ \E targets \in TargetSets(item, others \ skipped) :
           worker' = [worker EXCEPT ![w] = FanOut(outgoing, targets)]
      /\ UNCHANGED <<alive, seen, duplicateSenders, dontWantPeers, intake,
                     processQueue, edges, nodeDrops, supplier>>

(* One turn of the forwarding loop: enqueueData.                           *)
EnqueueData(w, k) ==
  LET e == <<w[1], k>>
      item == worker[w].item
  IN  /\ w[1] \in alive
      /\ worker[w].pc = "forwarding"
      /\ k \in worker[w].todo
      /\ worker' = [worker EXCEPT ![w] = FanOut(item, worker[w].todo \ {k})]
      /\ \/ /\ ShouldSuppressQueued(e, item.msg)
            /\ outcome' = Recorded(e, item.msg, "suppressed")
            /\ UNCHANGED dataQueue
         \/ /\ ~ShouldSuppressQueued(e, item.msg)
            /\ Len(dataQueue[e]) < EdgeQueueCapacity
            /\ dataQueue' = [dataQueue EXCEPT ![e] = Append(@, DataFrame(item))]
            /\ UNCHANGED outcome
         \/ /\ ~ShouldSuppressQueued(e, item.msg)
            /\ Len(dataQueue[e]) >= EdgeQueueCapacity
            /\ outcome' = Recorded(e, item.msg, "edge_queue_full")
            /\ UNCHANGED dataQueue
      /\ UNCHANGED <<alive, knowledge, intake, processQueue, controlQueue, sender,
                     wire, nodeDrops, supplier>>

-----------------------------------------------------------------------------
(* Sender.                                                                 *)

(* dequeue returned a control frame; send draws the loss and sleeps.       *)
TakeControl(e) ==
  /\ e[1] \in alive
  /\ sender[e].pc = "idle"
  /\ controlQueue[e] # << >>
  /\ controlQueue' = [controlQueue EXCEPT ![e] = Tail(@)]
  /\ \/ sender' = [sender EXCEPT ![e] =
             [pc |-> "delaying", frame |-> Head(controlQueue[e])]]
     \/ Lossy /\ UNCHANGED sender
  /\ UNCHANGED <<alive, knowledge, intake, processQueue, worker, dataQueue, wire,
                 outcome, nodeDrops, supplier>>

(* dequeue returned a payload; send looks at dontWantPeers, draws the      *)
(* loss and sleeps.                                                        *)
TakeData(e) ==
  LET f == Head(dataQueue[e])
  IN  /\ e[1] \in alive
      /\ sender[e].pc = "idle"
      /\ controlQueue[e] = << >>
      /\ dataQueue[e] # << >>
      /\ dataQueue' = [dataQueue EXCEPT ![e] = Tail(@)]
      /\ \/ /\ ShouldSuppressQueued(e, f.msg)
            /\ outcome' = Recorded(e, f.msg, "suppressed")
            /\ UNCHANGED sender
         \/ /\ ~ShouldSuppressQueued(e, f.msg)
            /\ Lossy
            /\ outcome' = Recorded(e, f.msg, "emulated_loss")
            /\ UNCHANGED sender
         \/ /\ ~ShouldSuppressQueued(e, f.msg)
            /\ sender' = [sender EXCEPT ![e] = [pc |-> "delaying", frame |-> f]]
            /\ UNCHANGED outcome
      /\ UNCHANGED <<alive, knowledge, intake, processQueue, worker, controlQueue,
                     wire, nodeDrops, supplier>>

(* Bug: the last look-up records a suppression but does not return.        *)
EndDelayBug(e) ==
  LET f == sender[e].frame
      drop == f.type = "data" /\ ShouldSuppressQueued(e, f.msg)
  IN  /\ e[1] \in alive
      /\ sender[e].pc = "delaying"
      /\ sender' = [sender EXCEPT ![e] = [pc |-> "writing", frame |-> f]]
      /\ outcome' = IF drop THEN Recorded(e, f.msg, "suppressed") ELSE outcome
      /\ UNCHANGED <<alive, knowledge, intake, processQueue, worker, controlQueue,
                     dataQueue, wire, nodeDrops, supplier>>

(* The edge delay is over; send looks at dontWantPeers for the last time.  *)
EndDelay(e) ==
  LET f == sender[e].frame
      drop == f.type = "data" /\ ShouldSuppressQueued(e, f.msg)
  IN  /\ e[1] \in alive
      /\ sender[e].pc = "delaying"
      /\ sender' = [sender EXCEPT ![e] =
           IF drop THEN IdleSender ELSE [pc |-> "writing", frame |-> f]]
      /\ outcome' = IF drop THEN Recorded(e, f.msg, "suppressed") ELSE outcome
      /\ UNCHANGED <<alive, knowledge, intake, processQueue, worker, controlQueue,
                     dataQueue, wire, nodeDrops, supplier>>

(* Bug: a payload that cannot be written goes back to its queue.           *)
WriteBug(e) ==
  LET f == sender[e].frame
      faulty == StreamFaults \/ e[2] \notin alive
      Record(what) == IF f.type = "data" THEN Recorded(e, f.msg, what) ELSE outcome
  IN  /\ e[1] \in alive
      /\ sender[e].pc = "writing"
      /\ sender' = [sender EXCEPT ![e] = IdleSender]
      /\ \E kept \in IF faulty THEN 0..Len(wire[e]) ELSE {Len(wire[e])} :
           \/ /\ wire' = [wire EXCEPT ![e] = Append(SubSeq(@, 1, kept), f)]
              /\ outcome' = Record("sent")
              /\ UNCHANGED dataQueue
           \/ /\ faulty
              /\ wire' = [wire EXCEPT ![e] = SubSeq(@, 1, kept)]
              /\ dataQueue' = IF f.type = "data" THEN [dataQueue EXCEPT ![e] = Append(@, f)]
                                                 ELSE dataQueue
              /\ UNCHANGED outcome
      /\ UNCHANGED <<alive, knowledge, intake, processQueue, worker, controlQueue,
                     nodeDrops, supplier>>

(* write.  A failed attempt resets the stream, which takes with it what    *)
(* the reader has not got yet; the second attempt may still succeed.       *)
Write(e) ==
  LET f == sender[e].frame
      faulty == StreamFaults \/ e[2] \notin alive
      Record(what) == IF f.type = "data" THEN Recorded(e, f.msg, what) ELSE outcome
  IN  /\ e[1] \in alive
      /\ sender[e].pc = "writing"
      /\ sender' = [sender EXCEPT ![e] = IdleSender]
      /\ \E kept \in IF faulty THEN 0..Len(wire[e]) ELSE {Len(wire[e])} :
           \/ /\ wire' = [wire EXCEPT ![e] = Append(SubSeq(@, 1, kept), f)]
              /\ outcome' = Record("sent")
           \/ /\ faulty
              /\ wire' = [wire EXCEPT ![e] = SubSeq(@, 1, kept)]
              /\ outcome' = Record("stream_write_failed")
      /\ UNCHANGED <<alive, knowledge, intake, processQueue, worker, controlQueue,
                     dataQueue, nodeDrops, supplier>>

(* A peer's process ends (killed, or Peer.Close): nothing of it runs on.   *)
Crash(n) ==
  /\ n \in MayCrash \cap alive
  /\ alive' = alive \ {n}
  /\ UNCHANGED <<knowledge, intake, processQueue, worker, edges, outcome,
                 nodeDrops, supplier>>

(* What a dead peer had written may still be lost, last frame first.       *)
LoseInFlight(e) ==
  /\ e[1] \notin alive
  /\ wire[e] # << >>
  /\ wire' = [wire EXCEPT ![e] = SubSeq(@, 1, Len(@) - 1)]
  /\ UNCHANGED <<alive, knowledge, intake, processQueue, worker, controlQueue,
                 dataQueue, sender, outcome, nodeDrops, supplier>>

-----------------------------------------------------------------------------
(* The four goroutines; no step of any changes the configuration.          *)
Read(e) == (ReceiveData(e) \/ ReceiveIDontWant(e)) /\ UNCHANGED protocol
Handle(h) ==
  ((\E k \in Nodes : Advise(h, k)) \/ EnqueueProcessing(h)) /\ UNCHANGED protocol
Work(w) ==
  /\ StartProcessing(w) \/ BeginForwarding(w) \/ \E k \in Nodes : EnqueueData(w, k)
  /\ UNCHANGED protocol
Send(e) ==
  (TakeControl(e) \/ TakeData(e) \/ EndDelay(e) \/ Write(e)) /\ UNCHANGED protocol

Next ==
  \/ \E m \in Messages : Inject(m) /\ UNCHANGED protocol
  \/ \E h \in Handlers : Handle(h)
  \/ \E e \in Edges : Read(e) \/ Send(e)
  \/ \E w \in WorkerIds : Work(w)
  \/ \E n \in Nodes : Crash(n) /\ UNCHANGED protocol
  \/ \E e \in Edges : LoseInFlight(e) /\ UNCHANGED protocol

(* Every goroutine that can step does: sleeps end, writes return, and the  *)
(* Go scheduler starves nobody.  Nothing makes a message be injected.      *)
Fairness ==
  /\ \A h \in Handlers : WF_vars(Handle(h))
  /\ \A e \in Edges : WF_vars(Read(e)) /\ WF_vars(Send(e))
  /\ \A w \in WorkerIds : WF_vars(Work(w))

Spec == Init /\ [][Next]_vars /\ Fairness

-----------------------------------------------------------------------------
TypeOK ==
  /\ protocol \in Protocols
  /\ alive \in SUBSET Nodes
  /\ seen \in [Nodes -> SUBSET Messages]
  /\ duplicateSenders \in [Nodes -> [Messages -> SUBSET Nodes]]
  /\ dontWantPeers \in [Nodes -> [Messages -> SUBSET Nodes]]
  /\ forwardingStarted \in [Nodes -> SUBSET Messages]
  /\ intake \in [Handlers -> [pc : {"idle", "accepted"},
                              item : Items \cup {NoItem}, todo : SUBSET Nodes]]
  /\ \A h \in Handlers : intake[h].pc # "idle" =>
       /\ intake[h].item \in Items
       /\ intake[h].todo \subseteq Neighbors[At(h)]
  /\ processQueue \in [Nodes -> Seq(Items)]
  /\ worker \in [WorkerIds -> [pc : {"idle", "processing", "forwarding"},
                               item : Items \cup {NoItem}, todo : SUBSET Nodes]]
  /\ \A w \in WorkerIds : worker[w].pc # "idle" =>
       /\ worker[w].item \in Items
       /\ worker[w].todo \subseteq Neighbors[w[1]]
  /\ controlQueue \in [Edges -> Seq(Frames)]
  /\ dataQueue \in [Edges -> Seq(Frames)]
  /\ sender \in [Edges -> [pc : {"idle", "delaying", "writing"},
                           frame : Frames \cup {NoFrame}]]
  /\ \A e \in Edges : sender[e].pc # "idle" => sender[e].frame \in Frames
  /\ wire \in [Edges -> Seq(Frames)]
  /\ outcome \in [Edges -> [Messages -> Seq(Outcomes)]]
  /\ nodeDrops \in [Nodes -> SUBSET Messages]
  /\ supplier \in [Nodes -> [Messages -> Nodes \cup {Source, NoMessage}]]

(* Nothing is withheld from a peer that lacks it: when a payload is        *)
(* suppressed, by a duplicate or by IDONTWANT, its target has already      *)
(* registered the message, however late the news of that arrived.          *)
SuppressionIsSafe ==
  \A e \in Edges, m \in Messages :
    (\E i \in DOMAIN outcome[e][m] : outcome[e][m][i] = "suppressed") => m \in seen[e[2]]

(* The places where m is on its way out on edge e, or settled.             *)
Copies(e, m) ==
  {<<"planned", w>> : w \in {x \in WorkerIds : /\ x[1] = e[1]
                                               /\ worker[x].pc = "forwarding"
                                               /\ worker[x].item.msg = m
                                               /\ e[2] \in worker[x].todo}}
  \cup {<<"queued", i>> : i \in {j \in DOMAIN dataQueue[e] : dataQueue[e][j].msg = m}}
  \cup {<<"sending", s>> : s \in {x \in {sender[e].frame} : /\ sender[e].pc # "idle"
                                                            /\ x.type = "data"
                                                            /\ x.msg = m}}
  \cup {<<"recorded", i>> : i \in DOMAIN outcome[e][m]}

(* A payload is forwarded on an edge at most once, and the peer records at *)
(* most one fate for it (sent, dropped for one reason, or suppressed):     *)
(* the per-edge counts of the aggregate never count a payload twice.       *)
AtMostOneFate ==
  \A e \in Edges, m \in Messages : \A p, q \in Copies(e, m) : p = q

(* The places where m occupies peer n, or did.                             *)
Places(n, m) ==
  {<<"intake", h>> : h \in {x \in Handlers : /\ At(x) = n
                                             /\ intake[x].pc = "accepted"
                                             /\ intake[x].item.msg = m}}
  \cup {<<"queue", i>> : i \in {j \in DOMAIN processQueue[n] : processQueue[n][j].msg = m}}
  \cup {<<"worker", w>> : w \in {x \in WorkerIds : /\ x[1] = n
                                                   /\ worker[x].pc = "processing"
                                                   /\ worker[x].item.msg = m}}
  \cup {<<"started", x>> : x \in {m} \cap forwardingStarted[n]}
  \cup {<<"dropped", x>> : x \in {m} \cap nodeDrops[n]}

(* A message a peer has registered is in one place: being accepted, in the *)
(* queue, being processed, forwarded from, or dropped because the queue    *)
(* was full.  So it is processed at most once and never silently lost.     *)
ProcessedAtMostOnce ==
  \A n \in Nodes, m \in Messages :
    /\ m \in seen[n] <=> Places(n, m) # {}
    /\ \A p, q \in Places(n, m) : p = q

(* The first copy never goes back to the peer that supplied it.            *)
NeverBackToSupplier ==
  \A e \in Edges, m \in Messages : supplier[e[1]][m] = e[2] => Copies(e, m) = {}

(* Nothing is left to do in any living peer.                               *)
AtRest ==
  /\ \A h \in Handlers : At(h) \in alive => intake[h].pc = "idle"
  /\ \A n \in alive : processQueue[n] = << >>
  /\ \A w \in WorkerIds : w[1] \in alive => worker[w].pc = "idle"
  /\ \A e \in Edges :
       /\ e[1] \in alive => /\ controlQueue[e] = << >> /\ dataQueue[e] = << >>
                            /\ sender[e].pc = "idle"
       /\ e[2] \in alive => wire[e] = << >>

(* "A node forwards the first received copy to every neighbor except the   *)
(* peer that supplied that first copy" (README, base_flooding): once at    *)
(* rest, each of those edges has one recorded fate, unless the peer        *)
(* dropped the message or HopWave chose some of the neighbors.             *)
PlanCarriedOut ==
  AtRest => \A n \in alive, m \in Messages :
    m \in seen[n] \ nodeDrops[n] /\ ~IsHopWave
      => \A k \in Neighbors[n] \ {supplier[n][m]} : Len(outcome[<<n, k>>][m]) = 1

(* A gap in propagation is never silent: at rest, a peer that has the      *)
(* message beside one that has not recorded the drop that explains it, as  *)
(* long as no stream broke.  HopWave leaves some neighbors out unrecorded. *)
GapsAreExplained ==
  AtRest /\ alive = Nodes => \A e \in Edges, m \in Messages :
    m \in seen[e[1]] \ seen[e[2]] =>
      \/ m \in nodeDrops[e[1]]
      \/ \E i \in DOMAIN outcome[e][m] : outcome[e][m][i] \in Dropped
      \/ IsHopWave /\ outcome[e][m] = << >>

(* What a peer holds of a message on its way through: before forwarding.   *)
Held ==
  {intake[h].item : h \in {x \in Handlers : intake[x].pc = "accepted"}}
    \cup (UNION {{processQueue[n][i] : i \in DOMAIN processQueue[n]} : n \in Nodes})
    \cup {worker[w].item : w \in {x \in WorkerIds : worker[x].pc = "processing"}}

(* Hop counts the edges from the origin along first copies: these form a   *)
(* tree, so a copy a peer accepts has crossed fewer edges than there are   *)
(* peers, whatever the order in which copies raced.                        *)
HopBound == \A item \in Held : item.hop < Cardinality(Nodes)

(* "I is the number of relay levels in one Crest-to-Crest cycle": the      *)
(* cycle hop of a received copy is its level modulo I.                     *)
WaveFollowsHop ==
  IsHopWave => \A item \in Held :
    item.wave = IF item.from = Source THEN 0 ELSE (item.hop - 1) % WaveI

(* Flooding implements propagation; without loss and with room in the      *)
(* queues it also owes every neighbor of a reached peer the message.       *)
(* HopWave owes nothing: a relay below the Crest leaves neighbors out.     *)
Prop == INSTANCE Propagation WITH reached <- seen

PropagatesSafely == Prop!PSafeSpec
PropagatesFairly == Prop!PSafeSpec /\ (IsHopWave \/ Prop!SpreadsFairly)

(* Flooding dies out: every message is forwarded a bounded number of times. *)
ComesToRest == <>[]AtRest

=============================================================================
