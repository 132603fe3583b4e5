------------------------------ MODULE Experiment ------------------------------
(***************************************************************************)
(* An experiment from the controller's first health check to its result    *)
(* (internal/controller/experiment.go, http.go, traffic.go), together with *)
(* the control API of the peers it drives (internal/p2p/peer.go).          *)
(*                                                                         *)
(* Every phase but the traffic is a fan-out: one call per peer, at most    *)
(* parallelism of them at a time, under a context of its own.  A call may  *)
(* be lost, answered late or given up, and the peer's handler may go on    *)
(* after that.  Peers die, connections drop, and a signal may interrupt    *)
(* the run.  What a message does in the network is Flooding's subject;     *)
(* here a peer only counts the messages it is asked for and records.       *)
(*                                                                         *)
(* A definition whose name ends in Bug is no part of Spec: it is the wrong *)
(* variant of the definition after it that some property must catch.       *)
(***************************************************************************)
EXTENDS Integers, Sequences, FiniteSets

CONSTANTS
  Nodes,        (* node indices                                            *)
  Edges,        (* the configured topology: pairs of nodes                 *)
  Traffics,     (* sequence of [source, count]                             *)
  AnyNode,      (* the source of a traffic entry that says "random"        *)
  Parallelisms, (* values of scenario.controller.parallelism               *)
  MaxFaults     (* bound: deaths and dropped connections of a run          *)

ASSUME ExperimentAssumption ==
  /\ Nodes \subseteq Nat /\ Nodes # {} /\ IsFiniteSet(Nodes)
  /\ Edges \subseteq {{x[1], x[2]} : x \in {y \in Nodes \X Nodes : y[1] # y[2]}}
  /\ AnyNode \notin Nodes
  /\ Traffics \in Seq([source : Nodes \cup {AnyNode}, count : Nat \ {0}])
  /\ Parallelisms \subseteq Nat \ {0} /\ MaxFaults \in Nat

VARIABLES
  (* the controller *)
  download,     (* the peers' files are fetched; else on a shared volume   *)
  parallelism,  (* how many calls of a fan-out may be under way            *)
  phase,        (* where executeExperiment stands                          *)
  expired,      (* the context of the phase has timed out                  *)
  interrupted,  (* the run's own context was cancelled                     *)
  remaining,    (* waitReady: peers not seen ready yet                     *)
  call,         (* node -> its call of the current fan-out                 *)
  file,         (* node -> records in the fetched file, -1 without one     *)
  plan,         (* traffic entry -> the source of each of its messages     *)
  schedule,     (* traffic entry -> its goroutine: next message, state     *)
  errors,       (* entries whose goroutine has sent to errorChannel        *)
  errorsClosed, (* errorChannel is closed                                  *)
  (* the peers *)
  alive, serving, (* peers that run, and whose HTTP server listens         *)
  connected,    (* edges with a connection                                 *)
  streams,      (* node -> neighbors it has opened a stream to             *)
  job,          (* node -> the handler that runs for the controller        *)
  accepted,     (* node -> messages its inject handler has accepted        *)
  owed,         (* node -> of those, the ones still to be created          *)
  recorded,     (* node -> messages created and recorded                   *)
  finalized, closed, (* node -> recording is off, its file is complete     *)
  faults        (* deaths and drops so far                                 *)

settings == <<download, parallelism>>
runVars == <<settings, plan, schedule, errors, errorsClosed>>
peerVars == <<alive, serving, connected, streams, finalized, closed, faults>>
trafficVars == <<accepted, owed, recorded>>
vars == <<runVars, peerVars, trafficVars, phase, expired, interrupted, remaining,
          call, file, job>>

-----------------------------------------------------------------------------
Neighbors(n) == {m \in Nodes : {n, m} \in Edges}
Entries == DOMAIN Traffics

(* A phase whose calls are one forEach.                                    *)
FanOuts == {"ready", "connect", "topology", "prepare", "finalize", "download"}
Expired == expired \/ interrupted

(* The peers the current fan-out addresses.                                *)
Addressed == IF phase = "ready" THEN remaining ELSE Nodes

NoJob == [op |-> "none", todo |-> {}, failed |-> FALSE]

(* A fixed source takes one request for all its messages, a random one a   *)
(* request for each.                                                       *)
Requests(t) == IF Traffics[t].source = AnyNode THEN Traffics[t].count ELSE 1
PerRequest(t) == IF Traffics[t].source = AnyNode THEN 1 ELSE Traffics[t].count

Init ==
  /\ download \in BOOLEAN /\ parallelism \in Parallelisms
  /\ phase = "ready" /\ expired = FALSE /\ interrupted = FALSE
  /\ remaining = Nodes
  /\ call = [n \in Nodes |-> "waiting"]
  /\ file = [n \in Nodes |-> -1]
  /\ plan = [t \in Entries |-> <<>>]
  /\ schedule = [t \in Entries |-> [next |-> 1, at |-> "off"]]
  /\ errors = {} /\ errorsClosed = FALSE
  /\ alive = Nodes /\ serving = {}
  /\ connected = {} /\ streams = [n \in Nodes |-> {}]
  /\ job = [n \in Nodes |-> NoJob]
  /\ accepted = [n \in Nodes |-> 0] /\ owed = [n \in Nodes |-> 0]
  /\ recorded = [n \in Nodes |-> 0]
  /\ finalized = [n \in Nodes |-> FALSE] /\ closed = [n \in Nodes |-> FALSE]
  /\ faults = 0

-----------------------------------------------------------------------------
(* forEach: a call that has a slot, under a context that still runs, is    *)
(* sent.  The request may be lost or refused.                              *)
JobFor(n) ==
  [op |-> phase, failed |-> FALSE,
   todo |-> CASE phase = "connect" -> {m \in Neighbors(n) : n < m}
              [] phase = "prepare" -> Neighbors(n) \ streams[n]
              [] OTHER -> {}]

Ask(n) ==
  /\ phase \in FanOuts /\ n \in Addressed /\ call[n] = "waiting"
  /\ Cardinality({m \in Nodes : call[m] = "asked"}) < parallelism
  /\ ~Expired
  /\ call' = [call EXCEPT ![n] = "asked"]
  /\ \/ n \in serving /\ job' = [job EXCEPT ![n] = JobFor(n)]
     \/ UNCHANGED job
  /\ UNCHANGED <<runVars, peerVars, trafficVars, phase, expired, interrupted, remaining, file>>

(* A call without a slot when the context ends, or sent under an ended one.*)
Skip(n) ==
  /\ phase \in FanOuts /\ n \in Addressed /\ call[n] = "waiting" /\ Expired
  /\ call' = [call EXCEPT ![n] = "error"]
  /\ UNCHANGED <<runVars, peerVars, trafficVars, phase, expired, interrupted, remaining,
                 file, job>>

(* The client's 15 seconds, the context, or the transport ends the call.   *)
(* Downloads have no limit of their own.  A read is forgotten with it.     *)
GiveUp(n) ==
  /\ phase \in FanOuts /\ call[n] = "asked"
  /\ phase = "download" => Expired \/ n \notin alive
  /\ call' = [call EXCEPT ![n] = "error"]
  /\ job' = [job EXCEPT ![n] = IF @.op \in {"ready", "topology", "download"}
                               THEN NoJob ELSE @]
  /\ UNCHANGED <<runVars, peerVars, trafficVars, phase, expired, interrupted, remaining, file>>

(* The handler returns; nobody may be waiting for it any more.             *)
Answer(n, result) ==
  /\ call' = IF call[n] = "asked" THEN [call EXCEPT ![n] = result] ELSE call
  /\ job' = [job EXCEPT ![n] = NoJob]

-----------------------------------------------------------------------------
(* The peers' handlers.  StartHTTP.                                        *)
Serve(n) ==
  /\ n \in alive \ serving
  /\ serving' = serving \cup {n}
  /\ UNCHANGED <<runVars, trafficVars, phase, expired, interrupted, remaining, call, file,
                 job, alive, connected, streams, finalized, closed, faults>>

(* handleHealth.                                                           *)
HandleHealth(n) ==
  /\ job[n].op = "ready"
  /\ Answer(n, "ok")
  /\ UNCHANGED <<runVars, peerVars, trafficVars, phase, expired, interrupted, remaining, file>>

(* What the controller makes of a status: connected as expected.           *)
Agrees(n) == {m \in Neighbors(n) : {n, m} \in connected} = Neighbors(n)

(* handleStatus.                                                           *)
HandleStatus(n) ==
  /\ job[n].op = "topology"
  /\ Answer(n, IF Agrees(n) THEN "ok" ELSE "error")
  /\ UNCHANGED <<runVars, peerVars, trafficVars, phase, expired, interrupted, remaining, file>>

(* A link two live peers can make; the static gater admits no other pair.  *)
Reach(n, m) == n \in alive /\ m \in alive /\ {n, m} \in Edges

(* One neighbor of ConnectNeighbors: it is connected, or gets connected in *)
(* one of five attempts, or is recorded as failed and the next one tried.  *)
Dial(n) ==
  /\ job[n].op = "connect" /\ job[n].todo # {}
  /\ \E m \in job[n].todo :
       \/ /\ Reach(n, m)
          /\ connected' = connected \cup {{n, m}}
          /\ job' = [job EXCEPT ![n].todo = @ \ {m}]
       \/ /\ {n, m} \notin connected
          /\ job' = [job EXCEPT ![n].todo = @ \ {m}, ![n].failed = TRUE]
          /\ UNCHANGED connected
  /\ UNCHANGED <<runVars, trafficVars, phase, expired, interrupted, remaining, call, file,
                 alive, serving, streams, finalized, closed, faults>>

(* One sender of PrepareStreams.  NewStream dials when it has to.          *)
OpenStream(n) ==
  /\ job[n].op = "prepare" /\ job[n].todo # {}
  /\ \E m \in job[n].todo :
       \/ /\ Reach(n, m)
          /\ connected' = connected \cup {{n, m}}
          /\ streams' = [streams EXCEPT ![n] = @ \cup {m}]
          /\ job' = [job EXCEPT ![n].todo = @ \ {m}]
       \/ /\ job' = [job EXCEPT ![n].todo = @ \ {m}, ![n].failed = TRUE]
          /\ UNCHANGED <<connected, streams>>
  /\ UNCHANGED <<runVars, trafficVars, phase, expired, interrupted, remaining, call, file,
                 alive, serving, finalized, closed, faults>>

(* handleConnect and handlePrepare answer when every neighbor was tried.   *)
Tried(n) ==
  /\ job[n].op \in {"connect", "prepare"} /\ job[n].todo = {}
  /\ Answer(n, IF job[n].failed THEN "error" ELSE "ok")
  /\ UNCHANGED <<runVars, peerVars, trafficVars, phase, expired, interrupted, remaining, file>>

(* The request's context ends with the call: the rest fails at once.       *)
Cancelled(n) ==
  /\ job[n].op \in {"connect", "prepare"} /\ call[n] # "asked"
  /\ job' = [job EXCEPT ![n] = NoJob]
  /\ UNCHANGED <<runVars, peerVars, trafficVars, phase, expired, interrupted, remaining,
                 call, file>>

(* Finalize: recording goes off, then the writer is closed.                *)
StopRecording(n) ==
  /\ job[n].op = "finalize" /\ ~finalized[n]
  /\ finalized' = [finalized EXCEPT ![n] = TRUE]
  /\ UNCHANGED <<runVars, trafficVars, phase, expired, interrupted, remaining, call, file,
                 job, alive, serving, connected, streams, closed, faults>>

CloseFile(n) ==
  /\ job[n].op = "finalize" /\ finalized[n] /\ ~closed[n]
  /\ \/ closed' = [closed EXCEPT ![n] = TRUE] /\ UNCHANGED <<job, call>>
     \/ Answer(n, "error") /\ UNCHANGED closed
  /\ UNCHANGED <<runVars, trafficVars, phase, expired, interrupted, remaining, file,
                 alive, serving, connected, streams, finalized, faults>>

(* Bug: the handler answers as soon as recording is off.                   *)
HandleFinalizeBug(n) ==
  /\ job[n].op = "finalize" /\ finalized[n]
  /\ Answer(n, "ok")
  /\ UNCHANGED <<runVars, peerVars, trafficVars, phase, expired, interrupted, remaining, file>>

(* handleFinalize answers when the file is closed.                         *)
HandleFinalize(n) ==
  /\ job[n].op = "finalize" /\ closed[n]
  /\ Answer(n, "ok")
  /\ UNCHANGED <<runVars, peerVars, trafficVars, phase, expired, interrupted, remaining, file>>

(* downloadResults copies what the file holds, all of it once it is closed.*)
Fetch(n) ==
  \E size \in 0..recorded[n] :
    /\ closed[n] => size = recorded[n]
    /\ file' = [file EXCEPT ![n] = size]

(* handleResults: nothing is served before recording is off, nor when the  *)
(* file does not open.                                                     *)
HandleResults(n) ==
  /\ job[n].op = "download"
  /\ \/ finalized[n] /\ Fetch(n) /\ Answer(n, "ok")
     \/ Answer(n, "error") /\ UNCHANGED file
  /\ UNCHANGED <<runVars, peerVars, trafficVars, phase, expired, interrupted, remaining>>

(* One message of the goroutines handleInject has started.  Once recording *)
(* is off the message is made and leaves no record.                        *)
Inject(n) ==
  /\ n \in alive /\ owed[n] > 0
  /\ owed' = [owed EXCEPT ![n] = @ - 1]
  /\ recorded' = IF finalized[n] THEN recorded ELSE [recorded EXCEPT ![n] = @ + 1]
  /\ UNCHANGED <<runVars, peerVars, accepted, phase, expired, interrupted, remaining,
                 call, file, job>>

-----------------------------------------------------------------------------
(* Faults.  A peer dies with its handlers; what it has recorded stays.     *)
Die(n) ==
  /\ faults < MaxFaults /\ n \in alive
  /\ faults' = faults + 1
  /\ alive' = alive \ {n} /\ serving' = serving \ {n}
  /\ connected' = {e \in connected : n \notin e}
  /\ job' = [job EXCEPT ![n] = NoJob]
  /\ owed' = [owed EXCEPT ![n] = 0]
  /\ UNCHANGED <<runVars, phase, expired, interrupted, remaining, call, file,
                 streams, finalized, closed, accepted, recorded>>

Disconnect(e) ==
  /\ faults < MaxFaults /\ e \in connected
  /\ faults' = faults + 1
  /\ connected' = connected \ {e}
  /\ UNCHANGED <<runVars, trafficVars, phase, expired, interrupted, remaining, call, file,
                 job, alive, serving, streams, finalized, closed>>

(* The run's context: a signal, or the end of the controller.              *)
Interrupt ==
  /\ ~interrupted /\ phase \notin {"done", "failed"}
  /\ interrupted' = TRUE
  /\ UNCHANGED <<runVars, peerVars, trafficVars, phase, expired, remaining, call, file, job>>

(* The timer of the current phase's context.                               *)
Expire ==
  /\ phase \in FanOuts /\ ~expired
  /\ expired' = TRUE
  /\ UNCHANGED <<runVars, peerVars, trafficVars, phase, interrupted, remaining, call, file, job>>

-----------------------------------------------------------------------------
(* executeExperiment.  Phase p begins, with a context of its own.          *)
Begin(p) ==
  /\ phase' = p /\ expired' = FALSE
  /\ call' = [n \in Nodes |-> "waiting"]

Fail == phase' = "failed" /\ UNCHANGED <<expired, call>>

Returned == \A n \in Addressed : call[n] \in {"ok", "error"}
AllOk == \A n \in Addressed : call[n] = "ok"

(* waitReady: another round for the peers that have not answered yet.      *)
ReadyRound ==
  /\ phase = "ready" /\ Returned
  /\ remaining' = {n \in remaining : call[n] # "ok"}
  /\ IF remaining' = {} THEN Begin("connect")
     ELSE call' = [n \in Nodes |-> "waiting"] /\ UNCHANGED <<phase, expired>>
  /\ UNCHANGED <<runVars, peerVars, trafficVars, interrupted, file, job>>

(* waitTopology: everyone is asked again until all agree in one round.     *)
TopologyRound ==
  /\ phase = "topology" /\ Returned
  /\ IF AllOk THEN Begin("prepare")
     ELSE call' = [n \in Nodes |-> "waiting"] /\ UNCHANGED <<phase, expired>>
  /\ UNCHANGED <<runVars, peerVars, trafficVars, interrupted, remaining, file, job>>

(* Bug: between two rounds only the run's context is looked at.            *)
WaitFailsBug ==
  /\ phase \in {"ready", "topology"} /\ Returned /\ ~AllOk /\ interrupted
  /\ Fail
  /\ UNCHANGED <<runVars, peerVars, trafficVars, interrupted, remaining, file, job>>

(* Between two rounds the select sees the context; when the ticker has     *)
(* fired as well, either may be taken.                                     *)
WaitFails ==
  /\ phase \in {"ready", "topology"} /\ Returned /\ ~AllOk /\ Expired
  /\ Fail
  /\ UNCHANGED <<runVars, peerVars, trafficVars, interrupted, remaining, file, job>>

After ==
  [connect |-> "topology", prepare |-> "warmup",
   finalize |-> IF download THEN "download" ELSE "aggregate", download |-> "aggregate"]

(* Bug: the answers are waited for but their errors are not joined.        *)
PhaseEndsBug ==
  /\ phase \in DOMAIN After /\ Returned
  /\ Begin(After[phase])
  /\ UNCHANGED <<runVars, peerVars, trafficVars, interrupted, remaining, file, job>>

(* connectAll, prepareAll, finalizeAll, downloadResults: one error fails   *)
(* the run, but only when every call has returned.                         *)
PhaseEnds ==
  /\ phase \in DOMAIN After /\ Returned
  /\ IF AllOk THEN Begin(After[phase]) ELSE Fail
  /\ UNCHANGED <<runVars, peerVars, trafficVars, interrupted, remaining, file, job>>

(* buildTrafficPlan: a random source is drawn for each message.            *)
Plans ==
  {p \in [Entries -> UNION {[1..Traffics[t].count -> Nodes] : t \in Entries}] :
     \A t \in Entries :
       /\ DOMAIN p[t] = 1..Traffics[t].count
       /\ Traffics[t].source # AnyNode => \A i \in DOMAIN p[t] : p[t][i] = Traffics[t].source}

(* writeTrafficPlan cannot create or write its file.                       *)
PlanFails == phase' = "failed" /\ UNCHANGED <<plan, schedule>>

(* The warm-up ends: the plan is written and the goroutines start.         *)
StartTraffic ==
  /\ phase = "warmup"
  /\ \/ /\ ~interrupted
        /\ plan' \in Plans
        /\ schedule' = [t \in Entries |-> [next |-> 1, at |-> "asleep"]]
        /\ phase' = "traffic"
     \/ PlanFails
  /\ UNCHANGED <<peerVars, trafficVars, settings, errors, errorsClosed, expired, interrupted,
                 remaining, call, file, job>>

(* The goroutine of entry t sends its next request.  In an interrupted run *)
(* it ends: silently out of its sleep, with an error out of the request.   *)
Request(t) ==
  /\ schedule[t].at = "asleep"
  /\ schedule' = [schedule EXCEPT ![t].at = IF interrupted THEN "ended" ELSE "asked"]
  /\ \/ UNCHANGED errors
     \/ interrupted /\ errors' = errors \cup {t}
  /\ UNCHANGED <<peerVars, trafficVars, settings, plan, errorsClosed, phase, expired,
                 interrupted, remaining, call, file, job>>

(* handleInject: the messages are made after the answer, by a goroutine.   *)
HandleInject(t) ==
  /\ schedule[t].at = "asked"
  /\ LET source == plan[t][schedule[t].next] IN
     /\ source \in serving
     /\ accepted' = [accepted EXCEPT ![source] = @ + PerRequest(t)]
     /\ owed' = [owed EXCEPT ![source] = @ + PerRequest(t)]
  /\ schedule' = [schedule EXCEPT ![t].at = "accepted"]
  /\ UNCHANGED <<peerVars, settings, plan, errors, errorsClosed, phase, expired, interrupted,
                 remaining, call, file, job, recorded>>

Injected(t) ==
  /\ schedule[t].at = "accepted"
  /\ schedule' = [schedule EXCEPT ![t] =
       [next |-> @.next + 1, at |-> IF @.next = Requests(t) THEN "ended" ELSE "asleep"]]
  /\ UNCHANGED <<peerVars, trafficVars, settings, plan, errors, errorsClosed, phase, expired,
                 interrupted, remaining, call, file, job>>

(* The request or its answer is lost or late: the goroutine reports it and *)
(* ends.  The channel has room for an error of every message.              *)
InjectFails(t) ==
  /\ schedule[t].at \in {"asked", "accepted"}
  /\ schedule' = [schedule EXCEPT ![t].at = "ended"]
  /\ errors' = errors \cup {t}
  /\ UNCHANGED <<peerVars, trafficVars, settings, plan, errorsClosed, phase, expired,
                 interrupted, remaining, call, file, job>>

(* Bug: the duration alone ends the phase.                                 *)
ScheduleDoneBug == TRUE

(* scheduleWG.Wait.                                                        *)
ScheduleDone == \A t \in Entries : schedule[t].at = "ended"

(* The duration is over and every goroutine has returned, or the run was   *)
(* interrupted while it lasted.                                            *)
TrafficEnds ==
  /\ phase = "traffic"
  /\ \/ /\ ScheduleDone
        /\ errorsClosed' = TRUE
        /\ IF errors = {} THEN Begin("finalize") ELSE Fail
     \/ interrupted /\ Fail /\ UNCHANGED errorsClosed
  /\ UNCHANGED <<peerVars, trafficVars, settings, plan, schedule, errors, interrupted,
                 remaining, file, job>>

(* metrics.Aggregate (module Aggregate); files may fail to open or parse.  *)
RunAggregate ==
  /\ phase = "aggregate"
  /\ phase' \in {"done", "failed"}
  /\ UNCHANGED <<runVars, peerVars, trafficVars, expired, interrupted, remaining, call, file, job>>

-----------------------------------------------------------------------------
Call(n) == Ask(n) \/ Skip(n) \/ GiveUp(n)

Handle(n) ==
  \/ HandleHealth(n) \/ HandleStatus(n) \/ Dial(n) \/ OpenStream(n) \/ Tried(n)
  \/ Cancelled(n) \/ StopRecording(n) \/ CloseFile(n) \/ HandleFinalize(n)
  \/ HandleResults(n) \/ Inject(n)

Schedule(t) == Request(t) \/ HandleInject(t) \/ Injected(t) \/ InjectFails(t)

Control ==
  ReadyRound \/ TopologyRound \/ PhaseEnds \/ StartTraffic \/ TrafficEnds \/ RunAggregate

Next ==
  \/ \E n \in Nodes : Call(n) \/ Handle(n) \/ Serve(n) \/ Die(n)
  \/ \E t \in Entries : Schedule(t)
  \/ \E e \in Edges : Disconnect(e)
  \/ Control \/ WaitFails \/ Expire \/ Interrupt

(* Goroutines are scheduled, timers fire, every call ends by its own limit *)
(* at the latest, and a select that keeps finding two channels ready takes *)
(* each of them in the end.  No peer has to come up, stay up or answer.    *)
Fairness ==
  /\ \A n \in Nodes : WF_vars(Call(n))
  /\ \A t \in Entries : WF_vars(Schedule(t))
  /\ WF_vars(Control) /\ WF_vars(Expire) /\ SF_vars(WaitFails)

Spec == Init /\ [][Next]_vars /\ Fairness

-----------------------------------------------------------------------------
Ops == FanOuts \cup {"none"}
Stations == {"off", "asleep", "asked", "accepted", "ended"}

TypeOK ==
  /\ download \in BOOLEAN /\ parallelism \in Parallelisms
  /\ expired \in BOOLEAN /\ interrupted \in BOOLEAN
  /\ phase \in FanOuts \cup {"warmup", "traffic", "aggregate", "done", "failed"}
  /\ remaining \subseteq Nodes
  /\ call \in [Nodes -> {"waiting", "asked", "ok", "error"}]
  /\ file \in [Nodes -> Int]
  /\ plan \in [Entries -> Seq(Nodes)]
  /\ schedule \in [Entries -> [next : Nat \ {0}, at : Stations]]
  /\ errors \subseteq Entries /\ errorsClosed \in BOOLEAN
  /\ serving \subseteq alive /\ alive \subseteq Nodes
  /\ connected \subseteq Edges
  /\ streams \in [Nodes -> SUBSET Nodes]
  /\ job \in [Nodes -> [op : Ops, todo : SUBSET Nodes, failed : BOOLEAN]]
  /\ accepted \in [Nodes -> Nat] /\ owed \in [Nodes -> Nat] /\ recorded \in [Nodes -> Nat]
  /\ finalized \in [Nodes -> BOOLEAN] /\ closed \in [Nodes -> BOOLEAN]
  /\ faults \in 0..MaxFaults

(* Messages the plan asks of node n.                                       *)
Planned(n) ==
  Cardinality({x \in UNION {{t} \X DOMAIN plan[t] : t \in Entries} : plan[x[1]][x[2]] = n})

(* A run that reports success has a complete result whatever was lost,     *)
(* late or interrupted on the way: every planned message was accepted by   *)
(* its source exactly once, every peer has closed its file, and a fetched  *)
(* file holds all that its peer has recorded, to the end.                  *)
SuccessIsComplete ==
  phase = "done" =>
    \A n \in Nodes :
      /\ accepted[n] = Planned(n)
      /\ closed[n]
      /\ download => file[n] = recorded[n]

(* No message is injected before every peer has opened a stream to each of *)
(* its neighbors, in both directions of every configured edge.             *)
OverlayBeforeTraffic ==
  (\E n \in Nodes : accepted[n] > 0) => \A n \in Nodes : streams[n] = Neighbors(n)

(* When the first peer stops recording no goroutine of the schedule is     *)
(* left that could still inject, or send to the closed error channel, and  *)
(* none has failed: a failing run is not finalized.                        *)
TrafficThenFinalize ==
  errorsClosed \/ (\E n \in Nodes : finalized[n]) =>
    /\ \A t \in Entries : schedule[t].at = "ended"
    /\ (\E n \in Nodes : finalized[n]) => errors = {}

(* Every run ends, with peers that never come up, hang, die or lose their  *)
(* connections, and with calls that are lost: nothing waits for ever.      *)
RunEnds == <>(phase \in {"done", "failed"})
=============================================================================
