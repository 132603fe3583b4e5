--------------------------- MODULE ExperimentProofs ---------------------------
(***************************************************************************)
(* What an experiment keeps for any number of peers, any topology, any     *)
(* traffic and any number of calls at a time, whatever is lost, late, cut  *)
(* off or interrupted: the overlay stands before the first message, the    *)
(* traffic is over before the first peer stops recording, and a run that   *)
(* reports success has a complete result.                                  *)
(***************************************************************************)
EXTENDS Experiment, FiniteSetTheorems, TLAPS

USE DEF settings, runVars, peerVars, trafficVars

Phases == FanOuts \cup {"warmup", "traffic", "aggregate", "done", "failed"}
Calls == {"waiting", "asked", "ok", "error"}
Jobs == [op : Ops, todo : SUBSET Nodes, failed : BOOLEAN]

-----------------------------------------------------------------------------
(* What the constants are.                                                 *)
LEMMA EntryFacts ==
  /\ Entries = 1..Len(Traffics) /\ Len(Traffics) \in Nat
  /\ \A t \in Entries : /\ Traffics[t].source \in Nodes \cup {AnyNode}
                        /\ Traffics[t].count \in Nat /\ Traffics[t].count > 0
  /\ AnyNode \notin Nodes
<1>1. Traffics \in Seq([source : Nodes \cup {AnyNode}, count : Nat \ {0}])
      /\ AnyNode \notin Nodes
  BY ExperimentAssumption, Zenon DEF ExperimentAssumption
<1> DEFINE E == [source : Nodes \cup {AnyNode}, count : Nat \ {0}]
<1>2. \A e \in E : e.source \in Nodes \cup {AnyNode} /\ e.count \in Nat /\ e.count > 0
  OBVIOUS
<1>3. Traffics \in Seq(E)
  BY <1>1
<1> HIDE DEF E
<1>4. DOMAIN Traffics = 1..Len(Traffics) /\ Len(Traffics) \in Nat
      /\ \A t \in 1..Len(Traffics) : Traffics[t] \in E
  BY <1>3
<1> QED BY <1>1, <1>2, <1>4 DEF Entries

LEMMA RequestFacts ==
  ASSUME NEW t \in Entries
  PROVE  /\ Requests(t) \in Nat /\ Requests(t) > 0
         /\ PerRequest(t) \in Nat /\ PerRequest(t) > 0
BY EntryFacts DEF Requests, PerRequest

LEMMA NodeFacts ==
  /\ Nodes \subseteq Nat /\ Nodes # {} /\ IsFiniteSet(Nodes)
  /\ \A n \in Nodes : Neighbors(n) \subseteq Nodes
BY ExperimentAssumption, Zenon DEF ExperimentAssumption, Neighbors

LEMMA BoundFacts == MaxFaults \in Nat
BY ExperimentAssumption, Zenon DEF ExperimentAssumption

LEMMA PhaseFacts ==
  /\ FanOuts = {"ready", "connect", "topology", "prepare", "finalize", "download"}
  /\ DOMAIN After = {"connect", "prepare", "finalize", "download"}
  /\ After["connect"] = "topology" /\ After["prepare"] = "warmup"
  /\ After["finalize"] = (IF download THEN "download" ELSE "aggregate")
  /\ After["download"] = "aggregate"
BY DEF FanOuts, After

LEMMA SequenceOfNodes ==
  ASSUME NEW c \in Nat, NEW f \in [1..c -> Nodes] PROVE f \in Seq(Nodes)
OBVIOUS

(* A plan gives every entry a source for each of its messages.             *)
LEMMA PlanFacts ==
  ASSUME NEW p \in Plans
  PROVE  /\ p \in [Entries -> Seq(Nodes)]
         /\ \A t \in Entries :
              /\ p[t] \in [1..Traffics[t].count -> Nodes]
              /\ Traffics[t].source # AnyNode =>
                   \A i \in 1..Traffics[t].count : p[t][i] = Traffics[t].source
<1>1. /\ p \in [Entries -> UNION {[1..Traffics[t].count -> Nodes] : t \in Entries}]
      /\ \A t \in Entries :
           /\ DOMAIN p[t] = 1..Traffics[t].count
           /\ Traffics[t].source # AnyNode =>
                \A i \in DOMAIN p[t] : p[t][i] = Traffics[t].source
  BY DEF Plans
<1>2. ASSUME NEW t \in Entries
      PROVE  p[t] \in [1..Traffics[t].count -> Nodes] /\ p[t] \in Seq(Nodes)
  <2>1. p[t] \in UNION {[1..Traffics[u].count -> Nodes] : u \in Entries}
    BY <1>1
  <2>2. PICK u \in Entries : p[t] \in [1..Traffics[u].count -> Nodes]
    BY <2>1
  <2>3. p[t] \in [1..Traffics[t].count -> Nodes]
    BY <1>1, <2>2
  <2>4. Traffics[t].count \in Nat
    BY EntryFacts
  <2> QED BY <2>3, <2>4, SequenceOfNodes
<1> QED BY <1>1, <1>2

-----------------------------------------------------------------------------
(* Types.                                                                  *)
LEMMA TypeInit == Init => TypeOK
<1> SUFFICES ASSUME Init PROVE TypeOK
  OBVIOUS
<1>1. NoJob \in Jobs
  BY DEF NoJob, Jobs, Ops
<1>2. plan \in [Entries -> Seq(Nodes)]
  BY DEF Init
<1>3. schedule \in [Entries -> [next : Nat \ {0}, at : Stations]]
  BY DEF Init, Stations
<1>4. job \in [Nodes -> Jobs] /\ faults \in 0..MaxFaults
  BY <1>1, BoundFacts DEF Init
<1>5. /\ call \in [Nodes -> {"waiting", "asked", "ok", "error"}] /\ file \in [Nodes -> Int]
      /\ streams \in [Nodes -> SUBSET Nodes]
      /\ accepted \in [Nodes -> Nat] /\ owed \in [Nodes -> Nat] /\ recorded \in [Nodes -> Nat]
      /\ finalized \in [Nodes -> BOOLEAN] /\ closed \in [Nodes -> BOOLEAN]
  BY DEF Init
<1>6. /\ phase \in FanOuts /\ remaining \subseteq Nodes /\ errors = {} /\ connected = {}
      /\ serving = {} /\ alive = Nodes /\ download \in BOOLEAN /\ parallelism \in Parallelisms
      /\ expired = FALSE /\ interrupted = FALSE /\ errorsClosed = FALSE
  BY DEF Init, FanOuts
<1> QED BY <1>2, <1>3, <1>4, <1>5, <1>6 DEF TypeOK, Jobs

LEMMA JobForIsJob == ASSUME NEW n \in Nodes, phase \in FanOuts PROVE JobFor(n) \in Jobs
<1>1. Neighbors(n) \subseteq Nodes
  BY NodeFacts
<1>2. CASE phase = "connect"
  BY <1>1, <1>2 DEF JobFor, Jobs, Ops
<1>3. CASE phase = "prepare"
  BY <1>1, <1>3 DEF JobFor, Jobs, Ops
<1>4. CASE phase \notin {"connect", "prepare"}
  BY <1>4 DEF JobFor, Jobs, Ops
<1> QED BY <1>2, <1>3, <1>4

LEMMA ScheduleMoves ==
  ASSUME TypeOK, NEW t \in Entries, NEW s \in Stations,
         schedule' = [schedule EXCEPT ![t].at = s]
  PROVE  schedule' \in [Entries -> [next : Nat \ {0}, at : Stations]]
<1> DEFINE R == [next : Nat \ {0}, at : Stations]
           r == [schedule[t] EXCEPT !.at = s]
<1>1. schedule \in [Entries -> R]
  BY DEF TypeOK
<1>2. schedule[t].next \in Nat \ {0} /\ r \in R
  BY <1>1
<1>3. schedule' = [schedule EXCEPT ![t] = r]
  OBVIOUS
<1> HIDE DEF r, R
<1>4. schedule' \in [Entries -> R]
  BY <1>1, <1>2, <1>3
<1> QED BY <1>4 DEF R

LEMMA TypeStep == ASSUME TypeOK, [Next]_vars PROVE TypeOK'
<1> USE DEF Jobs
<1>n. NoJob \in Jobs
  BY DEF NoJob, Ops
<1>j. job \in [Nodes -> Jobs] /\ streams \in [Nodes -> SUBSET Nodes]
  BY DEF TypeOK
<1>w. ASSUME NEW n \in Nodes, NEW m
      PROVE  /\ [job EXCEPT ![n].todo = @ \ {m}] \in [Nodes -> Jobs]
             /\ [job EXCEPT ![n].todo = @ \ {m}, ![n].failed = TRUE] \in [Nodes -> Jobs]
  <2>1. /\ job[n] \in Jobs /\ job[n].op \in Ops /\ job[n].failed \in BOOLEAN
        /\ (job[n].todo \ {m}) \in SUBSET Nodes
    BY <1>j
  <2> DEFINE j == [job EXCEPT ![n].todo = @ \ {m}]
  <2>2. j \in [Nodes -> Jobs] /\ j[n] \in Jobs
    BY <1>j, <2>1
  <2> HIDE DEF j
  <2>3. [j EXCEPT ![n].failed = TRUE] \in [Nodes -> Jobs]
    BY <2>2
  <2> QED BY <2>2, <2>3 DEF j
<1>1. ASSUME NEW n \in Nodes, Call(n) PROVE TypeOK'
  <2>1. CASE Ask(n)
    <3>1. JobFor(n) \in Jobs
      BY <2>1, JobForIsJob DEF Ask
    <3>2. job' \in [Nodes -> Jobs]
      BY <1>j, <2>1, <3>1 DEF Ask
    <3> QED BY <2>1, <3>2 DEF Ask, TypeOK
  <2>2. CASE Skip(n)
    BY <2>2 DEF Skip, TypeOK
  <2>3. CASE GiveUp(n)
    BY <1>n, <2>3 DEF GiveUp, TypeOK
  <2> QED BY <1>1, <2>1, <2>2, <2>3 DEF Call
<1>2. ASSUME NEW n \in Nodes, Handle(n) PROVE TypeOK'
  <2>a. ASSUME NEW r \in {"ok", "error"}, Answer(n, r)
        PROVE  call' \in [Nodes -> Calls] /\ job' \in [Nodes -> Jobs]
    BY <1>n, <2>a DEF Answer, TypeOK, Calls
  <2>1. CASE HandleHealth(n) \/ HandleStatus(n) \/ Tried(n) \/ HandleFinalize(n)
    BY <2>1, <2>a DEF HandleHealth, HandleStatus, Tried, HandleFinalize, TypeOK, Calls
  <2>2. CASE Dial(n)
    <3>1. PICK m \in job[n].todo :
            \/ /\ Reach(n, m)
               /\ connected' = connected \cup {{n, m}}
               /\ job' = [job EXCEPT ![n].todo = @ \ {m}]
            \/ /\ job' = [job EXCEPT ![n].todo = @ \ {m}, ![n].failed = TRUE]
               /\ UNCHANGED connected
      BY <2>2 DEF Dial
    <3>2. connected' \subseteq Edges
      BY <3>1 DEF TypeOK, Reach
    <3>3. job' \in [Nodes -> Jobs]
      <4>1. /\ [job EXCEPT ![n].todo = @ \ {m}] \in [Nodes -> Jobs]
            /\ [job EXCEPT ![n].todo = @ \ {m}, ![n].failed = TRUE] \in [Nodes -> Jobs]
        BY <1>w
      <4> QED BY <3>1, <4>1, Zenon
    <3> QED BY <2>2, <3>2, <3>3 DEF Dial, TypeOK
  <2>3. CASE OpenStream(n)
    <3>1. PICK m \in job[n].todo :
            \/ /\ Reach(n, m)
               /\ connected' = connected \cup {{n, m}}
               /\ streams' = [streams EXCEPT ![n] = @ \cup {m}]
               /\ job' = [job EXCEPT ![n].todo = @ \ {m}]
            \/ /\ job' = [job EXCEPT ![n].todo = @ \ {m}, ![n].failed = TRUE]
               /\ UNCHANGED <<connected, streams>>
      BY <2>3 DEF OpenStream
    <3>2. connected' \subseteq Edges /\ m \in Nodes
      BY <3>1 DEF TypeOK, Reach
    <3>3. job' \in [Nodes -> Jobs]
      <4>1. /\ [job EXCEPT ![n].todo = @ \ {m}] \in [Nodes -> Jobs]
            /\ [job EXCEPT ![n].todo = @ \ {m}, ![n].failed = TRUE] \in [Nodes -> Jobs]
        BY <1>w
      <4> QED BY <3>1, <4>1, Zenon
    <3>4. streams' \in [Nodes -> SUBSET Nodes]
      BY <1>j, <3>1, <3>2
    <3> QED BY <2>3, <3>2, <3>3, <3>4 DEF OpenStream, TypeOK
  <2>4. CASE Cancelled(n) \/ StopRecording(n)
    <3>1. job' \in [Nodes -> Jobs]
      BY <1>j, <1>n, <2>4 DEF Cancelled, StopRecording
    <3> QED BY <2>4, <3>1 DEF Cancelled, StopRecording, TypeOK
  <2>5. CASE CloseFile(n)
    BY <2>5, <2>a DEF CloseFile, TypeOK, Calls
  <2>6. CASE HandleResults(n)
    <3>1. file' \in [Nodes -> Int]
      BY <2>6 DEF HandleResults, Fetch, TypeOK
    <3> QED BY <2>6, <2>a, <3>1 DEF HandleResults, TypeOK, Calls
  <2>7. CASE Inject(n)
    BY <2>7 DEF Inject, TypeOK
  <2> QED BY <1>2, <2>1, <2>2, <2>3, <2>4, <2>5, <2>6, <2>7 DEF Handle
<1>3. ASSUME NEW n \in Nodes, Serve(n) \/ Die(n) PROVE TypeOK'
  <2>1. CASE Serve(n)
    BY <2>1 DEF Serve, TypeOK
  <2>2. CASE Die(n)
    BY <1>n, <2>2, BoundFacts DEF Die, TypeOK
  <2> QED BY <1>3, <2>1, <2>2
<1>4. ASSUME NEW t \in Entries, Schedule(t) PROVE TypeOK'
  <2>1. CASE Request(t)
    <3>1. schedule' \in [Entries -> [next : Nat \ {0}, at : Stations]]
      <4>1. PICK s \in Stations : schedule' = [schedule EXCEPT ![t].at = s]
        BY <2>1 DEF Request, Stations
      <4> QED BY <4>1, ScheduleMoves
    <3>2. errors' \subseteq Entries
      BY <2>1 DEF Request, TypeOK
    <3> QED BY <2>1, <3>1, <3>2 DEF Request, TypeOK
  <2>2. CASE HandleInject(t)
    <3> DEFINE source == plan[t][schedule[t].next]
    <3>1. source \in Nodes /\ PerRequest(t) \in Nat
      BY <2>2, RequestFacts DEF HandleInject, TypeOK
    <3>2. /\ accepted' = [accepted EXCEPT ![source] = @ + PerRequest(t)]
          /\ owed' = [owed EXCEPT ![source] = @ + PerRequest(t)]
      BY <2>2 DEF HandleInject
    <3> HIDE DEF source
    <3>3. accepted' \in [Nodes -> Nat] /\ owed' \in [Nodes -> Nat]
      BY <3>1, <3>2 DEF TypeOK
    <3>4. schedule' \in [Entries -> [next : Nat \ {0}, at : Stations]]
      <4>1. schedule' = [schedule EXCEPT ![t].at = "accepted"] /\ "accepted" \in Stations
        BY <2>2 DEF HandleInject, Stations
      <4> QED BY <4>1, ScheduleMoves
    <3>5. UNCHANGED <<peerVars, settings, plan, errors, errorsClosed, phase, expired,
                      interrupted, remaining, call, file, job, recorded>>
      BY <2>2 DEF HandleInject
    <3> QED BY <3>3, <3>4, <3>5 DEF peerVars, settings, TypeOK
  <2>3. CASE Injected(t)
    <3>1. schedule' \in [Entries -> [next : Nat \ {0}, at : Stations]]
      BY <2>3 DEF Injected, TypeOK, Stations
    <3> QED BY <2>3, <3>1 DEF Injected, TypeOK
  <2>4. CASE InjectFails(t)
    <3>1. schedule' = [schedule EXCEPT ![t].at = "ended"] /\ "ended" \in Stations
      BY <2>4 DEF InjectFails, Stations
    <3>2. schedule' \in [Entries -> [next : Nat \ {0}, at : Stations]]
      BY <3>1, ScheduleMoves
    <3> QED BY <2>4, <3>2 DEF InjectFails, TypeOK
  <2> QED BY <1>4, <2>1, <2>2, <2>3, <2>4 DEF Schedule
<1>5. CASE Control \/ WaitFails
  <2>1. CASE ReadyRound \/ TopologyRound \/ WaitFails
    BY <2>1 DEF ReadyRound, TopologyRound, WaitFails, Begin, Fail, TypeOK, FanOuts
  <2>2. CASE PhaseEnds
    <3>1. phase' \in Phases
      BY <2>2, PhaseFacts DEF PhaseEnds, Begin, Fail, TypeOK, Phases
    <3> QED BY <2>2, <3>1 DEF PhaseEnds, Begin, Fail, TypeOK, Phases
  <2>3. CASE StartTraffic
    <3>1. plan' \in [Entries -> Seq(Nodes)]
      BY <2>3, PlanFacts DEF StartTraffic, PlanFails, TypeOK
    <3>2. schedule' \in [Entries -> [next : Nat \ {0}, at : Stations]]
      BY <2>3 DEF StartTraffic, PlanFails, TypeOK, Stations
    <3> QED BY <2>3, <3>1, <3>2 DEF StartTraffic, PlanFails, TypeOK
  <2>4. CASE TrafficEnds \/ RunAggregate
    BY <2>4 DEF TrafficEnds, RunAggregate, Begin, Fail, TypeOK, FanOuts
  <2> QED BY <1>5, <2>1, <2>2, <2>3, <2>4 DEF Control
<1>6. CASE Expire \/ Interrupt
  BY <1>6 DEF Expire, Interrupt, TypeOK
<1>7. ASSUME NEW e \in Edges, Disconnect(e) PROVE TypeOK'
  BY <1>7, BoundFacts DEF Disconnect, TypeOK
<1>8. CASE UNCHANGED vars
  BY <1>8 DEF vars, TypeOK
<1> QED BY <1>1, <1>2, <1>3, <1>4, <1>5, <1>6, <1>7, <1>8 DEF Next

(* Every state of an experiment has its type.                              *)
THEOREM TypeCorrect == Spec => []TypeOK
BY TypeInit, TypeStep, PTL DEF Spec

-----------------------------------------------------------------------------
(* What a handler changes in its job, neighbor by neighbor.                *)
LEMMA NeighborDone ==
  ASSUME NEW f \in [Nodes -> Jobs], NEW n \in Nodes, NEW m,
         NEW g, g = [f EXCEPT ![n].todo = @ \ {m}]
  PROVE  /\ g[n].op = f[n].op /\ g[n].failed = f[n].failed
         /\ g[n].todo = f[n].todo \ {m}
         /\ \A k \in Nodes \ {n} : g[k] = f[k]
<1>1. f[n] \in Jobs
  OBVIOUS
<1> DEFINE r == [f[n] EXCEPT !.todo = f[n].todo \ {m}]
<1>2. r.op = f[n].op /\ r.failed = f[n].failed /\ r.todo = f[n].todo \ {m}
  BY <1>1 DEF Jobs
<1>3. g = [f EXCEPT ![n] = r]
  OBVIOUS
<1> HIDE DEF r
<1> QED BY <1>2, <1>3

LEMMA NeighborFailed ==
  ASSUME NEW f \in [Nodes -> Jobs], NEW n \in Nodes, NEW m,
         NEW g, g = [f EXCEPT ![n].todo = @ \ {m}, ![n].failed = TRUE]
  PROVE  /\ g[n].op = f[n].op /\ g[n].failed = TRUE
         /\ g[n].todo = f[n].todo \ {m}
         /\ \A k \in Nodes \ {n} : g[k] = f[k]
<1>1. f[n] \in Jobs
  OBVIOUS
<1> DEFINE r == [f[n] EXCEPT !.todo = f[n].todo \ {m}, !.failed = TRUE]
<1>2. r.op = f[n].op /\ r.failed = TRUE /\ r.todo = f[n].todo \ {m}
  BY <1>1 DEF Jobs
<1>3. g = [f EXCEPT ![n] = r]
  OBVIOUS
<1> HIDE DEF r
<1> QED BY <1>2, <1>3

-----------------------------------------------------------------------------
(* Calls and jobs.  The fan-outs whose handler is forgotten with the call. *)
Reads == {"ready", "topology", "download"}

(* A peer works for the current fan-out only, and for a call that waits    *)
(* for it or has given up on a handler that goes on.                       *)
JobFits(n) ==
  /\ phase \in FanOuts =>
       /\ job[n].op \in {"none", phase}
       /\ call[n] \in {"waiting", "ok"} => job[n].op = "none"
       /\ call[n] = "error" /\ phase \in Reads => job[n].op = "none"
  /\ phase \notin FanOuts \cup {"failed"} => job[n].op = "none"
  /\ phase = "ready" /\ n \notin remaining => call[n] = "waiting"

JobInv == \A n \in Nodes : JobFits(n)

LEMMA JobInit == Init => JobInv
BY DEF Init, JobInv, JobFits, NoJob, FanOuts

(* At the end of a round, and when every call was answered, no peer works  *)
(* for the controller any more.                                            *)
LEMMA NobodyWorks ==
  ASSUME TypeOK, JobInv,
         \/ phase \notin FanOuts \cup {"failed"}
         \/ phase \in FanOuts /\ AllOk
         \/ phase \in Reads /\ Returned
  PROVE  \A n \in Nodes : job[n].op = "none"
<1> SUFFICES ASSUME NEW n \in Nodes PROVE job[n].op = "none"
  OBVIOUS
<1>1. JobFits(n) /\ call[n] \in Calls
  BY DEF JobInv, TypeOK, Calls
<1>2. CASE phase \notin FanOuts \cup {"failed"}
  BY <1>1, <1>2 DEF JobFits
<1>3. CASE phase \in FanOuts /\ AllOk
  BY <1>1, <1>3 DEF JobFits, AllOk, Addressed
<1>4. CASE phase \in Reads /\ Returned
  BY <1>1, <1>4 DEF JobFits, Returned, Addressed, Reads, FanOuts
<1> QED BY <1>2, <1>3, <1>4

LEMMA JobStep == ASSUME TypeOK, JobInv, [Next]_vars PROVE JobInv'
<1>t. job \in [Nodes -> Jobs] /\ call \in [Nodes -> Calls]
  BY DEF TypeOK, Jobs, Calls
<1>j. \A n \in Nodes : JobFits(n)
  BY DEF JobInv
<1>1. ASSUME NEW n \in Nodes, Call(n) PROVE JobInv'
  <2> SUFFICES ASSUME NEW k \in Nodes PROVE JobFits(k)'
    BY DEF JobInv
  <2>1. UNCHANGED <<phase, remaining>> /\ (k # n => call'[k] = call[k] /\ job'[k] = job[k])
    BY <1>1, <1>t DEF Call, Ask, Skip, GiveUp
  <2>2. CASE k # n
    BY <1>j, <2>1, <2>2 DEF JobFits
  <2>3. CASE k = n /\ Ask(n)
    <3>1. phase \in FanOuts /\ call'[n] = "asked" /\ job'[n].op \in {job[n].op, phase}
      BY <1>t, <2>3 DEF Ask, JobFor
    <3>2. phase = "ready" => n \in remaining
      BY <2>3 DEF Ask, Addressed
    <3> QED BY <1>j, <2>1, <2>3, <3>1, <3>2 DEF JobFits
  <2>4. CASE k = n /\ Skip(n)
    <3>1. phase \in FanOuts /\ call[n] = "waiting" /\ call'[n] = "error" /\ job'[n] = job[n]
      BY <1>t, <2>4 DEF Skip
    <3>2. phase = "ready" => n \in remaining
      BY <2>4 DEF Skip, Addressed
    <3> QED BY <1>j, <2>1, <2>4, <3>1, <3>2 DEF JobFits
  <2>5. CASE k = n /\ GiveUp(n)
    <3>1. phase \in FanOuts /\ call[n] = "asked" /\ call'[n] = "error"
          /\ job'[n] = IF job[n].op \in Reads THEN NoJob ELSE job[n]
      BY <1>t, <2>5 DEF GiveUp, Reads
    <3>2. job'[n].op \in {"none", job[n].op} \ Reads
      BY <3>1 DEF NoJob, Reads
    <3> QED BY <1>j, <2>1, <2>5, <3>1, <3>2 DEF JobFits
  <2> QED BY <1>1, <2>2, <2>3, <2>4, <2>5 DEF Call
<1>2. ASSUME NEW n \in Nodes, Handle(n) PROVE JobInv'
  <2> SUFFICES ASSUME NEW k \in Nodes PROVE JobFits(k)'
    BY DEF JobInv
  <2>1. UNCHANGED <<phase, remaining>>
    BY <1>2 DEF Handle, HandleHealth, HandleStatus, Dial, OpenStream, Tried, Cancelled,
         StopRecording, CloseFile, HandleFinalize, HandleResults, Inject
  <2>2. ASSUME NEW r, Answer(n, r) PROVE JobFits(k)'
    <3>1. CASE k # n
      BY <1>j, <1>t, <2>1, <2>2, <3>1 DEF JobFits, Answer
    <3>2. CASE k = n
      <4>1. job'[n].op = "none" /\ (call'[n] = call[n] \/ call[n] = "asked")
        BY <1>t, <2>2 DEF Answer, NoJob
      <4> QED BY <1>j, <2>1, <3>2, <4>1 DEF JobFits
    <3> QED BY <3>1, <3>2
  <2>3. ASSUME UNCHANGED call, job'[k].op \in {job[k].op, "none"} PROVE JobFits(k)'
    BY <1>j, <2>1, <2>3 DEF JobFits
  <2>4. CASE HandleHealth(n) \/ HandleStatus(n) \/ Tried(n) \/ HandleFinalize(n)
    BY <2>2, <2>4 DEF HandleHealth, HandleStatus, Tried, HandleFinalize
  <2>5. CASE HandleResults(n)
    BY <2>2, <2>5 DEF HandleResults
  <2>6. CASE CloseFile(n)
    BY <2>2, <2>3, <2>6 DEF CloseFile
  <2>7. CASE Dial(n) \/ OpenStream(n)
    <3>1. UNCHANGED call /\ job'[k].op = job[k].op
      <4>1. PICK m : \/ job' = [job EXCEPT ![n].todo = @ \ {m}]
                      \/ job' = [job EXCEPT ![n].todo = @ \ {m}, ![n].failed = TRUE]
        BY <2>7 DEF Dial, OpenStream
      <4>2. CASE job' = [job EXCEPT ![n].todo = @ \ {m}]
        <5>1. job'[n].op = job[n].op /\ \A i \in Nodes \ {n} : job'[i] = job[i]
          BY <1>t, <4>2, NeighborDone
        <5> QED BY <2>7, <5>1 DEF Dial, OpenStream
      <4>3. CASE job' = [job EXCEPT ![n].todo = @ \ {m}, ![n].failed = TRUE]
        <5>1. job'[n].op = job[n].op /\ \A i \in Nodes \ {n} : job'[i] = job[i]
          BY <1>t, <4>3, NeighborFailed
        <5> QED BY <2>7, <5>1 DEF Dial, OpenStream
      <4> QED BY <4>1, <4>2, <4>3
    <3> QED BY <2>3, <3>1
  <2>8. CASE Cancelled(n)
    <3>1. UNCHANGED call /\ job'[k].op \in {job[k].op, "none"}
      BY <1>t, <2>8 DEF Cancelled, NoJob
    <3> QED BY <2>3, <3>1
  <2>9. CASE StopRecording(n) \/ Inject(n)
    BY <2>3, <2>9 DEF StopRecording, Inject
  <2> QED BY <1>2, <2>4, <2>5, <2>6, <2>7, <2>8, <2>9 DEF Handle
<1>3. ASSUME NEW n \in Nodes, Serve(n) \/ Die(n) PROVE JobInv'
  <2> SUFFICES ASSUME NEW k \in Nodes PROVE JobFits(k)'
    BY DEF JobInv
  <2>1. UNCHANGED <<phase, remaining, call>> /\ job'[k].op \in {job[k].op, "none"}
    BY <1>3, <1>t DEF Serve, Die, NoJob
  <2> QED BY <1>j, <2>1 DEF JobFits
<1>4. CASE Control \/ WaitFails
  <2>1. CASE UNCHANGED job /\ (\A n \in Nodes : job[n].op = "none")
             /\ (call' = [n \in Nodes |-> "waiting"] \/ phase' # "ready")
    BY <2>1 DEF JobInv, JobFits
  <2>2. CASE phase' = "failed"
    BY <2>2 DEF JobInv, JobFits, FanOuts
  <2>3. CASE ReadyRound \/ TopologyRound
    BY <2>1, <2>3, NobodyWorks DEF ReadyRound, TopologyRound, Begin, Reads
  <2>4. CASE PhaseEnds
    <3>1. phase \in FanOuts
      BY <2>4, PhaseFacts DEF PhaseEnds
    <3> QED BY <2>1, <2>2, <2>4, <3>1, NobodyWorks DEF PhaseEnds, Begin, Fail
  <2>5. CASE StartTraffic \/ TrafficEnds \/ RunAggregate
    <3>1. phase \notin FanOuts \cup {"failed"} /\ phase' # "ready"
      BY <2>5 DEF StartTraffic, PlanFails, TrafficEnds, RunAggregate, Begin, Fail, FanOuts
    <3> QED BY <2>1, <2>5, <3>1, NobodyWorks DEF StartTraffic, TrafficEnds, RunAggregate
  <2>6. CASE WaitFails
    BY <2>2, <2>6 DEF WaitFails, Fail
  <2> QED BY <1>4, <2>3, <2>4, <2>5, <2>6 DEF Control
<1>5. CASE UNCHANGED <<phase, remaining, call, job>>
  BY <1>5 DEF JobInv, JobFits
<1> QED
  BY <1>1, <1>2, <1>3, <1>4, <1>5
     DEF Next, Schedule, Request, HandleInject, Injected, InjectFails, Disconnect, Expire,
         Interrupt, vars

-----------------------------------------------------------------------------
(* The overlay.                                                            *)
Built == \A n \in Nodes : streams[n] = Neighbors(n)

(* A handler that has not failed has every neighbor opened or still to do. *)
StreamsFit(n) ==
  /\ streams[n] \subseteq Neighbors(n)
  /\ job[n].op = "prepare" =>
       /\ job[n].todo \subseteq Neighbors(n)
       /\ ~job[n].failed => Neighbors(n) \subseteq job[n].todo \cup streams[n]
  /\ phase = "prepare" /\ call[n] = "ok" => streams[n] = Neighbors(n)

Finishing == {"finalize", "download", "aggregate", "done"}

OverlayInv ==
  /\ \A n \in Nodes : StreamsFit(n)
  /\ phase \in {"warmup", "traffic"} \cup Finishing => Built
  /\ (\E t \in Entries : schedule[t].at # "off") => Built
  /\ (\E n \in Nodes : accepted[n] > 0) => Built

LEMMA OverlayInit == Init => OverlayInv
<1> SUFFICES ASSUME Init PROVE OverlayInv
  OBVIOUS
<1>1. ASSUME NEW n \in Nodes PROVE StreamsFit(n) /\ accepted[n] = 0
  BY DEF Init, StreamsFit, NoJob
<1>2. ASSUME NEW t \in Entries PROVE schedule[t].at = "off"
  BY DEF Init
<1>3. phase = "ready"
  BY DEF Init
<1> QED BY <1>1, <1>2, <1>3 DEF OverlayInv, Finishing

(* A step that opens no stream, accepts no message and starts no schedule  *)
(* keeps the overlay, when it is not the one that ends the preparation.    *)
LEMMA OverlayRests ==
  ASSUME OverlayInv, UNCHANGED <<streams, accepted, schedule>>,
         \A n \in Nodes : job'[n] = job[n] \/ job'[n].op # "prepare",
         \A n \in Nodes : phase' = "prepare" /\ call'[n] = "ok" =>
           phase = "prepare" /\ (call[n] = "ok" \/ streams[n] = Neighbors(n)),
         phase' \in {"warmup", "traffic"} \cup Finishing =>
           phase \in {"warmup", "traffic"} \cup Finishing \/ Built
  PROVE  OverlayInv'
<1>1. ASSUME NEW n \in Nodes PROVE StreamsFit(n)'
  BY DEF OverlayInv, StreamsFit, Neighbors
<1> QED BY <1>1 DEF OverlayInv, Built, Neighbors

LEMMA OverlayStep == ASSUME TypeOK, JobInv, OverlayInv, [Next]_vars PROVE OverlayInv'
<1>t. /\ job \in [Nodes -> Jobs] /\ call \in [Nodes -> Calls]
      /\ streams \in [Nodes -> SUBSET Nodes]
  BY DEF TypeOK, Jobs, Calls
<1>j. \A n \in Nodes : JobFits(n) /\ StreamsFit(n)
  BY DEF JobInv, OverlayInv
<1>1. ASSUME NEW n \in Nodes, Call(n) PROVE OverlayInv'
  <2>1. CASE Ask(n) /\ phase = "prepare"
    <3>1. /\ UNCHANGED <<phase, streams, accepted, schedule>>
          /\ \A k \in Nodes : call'[k] = "ok" => call[k] = "ok"
          /\ \A k \in Nodes \ {n} : job'[k] = job[k]
          /\ job'[n] \in {job[n], JobFor(n)}
      BY <1>t, <2>1 DEF Ask
    <3>2. JobFor(n).todo = Neighbors(n) \ streams[n]
      BY <2>1 DEF JobFor
    <3>3. ASSUME NEW k \in Nodes PROVE StreamsFit(k)'
      BY <1>j, <3>1, <3>2, <3>3 DEF StreamsFit, Neighbors
    <3> QED BY <3>1, <3>3 DEF OverlayInv, Built, Neighbors
  <2>2. CASE Ask(n) /\ phase # "prepare"
    <3>1. \A k \in Nodes : job'[k] = job[k] \/ job'[k].op # "prepare"
      BY <1>t, <2>2 DEF Ask, JobFor
    <3> QED BY <1>t, <2>2, <3>1, OverlayRests DEF Ask
  <2>3. CASE Skip(n)
    BY <1>t, <2>3, OverlayRests DEF Skip
  <2>4. CASE GiveUp(n)
    <3>1. \A k \in Nodes : job'[k] = job[k] \/ job'[k].op # "prepare"
      BY <1>t, <2>4 DEF GiveUp, NoJob
    <3> QED BY <1>t, <2>4, <3>1, OverlayRests DEF GiveUp
  <2> QED BY <1>1, <2>1, <2>2, <2>3, <2>4 DEF Call
<1>2. ASSUME NEW n \in Nodes, Handle(n) PROVE OverlayInv'
  <2>a. ASSUME NEW r, Answer(n, r), UNCHANGED <<phase, streams, accepted, schedule>>,
               phase = "prepare" /\ call[n] = "asked" /\ r = "ok" => streams[n] = Neighbors(n)
        PROVE  OverlayInv'
    <3>1. /\ \A k \in Nodes : job'[k] = job[k] \/ job'[k].op # "prepare"
          /\ \A k \in Nodes : call'[k] = "ok" =>
               call[k] = "ok" \/ (k = n /\ r = "ok" /\ call[n] = "asked")
      BY <1>t, <2>a DEF Answer, NoJob
    <3> QED BY <2>a, <3>1, OverlayRests
  <2>1. CASE HandleHealth(n) \/ HandleStatus(n) \/ HandleFinalize(n)
    <3>1. phase # "prepare"
      BY <1>j, <2>1 DEF HandleHealth, HandleStatus, HandleFinalize, JobFits, FanOuts
    <3> QED BY <2>1, <2>a, <3>1 DEF HandleHealth, HandleStatus, HandleFinalize
  <2>2. CASE HandleResults(n)
    <3>1. phase # "prepare"
      BY <1>j, <2>2 DEF HandleResults, JobFits, FanOuts
    <3> QED BY <2>2, <2>a, <3>1 DEF HandleResults
  <2>3. CASE Tried(n)
    <3>1. phase = "prepare" /\ ~job[n].failed => streams[n] = Neighbors(n)
      BY <1>j, <2>3 DEF Tried, JobFits, StreamsFit, FanOuts
    <3> QED BY <2>3, <2>a, <3>1 DEF Tried
  <2>4. CASE Dial(n)
    <3>1. job[n].op = "connect" /\ UNCHANGED <<phase, call, streams, accepted, schedule>>
      BY <2>4 DEF Dial
    <3>2. PICK m : \/ job' = [job EXCEPT ![n].todo = @ \ {m}]
                    \/ job' = [job EXCEPT ![n].todo = @ \ {m}, ![n].failed = TRUE]
      BY <2>4 DEF Dial
    <3>3. \A k \in Nodes : job'[k] = job[k] \/ job'[k].op # "prepare"
      <4>1. job'[n].op = job[n].op /\ \A k \in Nodes \ {n} : job'[k] = job[k]
        <5>1. CASE job' = [job EXCEPT ![n].todo = @ \ {m}]
          BY <1>t, <5>1, NeighborDone
        <5>2. CASE job' = [job EXCEPT ![n].todo = @ \ {m}, ![n].failed = TRUE]
          BY <1>t, <5>2, NeighborFailed
        <5> QED BY <3>2, <5>1, <5>2
      <4> QED BY <3>1, <4>1
    <3> QED BY <3>1, <3>3, OverlayRests
  <2>5. CASE OpenStream(n)
    <3>1. job[n].op = "prepare" /\ UNCHANGED <<phase, call, accepted, schedule>>
      BY <2>5 DEF OpenStream
    <3>2. phase \in {"prepare", "failed"} /\ (phase = "prepare" => call[n] # "ok")
      BY <1>j, <3>1 DEF JobFits, FanOuts
    <3>3. PICK m \in job[n].todo :
            \/ /\ streams' = [streams EXCEPT ![n] = @ \cup {m}]
               /\ job' = [job EXCEPT ![n].todo = @ \ {m}]
            \/ /\ UNCHANGED streams
               /\ job' = [job EXCEPT ![n].todo = @ \ {m}, ![n].failed = TRUE]
      BY <2>5 DEF OpenStream
    <3>4. /\ \A k \in Nodes \ {n} : job'[k] = job[k] /\ streams'[k] = streams[k]
          /\ job'[n].op = job[n].op /\ job'[n].todo = job[n].todo \ {m}
          /\ \/ streams'[n] = streams[n] \cup {m} /\ job'[n].failed = job[n].failed
             \/ streams'[n] = streams[n] /\ job'[n].failed
      <4>1. CASE streams' = [streams EXCEPT ![n] = @ \cup {m}]
                 /\ job' = [job EXCEPT ![n].todo = @ \ {m}]
        <5>1. /\ job'[n].op = job[n].op /\ job'[n].failed = job[n].failed
              /\ job'[n].todo = job[n].todo \ {m}
              /\ \A k \in Nodes \ {n} : job'[k] = job[k]
          BY <1>t, <4>1, NeighborDone
        <5> QED BY <1>t, <4>1, <5>1
      <4>2. CASE UNCHANGED streams
                 /\ job' = [job EXCEPT ![n].todo = @ \ {m}, ![n].failed = TRUE]
        <5>1. /\ job'[n].op = job[n].op /\ job'[n].failed = TRUE
              /\ job'[n].todo = job[n].todo \ {m}
              /\ \A k \in Nodes \ {n} : job'[k] = job[k]
          BY <1>t, <4>2, NeighborFailed
        <5> QED BY <4>2, <5>1
      <4> QED BY <3>3, <4>1, <4>2
    <3>5. m \in Neighbors(n) /\ StreamsFit(n)
      BY <1>j, <3>1, <3>3 DEF StreamsFit
    <3>6. ASSUME NEW k \in Nodes PROVE StreamsFit(k)'
      <4>1. CASE k = n
        BY <3>1, <3>2, <3>4, <3>5, <4>1 DEF StreamsFit, Neighbors
      <4>2. CASE k # n
        BY <1>j, <3>1, <3>4, <4>2 DEF StreamsFit, Neighbors
      <4> QED BY <4>1, <4>2
    <3>7. Built => Built'
      <4> SUFFICES ASSUME Built, NEW k \in Nodes PROVE streams'[k] = Neighbors(k)
        BY DEF Built, Neighbors
      <4> QED BY <3>4, <3>5 DEF Built
    <3> QED BY <3>1, <3>6, <3>7 DEF OverlayInv
  <2>6. CASE Cancelled(n)
    <3>1. \A k \in Nodes : job'[k] = job[k] \/ job'[k].op # "prepare"
      <4>1. job' = [job EXCEPT ![n] = NoJob] /\ NoJob.op = "none"
        BY <2>6 DEF Cancelled, NoJob
      <4> QED BY <1>t, <4>1
    <3> QED BY <2>6, <3>1, OverlayRests DEF Cancelled
  <2>7. CASE CloseFile(n)
    <3>1. phase # "prepare"
      BY <1>j, <2>7 DEF CloseFile, JobFits, FanOuts
    <3> QED BY <2>7, <2>a, <3>1, OverlayRests DEF CloseFile
  <2>8. CASE StopRecording(n) \/ Inject(n)
    BY <2>8, OverlayRests DEF StopRecording, Inject
  <2> QED BY <1>2, <2>1, <2>2, <2>3, <2>4, <2>5, <2>6, <2>7, <2>8 DEF Handle
<1>3. ASSUME NEW n \in Nodes, Serve(n) \/ Die(n) PROVE OverlayInv'
  <2>1. \A k \in Nodes : job'[k] = job[k] \/ job'[k].op # "prepare"
    <3>1. job' = job \/ job' = [job EXCEPT ![n] = NoJob]
      BY <1>3 DEF Serve, Die
    <3>2. NoJob.op = "none"
      BY DEF NoJob
    <3> QED BY <1>t, <3>1, <3>2
  <2> QED BY <1>3, <2>1, OverlayRests DEF Serve, Die
<1>4. ASSUME NEW t \in Entries, Schedule(t) PROVE OverlayInv'
  <2>1. /\ UNCHANGED <<streams, phase, call, job>>
        /\ schedule[t].at # "off"
        /\ \A u \in Entries \ {t} : schedule'[u] = schedule[u]
    <3>1. \A u \in Entries \ {t} : schedule'[u] = schedule[u]
      BY <1>4 DEF Schedule, Request, HandleInject, Injected, InjectFails, TypeOK
    <3> QED BY <1>4, <3>1 DEF Schedule, Request, HandleInject, Injected, InjectFails
  <2>2. Built
    BY <2>1 DEF OverlayInv
  <2>3. ASSUME NEW k \in Nodes PROVE StreamsFit(k)'
    BY <1>j, <2>1 DEF StreamsFit, Neighbors
  <2> QED BY <2>1, <2>2, <2>3 DEF OverlayInv, Built, Neighbors
<1>5. CASE Control \/ WaitFails
  <2>1. CASE ReadyRound \/ TopologyRound \/ WaitFails
    <3>1. phase' \in {"ready", "connect", "topology", "prepare", "failed"}
          /\ UNCHANGED <<streams, accepted, schedule, job>>
          /\ (phase' = "prepare" => \A n \in Nodes : call'[n] = "waiting")
      BY <2>1 DEF ReadyRound, TopologyRound, WaitFails, Begin, Fail
    <3> QED BY <3>1, OverlayRests DEF Finishing
  <2>2. CASE PhaseEnds
    <3>1. /\ UNCHANGED <<streams, accepted, schedule, job>>
          /\ \/ phase' = "failed"
             \/ phase = "connect" /\ phase' = "topology"
             \/ phase = "prepare" /\ AllOk
             \/ phase \in Finishing /\ phase' \in Finishing
      BY <2>2, PhaseFacts DEF PhaseEnds, Begin, Fail, Finishing
    <3>2. phase' # "prepare"
      BY <2>2, PhaseFacts DEF PhaseEnds, Begin, Fail
    <3>3. phase = "prepare" /\ AllOk => Built
      BY <1>j DEF AllOk, Addressed, StreamsFit, Built
    <3> QED BY <3>1, <3>2, <3>3, OverlayRests DEF Finishing
  <2>3. CASE StartTraffic
    <3>1. /\ UNCHANGED <<streams, accepted, call, job>>
          /\ phase' \in {"traffic", "failed"} /\ phase = "warmup"
      BY <2>3 DEF StartTraffic, PlanFails
    <3>2. Built
      BY <3>1 DEF OverlayInv
    <3>3. ASSUME NEW k \in Nodes PROVE StreamsFit(k)'
      BY <1>j, <3>1 DEF StreamsFit, Neighbors
    <3> QED BY <3>1, <3>2, <3>3 DEF OverlayInv, Built, Neighbors
  <2>4. CASE TrafficEnds \/ RunAggregate
    <3>1. UNCHANGED <<streams, accepted, schedule, job>> /\ phase' # "prepare"
          /\ phase \in {"traffic"} \cup Finishing
      BY <2>4 DEF TrafficEnds, RunAggregate, Begin, Fail, Finishing
    <3> QED BY <3>1, OverlayRests
  <2> QED BY <1>5, <2>1, <2>2, <2>3, <2>4 DEF Control
<1>6. CASE UNCHANGED <<phase, call, streams, accepted, schedule, job>>
  BY <1>6, OverlayRests
<1> QED
  BY <1>1, <1>2, <1>3, <1>4, <1>5, <1>6 DEF Next, Disconnect, Expire, Interrupt, vars

(* No message is injected before every peer has opened a stream to each of *)
(* its neighbors: a prepare that fails, is given up or answers late stops  *)
(* the run, and a handler that goes on after that cannot be mistaken for   *)
(* the one that is asked.                                                  *)
THEOREM TrafficNeedsOverlay == Spec => []OverlayBeforeTraffic
<1>1. OverlayInv => OverlayBeforeTraffic
  BY DEF OverlayInv, OverlayBeforeTraffic, Built
<1> QED
  BY <1>1, TypeCorrect, JobInit, JobStep, OverlayInit, OverlayStep, PTL DEF Spec

-----------------------------------------------------------------------------
(* The end of the traffic.                                                 *)
Quiet == (\A t \in Entries : schedule[t].at = "ended") /\ errors = {}

Before == {"ready", "connect", "topology", "prepare", "warmup"}

SealInv ==
  /\ phase \in Before => \A t \in Entries : schedule[t].at = "off"
  /\ errorsClosed => \A t \in Entries : schedule[t].at = "ended"
  /\ phase \in Finishing => Quiet
  /\ \A n \in Nodes : finalized[n] \/ job[n].op = "finalize" => Quiet

LEMMA SealInit == Init => SealInv
BY DEF Init, SealInv, Finishing, NoJob

LEMMA SealRests ==
  ASSUME SealInv, UNCHANGED <<schedule, errors, errorsClosed>>,
         phase' \in Before => phase \in Before,
         phase' \in Finishing => phase \in Finishing,
         \A n \in Nodes : finalized'[n] => finalized[n] \/ job[n].op = "finalize",
         \A n \in Nodes : job'[n].op = "finalize" =>
           job[n].op = "finalize" \/ phase = "finalize"
  PROVE  SealInv'
<1>1. "finalize" \in Finishing
  BY DEF Finishing
<1> QED BY <1>1 DEF SealInv, Quiet

LEMMA SealStep == ASSUME TypeOK, JobInv, SealInv, [Next]_vars PROVE SealInv'
<1>t. /\ job \in [Nodes -> Jobs] /\ finalized \in [Nodes -> BOOLEAN]
      /\ schedule \in [Entries -> [next : Nat \ {0}, at : Stations]]
  BY DEF TypeOK, Jobs
<1>n. NoJob.op = "none"
  BY DEF NoJob
<1>1. ASSUME NEW n \in Nodes, Call(n) PROVE SealInv'
  <2>1. UNCHANGED <<schedule, errors, errorsClosed, phase, finalized>>
    BY <1>1 DEF Call, Ask, Skip, GiveUp
  <2>2. \A k \in Nodes : job'[k].op \in {job[k].op, "none", phase}
    BY <1>1, <1>t, <1>n DEF Call, Ask, Skip, GiveUp, JobFor
  <2> QED BY <2>1, <2>2, SealRests
<1>2. ASSUME NEW n \in Nodes, Handle(n) PROVE SealInv'
  <2>1. UNCHANGED <<schedule, errors, errorsClosed, phase>>
    BY <1>2 DEF Handle, HandleHealth, HandleStatus, Dial, OpenStream, Tried, Cancelled,
         StopRecording, CloseFile, HandleFinalize, HandleResults, Inject
  <2>2. \A k \in Nodes : finalized'[k] => finalized[k] \/ job[k].op = "finalize"
    BY <1>2, <1>t DEF Handle, HandleHealth, HandleStatus, Dial, OpenStream, Tried, Cancelled,
         StopRecording, CloseFile, HandleFinalize, HandleResults, Inject
  <2>3. \A k \in Nodes : job'[k].op \in {job[k].op, "none"}
    <3>1. CASE job' = job \/ job' = [job EXCEPT ![n] = NoJob]
      BY <1>t, <1>n, <3>1
    <3>2. ASSUME NEW m, job' = [job EXCEPT ![n].todo = @ \ {m}]
          PROVE  \A k \in Nodes : job'[k].op = job[k].op
      <4>1. job'[n].op = job[n].op /\ \A k \in Nodes \ {n} : job'[k] = job[k]
        BY <1>t, <3>2, NeighborDone
      <4> QED BY <4>1
    <3>3. ASSUME NEW m, job' = [job EXCEPT ![n].todo = @ \ {m}, ![n].failed = TRUE]
          PROVE  \A k \in Nodes : job'[k].op = job[k].op
      <4>1. job'[n].op = job[n].op /\ \A k \in Nodes \ {n} : job'[k] = job[k]
        BY <1>t, <3>3, NeighborFailed
      <4> QED BY <4>1
    <3>4. CASE Dial(n) \/ OpenStream(n)
      BY <3>2, <3>3, <3>4 DEF Dial, OpenStream
    <3> QED
      BY <1>2, <3>1, <3>4
         DEF Handle, HandleHealth, HandleStatus, Tried, Cancelled, StopRecording, CloseFile,
             HandleFinalize, HandleResults, Inject, Answer
  <2> QED BY <2>1, <2>2, <2>3, SealRests
<1>3. ASSUME NEW n \in Nodes, Serve(n) \/ Die(n) PROVE SealInv'
  <2>1. job' = job \/ job' = [job EXCEPT ![n] = NoJob]
    BY <1>3 DEF Serve, Die
  <2> QED BY <1>3, <1>t, <1>n, <2>1, SealRests DEF Serve, Die
<1>4. ASSUME NEW t \in Entries, Schedule(t) PROVE SealInv'
  <2>1. /\ UNCHANGED <<errorsClosed, phase, finalized, job>>
        /\ schedule[t].at \notin {"off", "ended"}
    BY <1>4 DEF Schedule, Request, HandleInject, Injected, InjectFails
  <2>2. /\ ~errorsClosed /\ phase \notin Finishing \cup Before
        /\ \A n \in Nodes : ~finalized[n] /\ job[n].op # "finalize"
    BY <2>1 DEF SealInv, Quiet
  <2> QED BY <2>1, <2>2 DEF SealInv
<1>5. CASE Control \/ WaitFails
  <2>1. CASE ReadyRound \/ TopologyRound \/ WaitFails
    <3>1. /\ UNCHANGED <<schedule, errors, errorsClosed, finalized, job>>
          /\ phase \in Before /\ phase' \notin Finishing
      BY <2>1 DEF ReadyRound, TopologyRound, WaitFails, Begin, Fail, Before, Finishing
    <3> QED BY <3>1, SealRests
  <2>2. CASE PhaseEnds
    <3>1. UNCHANGED <<schedule, errors, errorsClosed, finalized, job>>
      BY <2>2 DEF PhaseEnds
    <3>2. phase' \in Before => phase \in Before
      BY <2>2, PhaseFacts DEF PhaseEnds, Begin, Fail, Before
    <3>3. phase' \in Finishing => phase \in Finishing
      BY <2>2, PhaseFacts DEF PhaseEnds, Begin, Fail, Finishing
    <3> QED BY <3>1, <3>2, <3>3, SealRests
  <2>3. CASE StartTraffic
    <3>1. /\ UNCHANGED <<errors, errorsClosed, finalized, job>>
          /\ phase = "warmup" /\ phase' \notin Before \cup Finishing
      BY <2>3 DEF StartTraffic, PlanFails, Before, Finishing
    <3>2. \A t \in Entries : schedule[t].at = "off"
      BY <3>1 DEF SealInv, Before
    <3>3. errorsClosed \/ (\E n \in Nodes : finalized[n] \/ job[n].op = "finalize") => Entries = {}
      BY <3>2 DEF SealInv, Quiet
    <3> QED BY <3>1, <3>3 DEF SealInv, Quiet
  <2>4. CASE TrafficEnds
    <3>1. /\ UNCHANGED <<schedule, errors, finalized, job>>
          /\ \/ phase' = "finalize" /\ Quiet
             \/ phase' = "failed"
          /\ errorsClosed' => errorsClosed \/ \A t \in Entries : schedule[t].at = "ended"
      BY <2>4 DEF TrafficEnds, Begin, Fail, ScheduleDone, Quiet
    <3> QED BY <3>1 DEF SealInv, Quiet, Before, Finishing
  <2>5. CASE RunAggregate
    <3>1. UNCHANGED <<schedule, errors, errorsClosed, finalized, job>>
          /\ phase \in Finishing /\ phase' \notin Before
      BY <2>5 DEF RunAggregate, Before, Finishing
    <3> QED BY <3>1, SealRests
  <2> QED BY <1>5, <2>1, <2>2, <2>3, <2>4, <2>5 DEF Control
<1>6. CASE UNCHANGED <<phase, schedule, errors, errorsClosed, finalized, job>>
  BY <1>6, SealRests
<1> QED
  BY <1>1, <1>2, <1>3, <1>4, <1>5, <1>6 DEF Next, Disconnect, Expire, Interrupt, vars

(* When the first peer stops recording, no goroutine of the schedule is    *)
(* left and none has failed, and the error channel is closed behind them.  *)
THEOREM FinalizeComesAfterTraffic == Spec => []TrafficThenFinalize
<1>1. SealInv => TrafficThenFinalize
  BY DEF SealInv, Quiet, TrafficThenFinalize
<1> QED BY <1>1, TypeCorrect, JobInit, JobStep, SealInit, SealStep, PTL DEF Spec

-----------------------------------------------------------------------------
(* The messages of the plan that the peers have accepted.                  *)
Made(t) ==
  CASE schedule[t].at = "ended" -> Traffics[t].count
    [] schedule[t].at = "accepted" ->
         IF Traffics[t].source = AnyNode THEN schedule[t].next ELSE Traffics[t].count
    [] OTHER -> IF Traffics[t].source = AnyNode THEN schedule[t].next - 1 ELSE 0

MadeSoFar == [t \in Entries |-> Made(t)]

(* The messages of the schedule; in plan p, when made[t] of every entry t  *)
(* are accepted, those that node n has accepted.                           *)
Cells == UNION {{t} \X (1..Traffics[t].count) : t \in Entries}

CellsOf(p, made, n) == {x \in Cells : x[2] <= made[x[1]] /\ p[x[1]][x[2]] = n}

(* What a goroutine of the schedule is at.                                 *)
EntryFits(t) ==
  /\ schedule[t].at = "off" => schedule[t].next = 1
  /\ schedule[t].at \in {"asleep", "asked", "accepted"} => schedule[t].next <= Requests(t)
  /\ schedule[t].at # "off" =>
       /\ plan[t] \in [1..Traffics[t].count -> Nodes]
       /\ Traffics[t].source # AnyNode =>
            \A i \in 1..Traffics[t].count : plan[t][i] = Traffics[t].source
  /\ t \in errors => schedule[t].at = "ended"

(* Unless the run was cut short or a request has failed, every message is  *)
(* accepted where the plan says, and once.                                 *)
CountInv ==
  /\ \A t \in Entries : EntryFits(t)
  /\ ~interrupted /\ errors = {} =>
       \A n \in Nodes : accepted[n] = Cardinality(CellsOf(plan, MadeSoFar, n))

LEMMA CellFacts ==
  \A x : x \in Cells <=> \E t \in Entries : \E i \in 1..Traffics[t].count : x = <<t, i>>
BY DEF Cells

LEMMA CellsAreFinite == IsFiniteSet(Cells)
<1> DEFINE f == [t \in Entries |-> {t} \X (1..Traffics[t].count)]
           S == {{t} \X (1..Traffics[t].count) : t \in Entries}
<1>1. IsFiniteSet(Entries)
  BY EntryFacts, FS_Interval
<1>2. f \in Surjection(Entries, S)
  BY DEF Surjection
<1>3. IsFiniteSet(S)
  <2> HIDE DEF f, S
  <2> QED BY <1>1, <1>2, FS_Surjection
<1>4. ASSUME NEW T \in S PROVE IsFiniteSet(T)
  <2>1. PICK t \in Entries : T = {t} \X (1..Traffics[t].count)
    BY <1>4
  <2>2. IsFiniteSet({t}) /\ IsFiniteSet(1..Traffics[t].count)
    <3>1. 1 \in Int /\ Traffics[t].count \in Int
      BY EntryFacts
    <3>2. IsFiniteSet(1..Traffics[t].count)
      BY <3>1, FS_Interval
    <3> QED BY <3>2, FS_Singleton
  <2> QED BY <2>1, <2>2, FS_Product
<1> HIDE DEF S
<1>5. IsFiniteSet(UNION S)
  BY <1>3, <1>4, FS_UNION
<1> QED BY <1>5 DEF Cells, S

LEMMA CellsOfAreFinite == ASSUME NEW p, NEW made, NEW n PROVE IsFiniteSet(CellsOf(p, made, n))
<1>1. CellsOf(p, made, n) \in SUBSET Cells
  BY DEF CellsOf
<1> QED BY <1>1, CellsAreFinite, FS_Subset

(* Nothing is made yet, in whatever plan.                                  *)
LEMMA NoCells ==
  ASSUME NEW p, NEW made \in [Entries -> Nat], \A t \in Entries : made[t] = 0, NEW n
  PROVE  Cardinality(CellsOf(p, made, n)) = 0
<1>1. ASSUME NEW x \in CellsOf(p, made, n) PROVE FALSE
  <2>1. x \in Cells /\ x[2] <= made[x[1]]
    BY DEF CellsOf
  <2>2. PICK t \in Entries : \E i \in 1..Traffics[t].count : x = <<t, i>>
    BY <2>1, CellFacts
  <2> QED BY <2>1, <2>2
<1>2. CellsOf(p, made, n) = {}
  BY <1>1
<1> QED BY <1>2, FS_EmptySet

(* Entry t makes some more messages, which the plan gives to source s.     *)
Grows(p, made, later, t, s) ==
  /\ made \in [Entries -> Nat] /\ later \in [Entries -> Nat]
  /\ \A u \in Entries \ {t} : later[u] = made[u]
  /\ made[t] <= later[t] /\ later[t] <= Traffics[t].count
  /\ \A i \in (made[t] + 1)..later[t] : p[t][i] = s

LEMMA CellsGrow ==
  ASSUME NEW p, NEW made, NEW later, NEW t \in Entries, NEW s,
         Grows(p, made, later, t, s), NEW n
  PROVE  /\ n = s => Cardinality(CellsOf(p, later, n)) =
                       Cardinality(CellsOf(p, made, n)) + (later[t] - made[t])
         /\ n # s => Cardinality(CellsOf(p, later, n)) = Cardinality(CellsOf(p, made, n))
<1> DEFINE a == made[t]
           b == later[t]
           old == CellsOf(p, made, n)
           new == CellsOf(p, later, n)
           more == {t} \X ((a + 1)..b)
<1>g. /\ made \in [Entries -> Nat] /\ later \in [Entries -> Nat]
      /\ \A u \in Entries \ {t} : later[u] = made[u]
      /\ a <= b /\ b <= Traffics[t].count /\ \A i \in (a + 1)..b : p[t][i] = s
  BY DEF Grows
<1>0. a \in Nat /\ b \in Nat /\ Traffics[t].count \in Nat
  BY <1>g, EntryFacts
<1>1. later[t] = b /\ \A u \in Entries \ {t} : later[u] = made[u]
  BY <1>g
<1>2. \A x : x \in more <=> \E i \in (a + 1)..b : x = <<t, i>>
  OBVIOUS
<1> HIDE DEF more
<1>3. more \subseteq Cells
  <2> SUFFICES ASSUME NEW x \in more PROVE x \in Cells
    OBVIOUS
  <2>1. PICK i \in (a + 1)..b : x = <<t, i>>
    BY <1>2
  <2>2. i \in 1..Traffics[t].count
    BY <1>g, <1>0, <2>1
  <2> QED BY <2>1, <2>2, CellFacts
<1>4. \A x \in old : x \notin more
  <2> SUFFICES ASSUME NEW x \in old, x \in more PROVE FALSE
    OBVIOUS
  <2>1. PICK i \in (a + 1)..b : x = <<t, i>>
    BY <1>2
  <2>2. x[2] <= made[x[1]]
    BY DEF CellsOf
  <2> QED BY <1>0, <2>1, <2>2
<1>5. ASSUME NEW x \in Cells PROVE x \in new <=> x \in old \/ (n = s /\ x \in more)
  <2>0. PICK u \in Entries : \E i \in 1..Traffics[u].count : x = <<u, i>>
    BY CellFacts
  <2>1. PICK i \in 1..Traffics[u].count : x = <<u, i>>
    BY <2>0
  <2>2. /\ x \in new <=> i <= later[u] /\ p[u][i] = n
        /\ x \in old <=> i <= made[u] /\ p[u][i] = n
    BY <2>1, <1>5 DEF CellsOf
  <2>3. CASE u # t
    <3>1. x \notin more
      BY <1>2, <2>1, <2>3
    <3> QED BY <1>1, <2>2, <2>3, <3>1
  <2>4. CASE u = t
    <3>1. x \in more <=> i \in (a + 1)..b
      BY <1>2, <2>1, <2>4
    <3> QED BY <1>g, <1>0, <1>1, <2>2, <2>4, <3>1
  <2> QED BY <2>3, <2>4
<1>6. old \subseteq Cells /\ new \subseteq Cells
  BY DEF CellsOf
<1>7. IsFiniteSet(old) /\ IsFiniteSet(more)
      /\ Cardinality(more) = b - a /\ Cardinality(old) \in Nat
  <2>1. /\ IsFiniteSet((a + 1)..b) /\ Cardinality((a + 1)..b) = b - a
        /\ IsFiniteSet({t}) /\ Cardinality({t}) = 1
    <3>1. a + 1 \in Int /\ b \in Int /\ a <= b
      BY <1>g, <1>0
    <3>2. IsFiniteSet((a + 1)..b)
          /\ Cardinality((a + 1)..b) = IF a + 1 > b THEN 0 ELSE b - (a + 1) + 1
      BY <3>1, FS_Interval
    <3> HIDE DEF a
    <3>3. Cardinality((a + 1)..b) = b - a
      BY <1>0, <3>1, <3>2
    <3> QED BY <3>2, <3>3, FS_Singleton
  <2>2. IsFiniteSet(more) /\ Cardinality(more) = Cardinality({t}) * Cardinality((a + 1)..b)
    BY <2>1, FS_Product DEF more
  <2>3. IsFiniteSet(old)
    BY CellsOfAreFinite
  <2> QED BY <1>0, <2>1, <2>2, <2>3, FS_CardinalityType
<1> HIDE DEF old, new
<1>8. CASE n = s
  <2>1. new = old \cup more /\ old \cap more = {}
    BY <1>3, <1>4, <1>5, <1>6, <1>8
  <2>2. Cardinality(old \cup more) = Cardinality(old) + Cardinality(more) - Cardinality({})
    BY <1>7, <2>1, FS_Union
  <2>3. Cardinality(new) = Cardinality(old) + (b - a)
    BY <1>0, <1>7, <2>1, <2>2, FS_EmptySet
  <2> QED BY <1>8, <2>3 DEF old, new
<1>9. CASE n # s
  <2>1. new = old
    BY <1>5, <1>6, <1>9
  <2> QED BY <1>7, <1>9, <2>1 DEF old, new
<1> QED BY <1>8, <1>9

LEMMA MadeFacts ==
  ASSUME TypeOK, \A t \in Entries : EntryFits(t)
  PROVE  /\ MadeSoFar \in [Entries -> Nat]
         /\ \A t \in Entries : MadeSoFar[t] = Made(t) /\ Made(t) <= Traffics[t].count
<1> SUFFICES ASSUME NEW t \in Entries PROVE Made(t) \in Nat /\ Made(t) <= Traffics[t].count
  BY DEF MadeSoFar
<1>1. schedule[t].next \in Nat \ {0} /\ schedule[t].at \in Stations
  BY DEF TypeOK
<1>2. EntryFits(t) /\ Traffics[t].count \in Nat /\ Traffics[t].count > 0
  BY EntryFacts
<1> QED BY <1>1, <1>2 DEF Made, EntryFits, Stations, Requests

LEMMA CountInit == Init => CountInv
<1> SUFFICES ASSUME Init PROVE CountInv
  OBVIOUS
<1>1. ASSUME NEW t \in Entries PROVE EntryFits(t) /\ Made(t) = 0
  <2>1. schedule[t].next = 1 /\ schedule[t].at = "off" /\ errors = {}
    BY DEF Init
  <2> QED BY <2>1 DEF EntryFits, Made
<1>2. MadeSoFar \in [Entries -> Nat] /\ \A t \in Entries : MadeSoFar[t] = 0
  BY <1>1 DEF MadeSoFar
<1>3. \A n \in Nodes : accepted[n] = 0 /\ Cardinality(CellsOf(plan, MadeSoFar, n)) = 0
  BY <1>2, NoCells DEF Init
<1> QED BY <1>1, <1>3 DEF CountInv

LEMMA CountRests ==
  ASSUME CountInv, UNCHANGED <<plan, schedule, errors, accepted>>, interrupted => interrupted'
  PROVE  CountInv'
<1>1. MadeSoFar' = MadeSoFar
  BY DEF MadeSoFar, Made
<1>2. \A t \in Entries : EntryFits(t)'
  BY DEF CountInv, EntryFits, Requests
<1>3. \A n \in Nodes : CellsOf(plan, MadeSoFar, n)' = CellsOf(plan, MadeSoFar, n)
  BY <1>1 DEF CellsOf, Cells
<1> QED BY <1>2, <1>3 DEF CountInv

(* A goroutine moves on without a new message.                             *)
LEMMA CountMoves ==
  ASSUME TypeOK, CountInv, UNCHANGED <<plan, accepted, interrupted>>, NEW t \in Entries,
         \A u \in Entries \ {t} : schedule'[u] = schedule[u],
         EntryFits(t)', errors' = {} /\ ~interrupted => Made(t)' = Made(t),
         errors \subseteq errors', errors' \subseteq errors \cup {t}
  PROVE  CountInv'
<1>1. ASSUME NEW u \in Entries PROVE EntryFits(u)'
  <2>1. CASE u # t
    BY <2>1 DEF CountInv, EntryFits, Requests
  <2> QED BY <2>1
<1>2. ASSUME errors' = {}, ~interrupted, NEW n \in Nodes
      PROVE  accepted'[n] = Cardinality(CellsOf(plan, MadeSoFar, n)')
  <2>1. \A u \in Entries : Made(u)' = Made(u)
    BY <1>2 DEF Made
  <2>2. MadeSoFar' = MadeSoFar
    BY <2>1 DEF MadeSoFar
  <2>3. CellsOf(plan, MadeSoFar, n)' = CellsOf(plan, MadeSoFar, n)
    BY <2>2 DEF CellsOf, Cells
  <2>4. errors = {}
    BY <1>2
  <2> QED BY <1>2, <2>3, <2>4 DEF CountInv
<1> QED BY <1>1, <1>2 DEF CountInv

LEMMA CountStep == ASSUME TypeOK, SealInv, CountInv, [Next]_vars PROVE CountInv'
<1>t. /\ schedule \in [Entries -> [next : Nat \ {0}, at : Stations]]
      /\ accepted \in [Nodes -> Nat] /\ errors \subseteq Entries
  BY DEF TypeOK
<1>f. \A t \in Entries : EntryFits(t)
  BY DEF CountInv
<1>1. ASSUME NEW t \in Entries, Request(t) PROVE CountInv'
  <2>1. /\ schedule[t].at = "asleep"
        /\ schedule' = [schedule EXCEPT ![t].at = IF interrupted THEN "ended" ELSE "asked"]
        /\ errors' = errors \/ (interrupted /\ errors' = errors \cup {t})
        /\ UNCHANGED <<plan, accepted, interrupted>>
    BY <1>1 DEF Request
  <2>2. /\ schedule'[t].at = (IF interrupted THEN "ended" ELSE "asked")
        /\ schedule'[t].next = schedule[t].next
        /\ \A u \in Entries \ {t} : schedule'[u] = schedule[u]
    BY <1>t, <2>1
  <2>3. EntryFits(t)'
    BY <1>f, <2>1, <2>2 DEF EntryFits, Requests
  <2>4. ~interrupted => Made(t)' = Made(t)
    BY <2>1, <2>2 DEF Made
  <2> QED BY <2>1, <2>2, <2>3, <2>4, CountMoves
<1>2. ASSUME NEW t \in Entries, HandleInject(t) PROVE CountInv'
  <2> DEFINE s == plan[t][schedule[t].next]
             k == schedule[t].next
  <2>1. /\ schedule[t].at = "asked"
        /\ schedule' = [schedule EXCEPT ![t].at = "accepted"]
        /\ s \in Nodes
        /\ accepted' = [accepted EXCEPT ![s] = @ + PerRequest(t)]
        /\ UNCHANGED <<plan, errors, interrupted>>
    BY <1>2 DEF HandleInject, TypeOK
  <2>2. /\ schedule'[t].at = "accepted" /\ schedule'[t].next = k
        /\ \A u \in Entries \ {t} : schedule'[u] = schedule[u]
    BY <1>t, <2>1
  <2>3. ASSUME NEW u \in Entries PROVE EntryFits(u)'
    <3>1. CASE u = t
      BY <1>f, <2>1, <2>2, <3>1 DEF EntryFits, Requests
    <3>2. CASE u # t
      BY <1>f, <2>1, <2>2, <3>2 DEF EntryFits, Requests
    <3> QED BY <3>1, <3>2
  <2>4. /\ k \in Nat \ {0} /\ k <= Requests(t)
        /\ Traffics[t].source # AnyNode =>
             \A i \in 1..Traffics[t].count : plan[t][i] = Traffics[t].source
    BY <1>f, <1>t, <2>1 DEF EntryFits
  <2> DEFINE b == IF Traffics[t].source = AnyNode THEN k ELSE Traffics[t].count
  <2>5. /\ Made(t)' = b /\ b \in Nat /\ b <= Traffics[t].count
        /\ Made(t) \in Nat /\ Made(t) <= b /\ b - Made(t) = PerRequest(t)
    BY <2>1, <2>2, <2>4, EntryFacts DEF Made, PerRequest, Requests
  <2>6. \A i \in (Made(t) + 1)..b : plan[t][i] = s
    <3>1. CASE Traffics[t].source = AnyNode
      <4>1. Made(t) + 1 = k /\ b = k
        BY <2>1, <2>4, <3>1 DEF Made
      <4> QED BY <2>4, <4>1
    <3>2. CASE Traffics[t].source # AnyNode
      <4>1. k \in 1..Traffics[t].count
        BY <2>4, <3>2, EntryFacts DEF Requests
      <4>2. \A i \in (Made(t) + 1)..b : i \in 1..Traffics[t].count
        BY <2>5, EntryFacts
      <4> QED BY <2>4, <3>2, <4>1, <4>2
    <3> QED BY <3>1, <3>2
  <2> HIDE DEF b, s, k
  <2>7. MadeSoFar \in [Entries -> Nat] /\ MadeSoFar[t] = Made(t)
    BY <1>f, MadeFacts
  <2>8. MadeSoFar' = [MadeSoFar EXCEPT ![t] = b]
    <3>1. \A u \in Entries \ {t} : Made(u)' = Made(u)
      BY <2>2 DEF Made
    <3> QED BY <2>5, <3>1 DEF MadeSoFar
  <2>9. ASSUME ~interrupted, errors = {}, NEW n \in Nodes
        PROVE  accepted'[n] = Cardinality(CellsOf(plan, MadeSoFar, n)')
    <3> DEFINE made == MadeSoFar
               later == MadeSoFar'
    <3>1. /\ n = s => Cardinality(CellsOf(plan, later, n)) =
                        Cardinality(CellsOf(plan, made, n)) + (later[t] - made[t])
          /\ n # s => Cardinality(CellsOf(plan, later, n)) = Cardinality(CellsOf(plan, made, n))
      <4>1. /\ made \in [Entries -> Nat] /\ later \in [Entries -> Nat]
            /\ later[t] = b /\ \A u \in Entries \ {t} : later[u] = made[u]
        BY <2>5, <2>7, <2>8
      <4>2. /\ made[t] <= later[t] /\ later[t] <= Traffics[t].count
            /\ \A i \in (made[t] + 1)..later[t] : plan[t][i] = s
        BY <2>5, <2>6, <2>7, <4>1
      <4> HIDE DEF made, later
      <4>3. Grows(plan, made, later, t, s)
        BY <4>1, <4>2 DEF Grows
      <4> QED BY <4>3, CellsGrow
    <3>2. CellsOf(plan, MadeSoFar, n)' = CellsOf(plan, later, n) /\ later[t] = b
      BY <2>1, <2>7, <2>8 DEF CellsOf, Cells
    <3>3. accepted[n] = Cardinality(CellsOf(plan, MadeSoFar, n))
      BY <2>9 DEF CountInv
    <3>4. accepted'[n] = accepted[n] + (IF n = s THEN PerRequest(t) ELSE 0)
      BY <1>t, <2>1, RequestFacts
    <3>5. later[t] - made[t] = PerRequest(t)
      BY <2>5, <2>7, <3>2
    <3>6. /\ accepted'[n] = accepted[n] + (IF n = s THEN PerRequest(t) ELSE 0)
          /\ accepted[n] = Cardinality(CellsOf(plan, made, n))
          /\ PerRequest(t) \in Nat /\ accepted[n] \in Nat
      BY <1>t, <3>3, <3>4, RequestFacts
    <3> HIDE DEF made, later
    <3>7. accepted'[n] = Cardinality(CellsOf(plan, later, n))
      BY <3>1, <3>5, <3>6
    <3> QED BY <3>2, <3>7
  <2> QED BY <2>1, <2>3, <2>9 DEF CountInv
<1>3. ASSUME NEW t \in Entries, Injected(t) PROVE CountInv'
  <2> DEFINE k == schedule[t].next
  <2>1. /\ schedule[t].at = "accepted"
        /\ schedule' = [schedule EXCEPT ![t] =
             [next |-> k + 1, at |-> IF k = Requests(t) THEN "ended" ELSE "asleep"]]
        /\ UNCHANGED <<plan, accepted, errors, interrupted>>
    BY <1>3 DEF Injected
  <2>2. /\ schedule'[t].at = (IF k = Requests(t) THEN "ended" ELSE "asleep")
        /\ schedule'[t].next = k + 1
        /\ \A u \in Entries \ {t} : schedule'[u] = schedule[u]
    BY <1>t, <2>1
  <2>3. k \in Nat \ {0} /\ k <= Requests(t) /\ Requests(t) \in Nat
    BY <1>f, <1>t, <2>1, RequestFacts DEF EntryFits
  <2>4. EntryFits(t)'
    BY <1>f, <2>1, <2>2, <2>3 DEF EntryFits, Requests
  <2>5. Made(t)' = Made(t)
    BY <2>1, <2>2, <2>3 DEF Made, Requests
  <2> QED BY <2>1, <2>2, <2>4, <2>5, CountMoves
<1>4. ASSUME NEW t \in Entries, InjectFails(t) PROVE CountInv'
  <2>1. /\ schedule[t].at \in {"asked", "accepted"}
        /\ schedule' = [schedule EXCEPT ![t].at = "ended"]
        /\ errors' = errors \cup {t}
        /\ UNCHANGED <<plan, accepted, interrupted>>
    BY <1>4 DEF InjectFails
  <2>2. /\ schedule'[t].at = "ended"
        /\ \A u \in Entries \ {t} : schedule'[u] = schedule[u]
    BY <1>t, <2>1
  <2>3. EntryFits(t)'
    BY <1>f, <2>1, <2>2 DEF EntryFits, Requests
  <2>4. errors' # {}
    BY <2>1
  <2> QED BY <2>1, <2>2, <2>3, <2>4, CountMoves
<1>5. CASE StartTraffic
  <2>1. CASE UNCHANGED <<plan, schedule>>
    BY <1>5, <2>1, CountRests DEF StartTraffic
  <2>2. CASE /\ plan' \in Plans
             /\ schedule' = [t \in Entries |-> [next |-> 1, at |-> "asleep"]]
    <3>1. phase = "warmup" /\ UNCHANGED <<accepted, errors, interrupted>>
      BY <1>5 DEF StartTraffic
    <3>2. \A t \in Entries : schedule[t].at = "off" /\ schedule[t].next = 1
      BY <1>f, <3>1 DEF SealInv, Before, EntryFits
    <3>3. \A t \in Entries : schedule'[t].at = "asleep" /\ schedule'[t].next = 1
      BY <2>2
    <3>4. errors = {}
      BY <1>f, <1>t, <3>2 DEF EntryFits
    <3>5. ASSUME NEW t \in Entries PROVE EntryFits(t)'
      <4>1. /\ plan'[t] \in [1..Traffics[t].count -> Nodes]
            /\ Traffics[t].source # AnyNode =>
                 \A i \in 1..Traffics[t].count : plan'[t][i] = Traffics[t].source
        BY <2>2, PlanFacts
      <4>2. 1 <= Requests(t)
        BY RequestFacts
      <4> QED BY <3>1, <3>3, <3>4, <4>1, <4>2 DEF EntryFits, Requests
    <3>6. \A t \in Entries : Made(t) = 0 /\ Made(t)' = 0
      BY <3>2, <3>3 DEF Made
    <3>7. /\ MadeSoFar \in [Entries -> Nat] /\ \A t \in Entries : MadeSoFar[t] = 0
          /\ MadeSoFar' \in [Entries -> Nat] /\ \A t \in Entries : MadeSoFar'[t] = 0
      BY <3>6 DEF MadeSoFar
    <3>8. ASSUME ~interrupted, NEW n \in Nodes
          PROVE  accepted'[n] = Cardinality(CellsOf(plan, MadeSoFar, n)')
      <4>1. Cardinality(CellsOf(plan, MadeSoFar, n)) = 0
        BY <3>7, NoCells
      <4>2. Cardinality(CellsOf(plan', MadeSoFar', n)) = 0
        BY <3>7, NoCells
      <4>3. CellsOf(plan, MadeSoFar, n)' = CellsOf(plan', MadeSoFar', n)
        BY DEF CellsOf, Cells
      <4>4. accepted[n] = 0
        BY <3>4, <3>8, <4>1 DEF CountInv
      <4> QED BY <3>1, <4>2, <4>3, <4>4
    <3> QED BY <3>1, <3>5, <3>8 DEF CountInv
  <2> QED BY <1>5, <2>1, <2>2 DEF StartTraffic, PlanFails
<1>6. CASE UNCHANGED <<plan, schedule, errors, accepted>> /\ (interrupted => interrupted')
  BY <1>6, CountRests
<1>7. ASSUME NEW n \in Nodes, Call(n) \/ Handle(n) \/ Serve(n) \/ Die(n)
      PROVE  UNCHANGED <<plan, schedule, errors, accepted, interrupted>>
  <2>1. CASE Call(n) \/ Serve(n) \/ Die(n)
    BY <2>1 DEF Call, Ask, Skip, GiveUp, Serve, Die
  <2>2. CASE Handle(n)
    BY <2>2 DEF Handle, HandleHealth, HandleStatus, Dial, OpenStream, Tried, Cancelled,
         StopRecording, CloseFile, HandleFinalize, HandleResults, Inject
  <2> QED BY <1>7, <2>1, <2>2
<1>8. CASE Control \/ WaitFails
  BY <1>5, <1>6, <1>8
     DEF Control, ReadyRound, TopologyRound, WaitFails, PhaseEnds, TrafficEnds, RunAggregate
<1> QED
  BY <1>1, <1>2, <1>3, <1>4, <1>6, <1>7, <1>8
     DEF Next, Schedule, Disconnect, Expire, Interrupt, vars

-----------------------------------------------------------------------------
(* The result.                                                             *)
Full == \A n \in Nodes : accepted[n] = Planned(n)

PeerDone(n) ==
  /\ closed[n] => finalized[n]
  /\ phase = "finalize" /\ call[n] = "ok" => closed[n]
  /\ phase \in {"download", "aggregate", "done"} => closed[n]
  /\ phase = "download" /\ call[n] = "ok" => file[n] = recorded[n]
  /\ phase \in {"aggregate", "done"} /\ download => file[n] = recorded[n]

(* An interrupted run may have left messages out, and asks no peer to      *)
(* finalize any more.                                                      *)
ResultInv ==
  /\ phase = "finalize" /\ (~interrupted \/ \E n \in Nodes : call[n] \in {"asked", "ok"}) =>
       Full
  /\ phase \in {"download", "aggregate", "done"} => Full
  /\ \A n \in Nodes : PeerDone(n)

LEMMA ResultInit == Init => ResultInv
BY DEF Init, ResultInv, PeerDone

(* A schedule that has ended by itself and without an error is complete.   *)
LEMMA EndedIsFull ==
  ASSUME CountInv, ~interrupted, Quiet
  PROVE  Full
<1> SUFFICES ASSUME NEW n \in Nodes PROVE accepted[n] = Planned(n)
  BY DEF Full
<1> DEFINE P == {x \in UNION {{t} \X DOMAIN plan[t] : t \in Entries} : plan[x[1]][x[2]] = n}
<1>1. \A t \in Entries : DOMAIN plan[t] = 1..Traffics[t].count /\ MadeSoFar[t] = Traffics[t].count
  BY DEF CountInv, EntryFits, Quiet, MadeSoFar, Made
<1>2. UNION {{t} \X DOMAIN plan[t] : t \in Entries} = Cells
  BY <1>1 DEF Cells
<1>3. ASSUME NEW x \in Cells PROVE x[2] <= MadeSoFar[x[1]]
  <2>1. PICK t \in Entries : \E i \in 1..Traffics[t].count : x = <<t, i>>
    BY <1>3, CellFacts
  <2> QED BY <1>1, <2>1
<1>4. CellsOf(plan, MadeSoFar, n) = P
  BY <1>2, <1>3 DEF CellsOf
<1>5. accepted[n] = Cardinality(CellsOf(plan, MadeSoFar, n))
  BY DEF CountInv, Quiet
<1> QED BY <1>4, <1>5 DEF Planned

LEMMA FullRests == ASSUME UNCHANGED <<plan, accepted>> PROVE Full' <=> Full
BY DEF Full, Planned

(* A step that changes neither the plan nor the phase.                     *)
LEMMA ResultRests ==
  ASSUME ResultInv, UNCHANGED <<plan, accepted, phase, download>>,
         interrupted => interrupted',
         phase = "finalize" /\ (\E n \in Nodes : call'[n] \in {"asked", "ok"}) =>
           ~interrupted \/ \E n \in Nodes : call[n] \in {"asked", "ok"},
         \A n \in Nodes : PeerDone(n)'
  PROVE  ResultInv'
BY FullRests DEF ResultInv

LEMMA ResultStep ==
  ASSUME TypeOK, JobInv, SealInv, CountInv, ResultInv, [Next]_vars
  PROVE  ResultInv'
<1>t. /\ call \in [Nodes -> Calls] /\ file \in [Nodes -> Int] /\ recorded \in [Nodes -> Nat]
      /\ finalized \in [Nodes -> BOOLEAN] /\ closed \in [Nodes -> BOOLEAN]
  BY DEF TypeOK, Calls
<1>d. \A n \in Nodes : PeerDone(n) /\ JobFits(n)
  BY DEF ResultInv, JobInv
<1>1. ASSUME NEW n \in Nodes, Call(n) PROVE ResultInv'
  <2>1. UNCHANGED <<plan, accepted, phase, download, interrupted, closed, finalized, file, recorded>>
    BY <1>1 DEF Call, Ask, Skip, GiveUp
  <2>2. \A k \in Nodes : call'[k] = "ok" => call[k] = "ok"
    BY <1>1, <1>t DEF Call, Ask, Skip, GiveUp
  <2>3. \A k \in Nodes : PeerDone(k)'
    BY <1>d, <2>1, <2>2 DEF PeerDone
  <2>4. (\E k \in Nodes : call'[k] \in {"asked", "ok"}) =>
          ~interrupted \/ \E k \in Nodes : call[k] \in {"asked", "ok"}
    <3>1. CASE Ask(n)
      BY <3>1 DEF Ask, Expired
    <3>2. CASE Skip(n) \/ GiveUp(n)
      BY <1>t, <3>2 DEF Skip, GiveUp
    <3> QED BY <1>1, <3>1, <3>2 DEF Call
  <2> QED BY <2>1, <2>3, <2>4, ResultRests
<1>2. ASSUME NEW n \in Nodes, Handle(n) PROVE ResultInv'
  <2>1. UNCHANGED <<plan, accepted, phase, download, interrupted>>
    BY <1>2 DEF Handle, HandleHealth, HandleStatus, Dial, OpenStream, Tried, Cancelled,
         StopRecording, CloseFile, HandleFinalize, HandleResults, Inject
  <2>2. ASSUME NEW k \in Nodes, call'[k] # call[k] PROVE k = n /\ call[k] = "asked"
    BY <1>2, <1>t, <2>2
       DEF Handle, HandleHealth, HandleStatus, Dial, OpenStream, Tried, Cancelled,
           StopRecording, CloseFile, HandleFinalize, HandleResults, Inject, Answer
  <2>3. (\E k \in Nodes : call'[k] \in {"asked", "ok"}) =>
          \E k \in Nodes : call[k] \in {"asked", "ok"}
    BY <2>2
  <2>4. ASSUME NEW k \in Nodes PROVE PeerDone(k)'
    <3>1. CASE HandleHealth(n) \/ HandleStatus(n) \/ Tried(n)
      <4>1. UNCHANGED <<closed, finalized, file, recorded>> /\ phase \notin {"finalize", "download"}
        BY <1>d, <3>1 DEF HandleHealth, HandleStatus, Tried, JobFits, FanOuts
      <4> QED BY <1>d, <2>1, <4>1 DEF PeerDone
    <3>2. CASE HandleFinalize(n)
      <4>1. /\ UNCHANGED <<closed, finalized, file, recorded>>
            /\ closed[n] /\ phase # "download"
        BY <1>d, <3>2 DEF HandleFinalize, JobFits, FanOuts
      <4> QED BY <1>d, <2>1, <2>2, <4>1 DEF PeerDone
    <3>3. CASE HandleResults(n)
      <4>1. UNCHANGED <<closed, finalized, recorded>> /\ phase \in {"download", "failed"}
        BY <1>d, <3>3 DEF HandleResults, JobFits, FanOuts
      <4>2. CASE phase = "failed"
        BY <1>d, <2>1, <4>1, <4>2 DEF PeerDone
      <4>3. CASE phase = "download"
        <5>1. closed[n] /\ finalized[n]
          BY <1>d, <4>3 DEF PeerDone
        <5>2. CASE Fetch(n)
          <6>1. file' = [file EXCEPT ![n] = recorded[n]]
            BY <5>1, <5>2 DEF Fetch
          <6>2. file'[n] = recorded[n] /\ (k # n => file'[k] = file[k])
            BY <1>t, <6>1
          <6> QED BY <1>d, <2>1, <2>2, <4>1, <4>3, <6>2 DEF PeerDone
        <5>3. CASE Answer(n, "error") /\ UNCHANGED file
          <6>1. call'[k] = "ok" => call[k] = "ok"
            BY <1>t, <5>3 DEF Answer
          <6> QED BY <1>d, <2>1, <4>1, <5>3, <6>1 DEF PeerDone
        <5> QED BY <3>3, <5>2, <5>3 DEF HandleResults
      <4> QED BY <4>1, <4>2, <4>3
    <3>4. CASE Dial(n) \/ OpenStream(n) \/ Cancelled(n)
      BY <1>d, <3>4 DEF Dial, OpenStream, Cancelled, PeerDone
    <3>5. CASE StopRecording(n)
      BY <1>d, <1>t, <3>5 DEF StopRecording, PeerDone
    <3>6. CASE CloseFile(n)
      <4>1. /\ UNCHANGED <<finalized, file, recorded>> /\ finalized[n]
            /\ phase # "download"
            /\ \A m \in Nodes : closed[m] => closed'[m]
            /\ \A m \in Nodes : closed'[m] => closed[m] \/ m = n
        BY <1>d, <1>t, <3>6 DEF CloseFile, JobFits, FanOuts
      <4>2. call'[k] = "ok" => call[k] = "ok"
        BY <1>t, <3>6 DEF CloseFile, Answer
      <4> QED BY <1>d, <2>1, <4>1, <4>2 DEF PeerDone
    <3>7. CASE Inject(n)
      <4>1. UNCHANGED <<closed, finalized, file, call>>
        BY <3>7 DEF Inject
      <4>2. closed[k] => recorded'[k] = recorded[k]
        BY <1>d, <1>t, <3>7 DEF Inject, PeerDone
      <4> QED BY <1>d, <2>1, <4>1, <4>2 DEF PeerDone
    <3> QED BY <1>2, <3>1, <3>2, <3>3, <3>4, <3>5, <3>6, <3>7 DEF Handle
  <2> QED BY <2>1, <2>3, <2>4, ResultRests
<1>3. CASE /\ UNCHANGED <<plan, accepted, phase, download, call, closed, finalized, file, recorded>>
           /\ (interrupted => interrupted')
  <2>1. \A k \in Nodes : PeerDone(k)'
    BY <1>d, <1>3 DEF PeerDone
  <2> QED BY <1>3, <2>1, ResultRests
<1>4. ASSUME phase' \notin Finishing, UNCHANGED <<closed, finalized>> PROVE ResultInv'
  <2>1. \A k \in Nodes : PeerDone(k)'
    BY <1>d, <1>4 DEF PeerDone, Finishing
  <2> QED BY <1>4, <2>1 DEF ResultInv, Finishing
<1>5. ASSUME NEW t \in Entries, Schedule(t) PROVE ResultInv'
  <2>1. UNCHANGED <<closed, finalized, phase>> /\ schedule[t].at # "ended"
    BY <1>5 DEF Schedule, Request, HandleInject, Injected, InjectFails
  <2>2. phase \notin Finishing
    BY <2>1 DEF SealInv, Quiet
  <2> QED BY <1>4, <2>1, <2>2
<1>6. CASE Control \/ WaitFails
  <2>1. CASE ReadyRound \/ TopologyRound \/ StartTraffic \/ WaitFails
    BY <1>4, <2>1
       DEF ReadyRound, TopologyRound, StartTraffic, PlanFails, WaitFails, Begin, Fail, Finishing
  <2>2. CASE PhaseEnds
    <3>1. UNCHANGED <<plan, accepted, download, closed, finalized, file, recorded>>
      BY <2>2 DEF PhaseEnds
    <3>2. CASE phase' \notin Finishing
      BY <1>4, <3>1, <3>2
    <3>3. CASE phase' \in Finishing
      <4>1. /\ AllOk
            /\ \/ phase = "finalize" /\ phase' \in {"download", "aggregate"}
                                     /\ (phase' = "aggregate" => ~download)
               \/ phase = "download" /\ phase' = "aggregate"
        BY <2>2, <3>3, PhaseFacts DEF PhaseEnds, Begin, Fail, Finishing, TypeOK
      <4>2. \A n \in Nodes : call[n] = "ok" /\ call'[n] = "waiting"
        BY <2>2, <3>3, <4>1 DEF PhaseEnds, Begin, Fail, AllOk, Addressed, Finishing
      <4>3. Full
        BY <4>1, <4>2, NodeFacts DEF ResultInv
      <4>4. ASSUME NEW n \in Nodes PROVE PeerDone(n)'
        BY <1>d, <3>1, <4>1, <4>2 DEF PeerDone
      <4> QED BY <3>1, <4>1, <4>3, <4>4, FullRests DEF ResultInv
    <3> QED BY <3>2, <3>3
  <2>3. CASE TrafficEnds
    <3>1. UNCHANGED <<plan, accepted, download, interrupted, closed, finalized, file, recorded>>
      BY <2>3 DEF TrafficEnds
    <3>2. CASE phase' # "finalize"
      BY <1>4, <2>3, <3>1, <3>2 DEF TrafficEnds, Begin, Fail, Finishing
    <3>3. CASE phase' = "finalize"
      <4>1. Quiet /\ \A n \in Nodes : call'[n] = "waiting"
        BY <2>3, <3>3 DEF TrafficEnds, Begin, Fail, ScheduleDone, Quiet
      <4>2. ~interrupted => Full
        BY <4>1, EndedIsFull
      <4>3. ASSUME NEW n \in Nodes PROVE PeerDone(n)'
        BY <1>d, <3>1, <3>3, <4>1 DEF PeerDone
      <4> QED BY <3>1, <3>3, <4>1, <4>2, <4>3, FullRests DEF ResultInv
    <3> QED BY <3>2, <3>3
  <2>4. CASE RunAggregate
    <3>1. /\ UNCHANGED <<plan, accepted, download, call, closed, finalized, file, recorded>>
          /\ phase = "aggregate" /\ phase' \in {"done", "failed"}
      BY <2>4 DEF RunAggregate
    <3>2. \A n \in Nodes : PeerDone(n)'
      BY <1>d, <3>1 DEF PeerDone
    <3> QED BY <3>1, <3>2, FullRests DEF ResultInv
  <2> QED BY <1>6, <2>1, <2>2, <2>3, <2>4 DEF Control
<1>7. ASSUME NEW n \in Nodes, Serve(n) \/ Die(n) PROVE ResultInv'
  BY <1>3, <1>7 DEF Serve, Die
<1> QED
  BY <1>1, <1>2, <1>3, <1>5, <1>6, <1>7 DEF Next, Disconnect, Expire, Interrupt, vars

(* A run that reports success has a complete result, whatever was lost,    *)
(* late, given up, dead or interrupted on the way: every planned message   *)
(* was accepted by its source once and no message besides, every file is   *)
(* closed, and a fetched file is a whole one.                              *)
THEOREM SuccessMeansComplete == Spec => []SuccessIsComplete
<1>1. ResultInv => SuccessIsComplete
  BY DEF ResultInv, PeerDone, Full, SuccessIsComplete
<1> QED
  BY <1>1, TypeCorrect, JobInit, JobStep, SealInit, SealStep, CountInit, CountStep,
     ResultInit, ResultStep, PTL DEF Spec

=============================================================================
