--------------------------- MODULE SwarmCoordinator ---------------------------
(***************************************************************************)
(* How a Swarm run comes together: the controller's swarmCoordinator       *)
(* (internal/controller/swarm_coordinator.go) and the bootstrap of every   *)
(* peer task (internal/p2p/bootstrap.go, cmd/peerkit-peer).                *)
(*                                                                         *)
(*   task      registers its identity until it is acknowledged, then polls *)
(*             for its configuration, then serves                          *)
(*   handlers  of the controller: register, config                         *)
(*   run       the controller's goroutine: waits for all registrations,    *)
(*             builds the configurations, waits for readiness, experiments *)
(*                                                                         *)
(* A register call may time out at the peer and still arrive later, and    *)
(* its answer may be lost; either way the peer calls again.  Docker        *)
(* restarts a controller that fails, with nothing of its memory, and does  *)
(* not restart a peer task (generate_swarm.go), so a slot has one identity *)
(* and needs none here.  What happens inside the experiment is open: it    *)
(* succeeds or fails.                                                      *)
(*                                                                         *)
(* A definition whose name ends in Bug is no part of Spec: it is the wrong *)
(* variant of the definition after it that some property must catch.       *)
(***************************************************************************)
EXTENDS Naturals, FiniteSets

CONSTANTS
  Slots,         (* 1..len(scenario.Topology.Nodes)                        *)
  MaxAttempts,   (* bound: register calls of a task that outlive their     *)
                 (* timeout, plus one                                      *)
  AnswersLost,   (* may the answer to a register call be lost?             *)
  MaxRestarts,   (* max_attempts of the controller's restart policy        *)
  MayDie         (* the tasks that may end before the run does             *)

ASSUME SwarmAssumption ==
  /\ MaxAttempts \in Nat \ {0}
  /\ MaxRestarts \in Nat
  /\ AnswersLost \in BOOLEAN
  /\ MayDie \subseteq Slots

VARIABLES
  task,          (* slot -> where its process stands                       *)
  attempt,       (* slot -> the number of its latest register call         *)
  mail,          (* register calls that the controller has yet to handle   *)
  config,        (* slot -> incarnation that configured it; 0: none        *)
  acked,         (* history: slot -> incarnation that acknowledged it      *)
  incarnation,   (* which process of the controller this is: 1, 2, ...     *)
  up,            (* is that process alive?  "yes", "no"                    *)
  registrations, (* the keys of coordinator.registrations                  *)
  runtime,       (* the keys of coordinator.runtime                        *)
  state,         (* coordinator.state                                      *)
  changed,       (* tokens in the changed channel (capacity 1)             *)
  startup,       (* startupCtx: "open", "expired"                          *)
  run,           (* where coordinator.run stands                           *)
  ready          (* slots that waitReady has seen healthy                  *)

tasks == <<task, attempt, mail, config, acked>>
process == <<incarnation, up>>
memory == <<registrations, runtime, state, changed, startup, run, ready>>
vars == <<tasks, process, memory>>

TaskStates ==
  {"absent", "registering", "awaiting", "polling", "configured", "serving", "gone"}
RunStates ==
  {"counting", "parking", "selecting", "building", "setting", "readying",
   "experimenting", "ended"}
States ==
  {"waiting_for_peers", "config_ready", "waiting_for_peer_readiness", "completed", "failed"}

-----------------------------------------------------------------------------
(* newSwarmCoordinator and start.                                          *)
Init ==
  /\ task = [s \in Slots |-> "absent"]
  /\ attempt = [s \in Slots |-> 1]
  /\ mail = {}
  /\ config = [s \in Slots |-> 0]
  /\ acked = [s \in Slots |-> 0]
  /\ incarnation = 1
  /\ up = "yes"
  /\ registrations = {}
  /\ runtime = {}
  /\ state = "waiting_for_peers"
  /\ changed = 0
  /\ startup = "open"
  /\ run = "counting"
  /\ ready = {}

-----------------------------------------------------------------------------
(* Peer tasks.                                                             *)

(* Docker starts the task; its identity and address are settled.           *)
StartTask(s) ==
  /\ task[s] = "absent"
  /\ task' = [task EXCEPT ![s] = "registering"]
  /\ UNCHANGED <<attempt, mail, config, acked, process, memory>>

(* registerWithRetry posts.  A controller that is down refuses the         *)
(* connection, and the loop comes back to this.                            *)
SendRegister(s) ==
  /\ task[s] = "registering"
  /\ up = "yes"
  /\ mail' = mail \cup {<<s, attempt[s]>>}
  /\ task' = [task EXCEPT ![s] = "awaiting"]
  /\ UNCHANGED <<attempt, config, acked, process, memory>>

(* The client's timeout: the call may still be handled, later.             *)
GiveUp(s) ==
  /\ task[s] = "awaiting"
  /\ attempt[s] < MaxAttempts
  /\ attempt' = [attempt EXCEPT ![s] = @ + 1]
  /\ task' = [task EXCEPT ![s] = "registering"]
  /\ UNCHANGED <<mail, config, acked, process, memory>>

(* Bug: a peer that finds no configuration registers again.                *)
GetConfigBug(s) ==
  /\ task[s] = "polling"
  /\ up = "yes"
  /\ \/ /\ s \in runtime
        /\ config' = [config EXCEPT ![s] = incarnation]
        /\ task' = [task EXCEPT ![s] = "configured"]
     \/ /\ s \notin runtime
        /\ task' = [task EXCEPT ![s] = "registering"]
        /\ UNCHANGED config
  /\ UNCHANGED <<attempt, mail, acked, process, memory>>

(* waitRuntimeConfig, answered by handleRuntimeConfig with status 200.     *)
(* Any other answer, or none, and the loop asks again.                     *)
GetConfig(s) ==
  /\ task[s] = "polling"
  /\ up = "yes"
  /\ s \in runtime
  /\ config' = [config EXCEPT ![s] = incarnation]
  /\ task' = [task EXCEPT ![s] = "configured"]
  /\ UNCHANGED <<attempt, mail, acked, process, memory>>

(* New and StartHTTP.                                                      *)
StartServing(s) ==
  /\ task[s] = "configured"
  /\ task' = [task EXCEPT ![s] = "serving"]
  /\ UNCHANGED <<attempt, mail, config, acked, process, memory>>

TaskDies(s) ==
  /\ s \in MayDie
  /\ task[s] \notin {"absent", "gone"}
  /\ task' = [task EXCEPT ![s] = "gone"]
  /\ UNCHANGED <<attempt, mail, config, acked, process, memory>>

-----------------------------------------------------------------------------
(* The register handler.                                                   *)

(* Bug: once registration is closed a peer is refused even if it is in.    *)
AcceptedBug(s) == state = "waiting_for_peers"

(* register returns nil: registration is open, or the peer is in already.  *)
Accepted(s) == state = "waiting_for_peers" \/ s \in registrations

(* Bug: the changed channel has no buffer.                                 *)
NotifiedBug == IF run = "selecting" THEN 1 ELSE changed

(* The select on changed with an empty default: one token stays.           *)
Notified == 1

(* What becomes of the caller, if it still waits for this very call.       *)
Answer(s, a, arrives) ==
  IF task[s] # "awaiting" \/ attempt[s] # a THEN UNCHANGED <<task, acked>>
  ELSE IF arrives /\ Accepted(s)
    THEN /\ task' = [task EXCEPT ![s] = "polling"]
         /\ acked' = [acked EXCEPT ![s] = incarnation]
    ELSE /\ task' = [task EXCEPT ![s] = "registering"]
         /\ UNCHANGED acked

(* handleRegister.                                                         *)
HandleRegister(s, a, arrives) ==
  /\ up = "yes"
  /\ <<s, a>> \in mail
  /\ mail' = mail \ {<<s, a>>}
  /\ Answer(s, a, arrives)
  /\ \/ /\ state = "waiting_for_peers"
        /\ registrations' = registrations \cup {s}
        /\ changed' = Notified
     \/ /\ state # "waiting_for_peers"
        /\ UNCHANGED <<registrations, changed>>
  /\ UNCHANGED <<attempt, config, process, runtime, state, startup, run, ready>>

-----------------------------------------------------------------------------
(* The controller's run.                                                   *)

Expire ==
  /\ up = "yes"
  /\ startup = "open"
  /\ startup' = "expired"
  /\ UNCHANGED <<tasks, process, registrations, runtime, state, changed, run, ready>>

(* waitForRegistrations counts, under the lock.  register lets in no slot  *)
(* outside 1..expected, so the counts are equal when all are in.           *)
Count ==
  /\ up = "yes"
  /\ run = "counting"
  /\ run' = IF registrations = Slots THEN "building" ELSE "parking"
  /\ UNCHANGED <<tasks, process, registrations, runtime, state, changed, startup, ready>>

(* The lock is released and the select entered: a peer may register in     *)
(* between.                                                                *)
Park ==
  /\ up = "yes"
  /\ run = "parking"
  /\ run' = "selecting"
  /\ UNCHANGED <<tasks, process, registrations, runtime, state, changed, startup, ready>>

(* The select's changed case.  When both cases are ready Go takes either,  *)
(* so the timeout can win over the last registration.                      *)
Changed ==
  /\ up = "yes"
  /\ run = "selecting"
  /\ changed = 1
  /\ changed' = 0
  /\ run' = "counting"
  /\ UNCHANGED <<tasks, process, registrations, runtime, state, startup, ready>>

StartupTimeout ==
  /\ up = "yes"
  /\ run = "selecting"
  /\ startup = "expired"
  /\ state' = "failed"
  /\ run' = "ended"
  /\ UNCHANGED <<tasks, process, registrations, runtime, changed, startup, ready>>

(* buildRuntimeConfigs, under the lock: it refuses an incomplete set.      *)
BuildRuntimeConfigs ==
  LET complete == registrations = Slots
  IN  /\ up = "yes"
      /\ run = "building"
      /\ runtime' = IF complete THEN Slots ELSE runtime
      /\ state' = IF complete THEN "config_ready" ELSE "failed"
      /\ run' = IF complete THEN "setting" ELSE "ended"
      /\ UNCHANGED <<tasks, process, registrations, changed, startup, ready>>

SetState ==
  /\ up = "yes"
  /\ run = "setting"
  /\ state' = "waiting_for_peer_readiness"
  /\ run' = "readying"
  /\ UNCHANGED <<tasks, process, registrations, runtime, changed, startup, ready>>

(* Bug: the peer's control server is up before it has its configuration.   *)
HealthyBug(s) == task[s] \in {"polling", "configured", "serving"}

(* The peer answers /healthz with 200.                                     *)
Healthy(s) == task[s] = "serving"

(* waitReady: a peer that has answered is not asked again.                 *)
SeeReady(s) ==
  /\ up = "yes"
  /\ run = "readying"
  /\ Healthy(s)
  /\ s \notin ready
  /\ ready' = ready \cup {s}
  /\ UNCHANGED <<tasks, process, registrations, runtime, state, changed, startup, run>>

(* Bug: waitReady waits until all peers have answered.                     *)
ReadyEndsBug ==
  /\ up = "yes"
  /\ run = "readying"
  /\ ready = Slots
  /\ run' = "experimenting"
  /\ UNCHANGED <<tasks, process, registrations, runtime, state, changed, startup, ready>>

(* waitReady returns: all have answered, or its timeout is over.           *)
ReadyEnds ==
  /\ up = "yes"
  /\ run = "readying"
  /\ \/ ready = Slots /\ run' = "experimenting" /\ UNCHANGED state
     \/ ready # Slots /\ run' = "ended" /\ state' = "failed"
  /\ UNCHANGED <<tasks, process, registrations, runtime, changed, startup, ready>>

(* The rest of executeExperiment: the phases have timeouts of their own.   *)
ExperimentEnds ==
  /\ up = "yes"
  /\ run = "experimenting"
  /\ run' = "ended"
  /\ state' \in {"completed", "failed"}
  /\ UNCHANGED <<tasks, process, registrations, runtime, changed, startup, ready>>

Run ==
  \/ Count \/ Park \/ Changed \/ StartupTimeout \/ BuildRuntimeConfigs \/ SetState
  \/ ReadyEnds \/ ExperimentEnds

-----------------------------------------------------------------------------
(* The controller's process fails: its connections break, and the peers    *)
(* that waited for an answer will call again.                              *)
Crash ==
  /\ up = "yes"
  /\ up' = "no"
  /\ mail' = {}
  /\ task' = [s \in Slots |-> IF task[s] = "awaiting" THEN "registering" ELSE task[s]]
  /\ UNCHANGED <<attempt, config, acked, incarnation, memory>>

Restart ==
  /\ up = "no"
  /\ incarnation <= MaxRestarts
  /\ up' = "yes"
  /\ incarnation' = incarnation + 1
  /\ registrations' = {}
  /\ runtime' = {}
  /\ state' = "waiting_for_peers"
  /\ changed' = 0
  /\ startup' = "open"
  /\ run' = "counting"
  /\ ready' = {}
  /\ UNCHANGED tasks

Next ==
  \/ \E s \in Slots :
       \/ StartTask(s) \/ SendRegister(s) \/ GiveUp(s) \/ GetConfig(s)
       \/ StartServing(s) \/ TaskDies(s) \/ SeeReady(s)
       \/ \E a \in 1..MaxAttempts, arrives \in {TRUE, ~AnswersLost} :
            HandleRegister(s, a, arrives)
  \/ Expire \/ Run \/ Crash \/ Restart

(* Processes and goroutines that can step do, timers fire, Docker restarts *)
(* what it may.  An answer that can arrive again and again does arrive.    *)
Fairness ==
  /\ \A s \in Slots :
       /\ WF_vars(StartTask(s)) /\ WF_vars(SendRegister(s)) /\ WF_vars(GetConfig(s))
       /\ WF_vars(StartServing(s))
       /\ SF_vars(\E a \in 1..MaxAttempts : HandleRegister(s, a, TRUE))
  /\ WF_vars(Expire) /\ WF_vars(Run) /\ WF_vars(Restart)

Spec == Init /\ [][Next]_vars /\ Fairness

-----------------------------------------------------------------------------
TypeOK ==
  /\ task \in [Slots -> TaskStates]
  /\ attempt \in [Slots -> 1..MaxAttempts]
  /\ mail \in SUBSET (Slots \X (1..MaxAttempts))
  /\ config \in [Slots -> 0..incarnation]
  /\ acked \in [Slots -> 0..incarnation]
  /\ incarnation \in 1..(MaxRestarts + 1)
  /\ up \in {"yes", "no"}
  /\ registrations \in SUBSET Slots
  /\ runtime \in SUBSET Slots
  /\ state \in States
  /\ changed \in 0..1
  /\ startup \in {"open", "expired"}
  /\ run \in RunStates
  /\ ready \in SUBSET Slots

(* No registration is overlooked: when the last peer has registered and    *)
(* the coordinator is in its select or on the way there with an old count, *)
(* the token that makes it count again is in the channel.                  *)
NoMissedRegistration ==
  run \in {"parking", "selecting"} /\ registrations = Slots => changed = 1

(* A restarted controller knows nobody, and a peer that its predecessor    *)
(* acknowledged does not register again: such a controller never gets as   *)
(* far as a configuration, so no two configurations of a run compete.      *)
StrandedPeersStopTheRun ==
  (\E s \in Slots : acked[s] \notin {0, incarnation}) => runtime = {}

(* The peers of an experiment are those this very controller configured,   *)
(* and a completed one had all of them, whatever crashed before.           *)
ExperimentIsOurs ==
  /\ \A s \in ready : config[s] = incarnation
  /\ state = "completed" => ready = Slots

(* A controller that stays up brings its run to an end, when peers never   *)
(* come, die, or wait for a controller that is no more.                    *)
RunEnds == up = "yes" ~> run = "ended" \/ up = "no"

(* Once configurations exist every peer gets its own, even one that has    *)
(* not been acknowledged yet: its retry is let in after registration has   *)
(* closed, because the controller knows it already.                        *)
EveryoneIsConfigured ==
  \A s \in Slots :
    runtime = Slots ~> config[s] # 0 \/ task[s] = "gone" \/ up = "no"

=============================================================================
