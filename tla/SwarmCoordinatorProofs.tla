------------------------ MODULE SwarmCoordinatorProofs ------------------------
(***************************************************************************)
(* What SwarmCoordinator keeps for any number of peers, late calls and     *)
(* restarts: no registration is overlooked, a restarted controller does    *)
(* not mix with its predecessor's run, an experiment has its own peers.    *)
(***************************************************************************)
EXTENDS SwarmCoordinator, TLAPS

(* An acknowledged task never registers again.                             *)
AckedIsPast ==
  \A s \in Slots :
    /\ acked[s] # 0 => task[s] \in {"polling", "configured", "serving", "gone"}
    /\ task[s] \in {"polling", "configured", "serving"} => acked[s] # 0
    /\ task[s] \in {"configured", "serving"} => config[s] # 0

(* A late call of an acknowledged task is on its way to the incarnation    *)
(* that acknowledged it: calls do not outlive the process they were for.   *)
MailIsOurs ==
  /\ up = "no" => mail = {}
  /\ \A s \in Slots, a \in 1..MaxAttempts :
       <<s, a>> \in mail /\ acked[s] # 0 => acked[s] = incarnation

RegisteredIsOurs == \A s \in registrations : acked[s] \in {0, incarnation}

(* Configurations exist only of a complete set of registrations.           *)
RuntimeIsComplete ==
  /\ runtime # {} => registrations = Slots
  /\ run \in {"setting", "readying", "experimenting"} => registrations = Slots

ConfigIsAcked == \A s \in Slots : config[s] # 0 => config[s] = acked[s]

ReadyIsOurs ==
  /\ \A s \in ready : config[s] = incarnation
  /\ run = "experimenting" \/ state = "completed" => ready = Slots

IInv ==
  /\ TypeOK
  /\ NoMissedRegistration
  /\ AckedIsPast
  /\ MailIsOurs
  /\ RegisteredIsOurs
  /\ RuntimeIsComplete
  /\ ConfigIsAcked
  /\ ReadyIsOurs

-----------------------------------------------------------------------------
LEMMA TypeStep == ASSUME TypeOK, [Next]_vars PROVE TypeOK'
<1> USE SwarmAssumption DEF TypeOK, tasks, process, memory
<1>1. ASSUME NEW s \in Slots, StartTask(s) PROVE TypeOK'
  BY <1>1 DEF StartTask, TaskStates
<1>2. ASSUME NEW s \in Slots, SendRegister(s) PROVE TypeOK'
  BY <1>2 DEF SendRegister, TaskStates
<1>3. ASSUME NEW s \in Slots, GiveUp(s) PROVE TypeOK'
  BY <1>3 DEF GiveUp, TaskStates
<1>4. ASSUME NEW s \in Slots, GetConfig(s) PROVE TypeOK'
  BY <1>4 DEF GetConfig, TaskStates
<1>5. ASSUME NEW s \in Slots, StartServing(s) \/ TaskDies(s) PROVE TypeOK'
  BY <1>5 DEF StartServing, TaskDies, TaskStates
<1>6. ASSUME NEW s \in Slots, SeeReady(s) PROVE TypeOK'
  BY <1>6 DEF SeeReady
<1>7. ASSUME NEW s \in Slots, NEW a \in 1..MaxAttempts, NEW arrives \in BOOLEAN,
             HandleRegister(s, a, arrives)
      PROVE  TypeOK'
  BY <1>7 DEF HandleRegister, Answer, Notified, TaskStates
<1>8. ASSUME Expire \/ Run PROVE TypeOK'
  BY <1>8 DEF Expire, Run, Count, Park, Changed, StartupTimeout, BuildRuntimeConfigs,
              SetState, ReadyEnds, ExperimentEnds, States, RunStates
<1>9. ASSUME Crash PROVE TypeOK'
  BY <1>9 DEF Crash, TaskStates
<1>10. ASSUME Restart PROVE TypeOK'
  BY <1>10 DEF Restart, States, RunStates
<1>11. ASSUME UNCHANGED vars PROVE TypeOK'
  BY <1>11 DEF vars
<1>12. {TRUE, ~AnswersLost} \subseteq BOOLEAN
  OBVIOUS
<1> HIDE DEF TypeOK, tasks, process, memory
<1> QED
  BY <1>1, <1>2, <1>3, <1>4, <1>5, <1>6, <1>7, <1>8, <1>9, <1>10, <1>11, <1>12 DEF Next

-----------------------------------------------------------------------------
(* A step of the peers leaves the controller's memory alone.               *)
LEMMA TaskStep ==
  ASSUME IInv, TypeOK', NEW s \in Slots,
         \/ StartTask(s) \/ SendRegister(s) \/ GiveUp(s) \/ GetConfig(s)
         \/ StartServing(s) \/ TaskDies(s)
  PROVE  IInv'
<1> USE SwarmAssumption DEF IInv
<1>1. memory' = memory /\ process' = process /\ acked' = acked
  BY DEF StartTask, SendRegister, GiveUp, GetConfig, StartServing, TaskDies
<1>2. NoMissedRegistration' /\ RegisteredIsOurs' /\ RuntimeIsComplete'
  BY <1>1 DEF NoMissedRegistration, RegisteredIsOurs, RuntimeIsComplete, memory, process
<1>3. AckedIsPast'
  BY DEF AckedIsPast, TypeOK, TaskStates, StartTask, SendRegister, GiveUp, GetConfig,
         StartServing, TaskDies
<1>4. MailIsOurs'
  <2>1. ASSUME SendRegister(s) PROVE MailIsOurs'
    BY <2>1, <1>1 DEF SendRegister, MailIsOurs, AckedIsPast, TypeOK, process
  <2>2. ASSUME mail' = mail PROVE MailIsOurs'
    BY <2>2, <1>1 DEF MailIsOurs, process
  <2> QED BY <2>1, <2>2 DEF StartTask, GiveUp, GetConfig, StartServing, TaskDies
<1>5. ConfigIsAcked' /\ ReadyIsOurs'
  <2>1. ASSUME GetConfig(s) PROVE ConfigIsAcked' /\ ReadyIsOurs'
    <3>1. acked[s] = incarnation /\ incarnation # 0
      BY <2>1 DEF GetConfig, RuntimeIsComplete, RegisteredIsOurs, AckedIsPast, TypeOK
    <3> QED
      BY <2>1, <3>1, <1>1
      DEF GetConfig, ConfigIsAcked, ReadyIsOurs, TypeOK, memory, process
  <2>2. ASSUME config' = config PROVE ConfigIsAcked' /\ ReadyIsOurs'
    BY <2>2, <1>1 DEF ConfigIsAcked, ReadyIsOurs, memory, process
  <2> QED BY <2>1, <2>2 DEF StartTask, SendRegister, GiveUp, StartServing, TaskDies
<1> QED BY <1>2, <1>3, <1>4, <1>5

(* Whoever's call the controller handles was not acknowledged before by    *)
(* another incarnation.                                                    *)
LEMMA RegisterStep ==
  ASSUME IInv, TypeOK', NEW s \in Slots, NEW a \in 1..MaxAttempts,
         NEW arrives \in BOOLEAN, HandleRegister(s, a, arrives)
  PROVE  IInv'
<1> USE SwarmAssumption DEF IInv
<1>1. /\ config' = config /\ process' = process /\ runtime' = runtime /\ run' = run
      /\ state' = state /\ ready' = ready /\ mail' \subseteq mail /\ up = "yes"
      /\ registrations' \in {registrations, registrations \cup {s}}
  BY DEF HandleRegister
<1>2. acked[s] \in {0, incarnation}
  BY DEF HandleRegister, MailIsOurs
<1>3. /\ \A t \in Slots \ {s} : acked'[t] = acked[t] /\ task'[t] = task[t]
      /\ \/ acked' = acked /\ task' = task
         \/ /\ task[s] = "awaiting" /\ acked'[s] = incarnation /\ task'[s] = "polling"
         \/ /\ task[s] = "awaiting" /\ acked' = acked /\ task'[s] = "registering"
  BY DEF HandleRegister, Answer, TypeOK
<1>4. acked'[s] \in {0, incarnation} /\ incarnation # 0
  BY <1>2, <1>3 DEF TypeOK
<1>5. NoMissedRegistration'
  BY DEF HandleRegister, NoMissedRegistration, Notified, TypeOK
<1>6. AckedIsPast'
  BY <1>1, <1>3, <1>4 DEF AckedIsPast, TypeOK
<1>7. MailIsOurs'
  BY <1>1, <1>3, <1>4 DEF MailIsOurs, process
<1>8. RegisteredIsOurs'
  BY <1>1, <1>3, <1>4 DEF RegisteredIsOurs, TypeOK, process
<1>9. RuntimeIsComplete'
  BY <1>1 DEF RuntimeIsComplete, TypeOK
<1>10. ConfigIsAcked' /\ ReadyIsOurs'
  BY <1>1, <1>3 DEF ConfigIsAcked, ReadyIsOurs, AckedIsPast, TypeOK, process
<1> QED BY <1>5, <1>6, <1>7, <1>8, <1>9, <1>10

(* A step of the controller's own goroutine leaves the peers alone.        *)
LEMMA RunStep ==
  ASSUME IInv, TypeOK', Expire \/ Run \/ \E s \in Slots : SeeReady(s)
  PROVE  IInv'
<1> USE SwarmAssumption DEF IInv
<1>1. tasks' = tasks /\ process' = process /\ registrations' = registrations
  BY DEF Expire, Run, Count, Park, Changed, StartupTimeout, BuildRuntimeConfigs,
         SetState, SeeReady, ReadyEnds, ExperimentEnds
<1>2. AckedIsPast' /\ MailIsOurs' /\ RegisteredIsOurs' /\ ConfigIsAcked'
  BY <1>1 DEF AckedIsPast, MailIsOurs, RegisteredIsOurs, ConfigIsAcked, tasks, process
<1>3. NoMissedRegistration' /\ RuntimeIsComplete'
  BY DEF NoMissedRegistration, RuntimeIsComplete, TypeOK, Expire, Run, Count, Park, Changed,
         StartupTimeout, BuildRuntimeConfigs, SetState, SeeReady, ReadyEnds, ExperimentEnds
<1>4. ReadyIsOurs'
  <2>1. ASSUME NEW s \in Slots, SeeReady(s) PROVE ReadyIsOurs'
    <3>1. config[s] = incarnation
      BY <2>1 DEF SeeReady, Healthy, AckedIsPast, ConfigIsAcked, RuntimeIsComplete,
                  RegisteredIsOurs, TypeOK
    <3> QED
      BY <2>1, <3>1, <1>1 DEF SeeReady, ReadyIsOurs, TypeOK, tasks, process
  <2>2. ASSUME Expire \/ Run PROVE ReadyIsOurs'
    BY <2>2, <1>1 DEF ReadyIsOurs, Expire, Run, Count, Park, Changed, StartupTimeout,
       BuildRuntimeConfigs, SetState, ReadyEnds, ExperimentEnds, tasks, process
  <2> QED BY <2>1, <2>2
<1> QED BY <1>2, <1>3, <1>4

LEMMA CrashStep == ASSUME IInv, TypeOK', Crash PROVE IInv'
BY DEF IInv, Crash, TypeOK, NoMissedRegistration, AckedIsPast, MailIsOurs, RegisteredIsOurs,
       RuntimeIsComplete, ConfigIsAcked, ReadyIsOurs, memory

LEMMA RestartStep == ASSUME IInv, TypeOK', Restart PROVE IInv'
<1> USE DEF IInv, Restart, tasks
<1>1. AckedIsPast' /\ MailIsOurs' /\ RegisteredIsOurs' /\ RuntimeIsComplete' /\ ConfigIsAcked'
  BY DEF AckedIsPast, MailIsOurs, RegisteredIsOurs, RuntimeIsComplete, ConfigIsAcked
<1>2. NoMissedRegistration' /\ ReadyIsOurs'
  BY DEF NoMissedRegistration, ReadyIsOurs
<1> QED BY <1>1, <1>2

-----------------------------------------------------------------------------
LEMMA InvariantHolds == Spec => []IInv
<1>1. Init => IInv
  BY SwarmAssumption
  DEF Init, IInv, TypeOK, TaskStates, States, RunStates, NoMissedRegistration, AckedIsPast,
      MailIsOurs, RegisteredIsOurs, RuntimeIsComplete, ConfigIsAcked, ReadyIsOurs
<1>2. IInv /\ [Next]_vars => IInv'
  <2> SUFFICES ASSUME IInv, [Next]_vars PROVE IInv'
    OBVIOUS
  <2>1. TypeOK'
    BY TypeStep DEF IInv
  <2>2. CASE UNCHANGED vars
    BY <2>1, <2>2
    DEF vars, tasks, process, memory, IInv, NoMissedRegistration, AckedIsPast, MailIsOurs,
        RegisteredIsOurs, RuntimeIsComplete, ConfigIsAcked, ReadyIsOurs
  <2>3. CASE Next
    BY <2>1, <2>3, SwarmAssumption, TaskStep, RegisterStep, RunStep, CrashStep, RestartStep
    DEF Next
  <2> QED BY <2>2, <2>3
<1> QED BY <1>1, <1>2, PTL DEF Spec

(* Incarnations, calls and sets of slots stay in their ranges.             *)
THEOREM TypeCorrect == Spec => []TypeOK
BY InvariantHolds, PTL DEF IInv

(* No registration is overlooked by waitForRegistrations.                  *)
THEOREM RegistrationsAreNotMissed == Spec => []NoMissedRegistration
BY InvariantHolds, PTL DEF IInv

(* A controller that is not the one some peer was acknowledged by never    *)
(* builds a configuration.                                                 *)
THEOREM RestartsDoNotMix == Spec => []StrandedPeersStopTheRun
<1>1. IInv => StrandedPeersStopTheRun
  BY DEF IInv, StrandedPeersStopTheRun, RuntimeIsComplete, RegisteredIsOurs, TypeOK
<1> QED BY <1>1, InvariantHolds, PTL

(* Every experiment runs on peers that its own controller configured.      *)
THEOREM ExperimentsAreOurs == Spec => []ExperimentIsOurs
<1>1. IInv => ExperimentIsOurs
  BY DEF IInv, ExperimentIsOurs, ReadyIsOurs
<1> QED BY <1>1, InvariantHolds, PTL

=============================================================================
