----------------------------- MODULE RunLifecycle -----------------------------
(***************************************************************************)
(* The life of one Swarm run as the command line drives it                 *)
(* (internal/controller/run.go, docker.go, manage.go, swarm_client.go):    *)
(* peerkit run deploys the stack in batches, waits, downloads and removes, *)
(* or leaves that to peerkit collect and peerkit stop.  The invocations    *)
(* are processes of their own on the same run directory and the same       *)
(* stack; they may run at the same time, and be killed at any step.        *)
(*                                                                         *)
(* Docker is external: a command may fail, a listing may go un-        *)
(* answered, and tasks come up when they like. The inside of the run is the  *)
(* subject of SwarmCoordinator and Experiment; here the Controller is      *)
(* running, completed or failed.  A file has an inode, since a second      *)
(* writer of the same name shares it.                                      *)
(*                                                                         *)
(* A definition whose name ends in Bug is no part of Spec: it is the wrong *)
(* variant of the definition after it that some property must catch.       *)
(***************************************************************************)
EXTENDS Integers, FiniteSets

CONSTANTS
  Runner,     (* the invocation of peerkit run                             *)
  Others,     (* where collect and stop are called, one after the other    *)
  RunCommands, LaterCommands, (* bounds: the commands and flags in play    *)
  Nobody,     (* no inode: the file does not exist                         *)
  Peers,      (* how many peer tasks the scenario asks for                 *)
  BatchSize   (* deployment.swarm.startup_batch_size                       *)

Processes == {Runner} \cup Others

(* One for each process that has the file open, and the archive's.         *)
Inodes == 1..Cardinality(Processes) + 1

ASSUME LifecycleAssumption ==
  /\ Runner \notin Others /\ IsFiniteSet(Others) /\ Nobody \notin Processes \cup Inodes
  /\ RunCommands \subseteq {"run", "run keep", "run detach"}
  /\ LaterCommands \subseteq {"collect", "collect keep", "collect force", "stop"}
  /\ Peers \in Nat \ {0} /\ BatchSize \in Nat \ {0}

VARIABLES
  (* Docker and the Controller *)
  stack,      (* kinds of resources of the stack that exist                *)
  desired,    (* replicas the peer service is scaled to                    *)
  started,    (* of those, tasks that have reached Running                 *)
  control,    (* the Controller: absent, running, completed, failed        *)
  (* the run directory                                                     *)
  part, archive, (* inode of peerkit-results.tar.gz.part, and without .part*)
  whole,      (* inodes that hold a complete archive                       *)
  results,    (* the extracted directory: none, partial, complete          *)
  (* the invocations *)
  pc,         (* process -> where it stands                                *)
  options,    (* process -> the command and its flags                      *)
  target,     (* the Runner's current batch                                *)
  inode,      (* process -> the inode it has open                          *)
  wiped,      (* processes whose extraction another one has removed from   *)
  found,      (* process -> resources the current round has listed         *)
  unsure,     (* processes without an answer to a listing of this round   *)
  tail,       (* process -> what the outcome of its removal means          *)
  calm,       (* history: processes that began to remove after the deploy  *)
  released,   (* history: someone removes without having saved             *)
  finished    (* history: the Controller has completed                     *)

dockerVars == <<stack, desired, started, control, finished>>
fileVars == <<part, archive, whole, results, inode, wiped>>
removeVars == <<found, unsure, tail, calm, released>>
vars == <<dockerVars, fileVars, removeVars, pc, options, target>>

-----------------------------------------------------------------------------
(* The kinds of resources in the order removeSwarmResources lists them; an *)
(* "other" is a network or a config, which nothing here tells apart.       *)
Kinds == {"service", "other"}
FirstKind == "service"
NextKind == [service |-> "other"]

(* The order in which docker stack deploy creates them.                    *)
Creates == [mkOther |-> "other", mkService |-> "service"]
NextStep == [mkOther |-> "mkService", mkService |-> "exist"]

Deploying == DOMAIN Creates \cup {"exist", "healthy", "scale", "settle"}
Ended == {"ok", "failed"}
Least(a, b) == IF a <= b THEN a ELSE b

(* The command with --keep, --detach or --remove-on-failure (force), which *)
(* has no effect beside --keep.                                            *)
Commands == RunCommands \cup LaterCommands
Downloading == Commands \ {"run detach", "stop"}
Keeping == {"run keep", "collect keep"}

Init ==
  /\ stack = {} /\ desired = 0 /\ started = 0
  /\ control = "absent" /\ finished = FALSE
  /\ part = Nobody /\ archive = Nobody /\ whole = {}
  /\ results = "none"
  /\ pc = [p \in Processes |-> IF p = Runner THEN "mkOther" ELSE "idle"]
  /\ \E o \in RunCommands :
       options = [p \in Processes |-> IF p = Runner THEN o ELSE "stop"]
  /\ target = Least(BatchSize, Peers)
  /\ inode = [p \in Processes |-> Nobody] /\ wiped = {}
  /\ found = [p \in Processes |-> {}] /\ unsure = {}
  /\ tail = [p \in Processes |-> "report"] /\ calm = {}
  /\ released = FALSE

Goto(p, label) == pc' = [pc EXCEPT ![p] = label]

-----------------------------------------------------------------------------
(* Docker and the Controller.                                              *)
TaskStarts ==
  /\ FirstKind \in stack /\ started < desired
  /\ started' = started + 1
  /\ UNCHANGED <<stack, desired, control, finished, fileVars, removeVars, pc, options, target>>

ControlEnds ==
  /\ control = "running"
  /\ \/ /\ started = Peers
        /\ control' = "completed" /\ finished' = TRUE
     \/ control' = "failed" /\ UNCHANGED finished
  /\ UNCHANGED <<stack, desired, started, fileVars, removeVars, pc, options, target>>

-----------------------------------------------------------------------------
(* stackDeploy.  docker stack deploy creates the networks and configs, and *)
(* then the services, the peer service with no replica yet.                *)
Create ==
  /\ pc[Runner] \in DOMAIN Creates
  /\ LET kind == Creates[pc[Runner]] IN
     /\ kind = FirstKind => stack = Kinds \ {FirstKind}
     /\ stack' = stack \cup {kind}
     /\ control' = IF kind = FirstKind THEN "running" ELSE control
  /\ Goto(Runner, NextStep[pc[Runner]])
  /\ UNCHANGED <<desired, started, finished, fileVars, removeVars, options, target>>

(* waitServiceExists, of both services.                                    *)
Deployed ==
  /\ pc[Runner] = "exist" /\ FirstKind \in stack
  /\ Goto(Runner, "healthy")
  /\ UNCHANGED <<dockerVars, fileVars, removeVars, options, target>>

(* waitServiceReplicas and waitControllerHTTP of the Controller.           *)
ControlReady ==
  /\ pc[Runner] = "healthy" /\ control # "absent"
  /\ Goto(Runner, "scale")
  /\ UNCHANGED <<dockerVars, fileVars, removeVars, options, target>>

(* scaleServiceStaged: docker service scale to the next target.            *)
Scale ==
  /\ pc[Runner] = "scale" /\ FirstKind \in stack
  /\ desired' = target
  /\ Goto(Runner, "settle")
  /\ UNCHANGED <<stack, started, control, finished, fileVars, removeVars,
                 options, target>>

(* Bug: the desired count is waited for, not the running tasks.            *)
BatchReadyBug == desired = target

(* waitDesiredReplicas and waitServiceReplicas.                            *)
BatchReady == desired = target /\ started >= target

(* The next batch, or the stack is up: a detached run returns.             *)
Settle ==
  /\ pc[Runner] = "settle" /\ FirstKind \in stack /\ BatchReady
  /\ IF target = Peers
     THEN /\ Goto(Runner, IF options[Runner] = "run detach" THEN "ok" ELSE "wait")
          /\ UNCHANGED target
     ELSE Goto(Runner, "scale") /\ target' = Least(target + BatchSize, Peers)
  /\ UNCHANGED <<dockerVars, fileVars, removeVars, options>>

(* A command fails, a time-out ends, a task failed or a signal came: the   *)
(* diagnostics are saved and the stack is left as it is.                   *)
DeployFails ==
  /\ pc[Runner] \in Deploying
  /\ Goto(Runner, "failed")
  /\ UNCHANGED <<dockerVars, fileVars, removeVars, options, target>>

-----------------------------------------------------------------------------
(* peerkit collect or stop is called on the run directory, again and again.*)
BeginRemove(p, meaning) ==
  /\ Goto(p, "stackRm")
  /\ tail' = [tail EXCEPT ![p] = meaning]
  /\ calm' = IF pc[Runner] \in Deploying THEN calm \ {p} ELSE calm \cup {p}

Start(p) ==
  /\ p \in Others /\ pc[p] \in Ended \cup {"idle"}
  /\ \E o \in LaterCommands :
       /\ options' = [options EXCEPT ![p] = o]
       /\ IF o = "stop"
          THEN BeginRemove(p, "report") /\ released' = TRUE
          ELSE Goto(p, "wait") /\ calm' = calm \ {p} /\ UNCHANGED <<tail, released>>
  /\ UNCHANGED <<dockerVars, fileVars, target, found, unsure>>

(* Waiting or downloading has failed.  run cleans up by its defer unless   *)
(* --keep; collect only with --remove-on-failure and without --keep.       *)
Removes(o) == o \in {"run", "collect force"}

Fails(p) ==
  IF Removes(options[p])
  THEN BeginRemove(p, "ignore") /\ released' = TRUE /\ UNCHANGED <<found, unsure>>
  ELSE Goto(p, "failed") /\ UNCHANGED removeVars

(* waitSwarmRunInterval: the Controller says completed, or failed, or the  *)
(* time is up or a signal came while it said neither.                      *)
WaitCompleted(p) ==
  /\ pc[p] = "wait" /\ control = "completed"
  /\ Goto(p, "request")
  /\ UNCHANGED <<dockerVars, fileVars, removeVars, options, target>>

WaitFails(p) ==
  /\ pc[p] = "wait"
  /\ Fails(p)
  /\ UNCHANGED <<dockerVars, fileVars, options, target>>

-----------------------------------------------------------------------------
(* downloadAndExtractSwarmArchive.  The answer's header is there; the part *)
(* file is created, or truncated when another process has one.             *)
OpenPart(p) ==
  /\ pc[p] = "request" /\ control = "completed"
  /\ LET held == {inode[q] : q \in Processes \ {p}}
         i == IF part # Nobody THEN part
              ELSE CHOOSE i \in Inodes : i \notin held \cup {archive} IN
     /\ part' = i
     /\ whole' = whole \ {i}
     /\ inode' = [inode EXCEPT ![p] = i]
  /\ Goto(p, "copy")
  /\ UNCHANGED <<dockerVars, removeVars, archive, results, wiped, options, target>>

(* A file without a name that nobody has open is gone.                     *)
Kept(files) == files \cap ({part', archive'} \cup {inode'[p] : p \in Processes})

Close(p) ==
  /\ inode' = [inode EXCEPT ![p] = Nobody]
  /\ wiped' = wiped \ {p}

(* The body is copied.  The file is not whole when handleArchive could not *)
(* read a result and cut its answer short, which looks like its end here;  *)
(* nor, possibly, when another process has truncated the file meanwhile.   *)
CopyDone(p) ==
  /\ pc[p] = "copy"
  /\ whole' \in {whole \cup {inode[p]}, whole}
  /\ Close(p)
  /\ Goto(p, "validate")
  /\ UNCHANGED <<dockerVars, removeVars, part, archive, results, options, target>>

(* A lost connection, a full disk, a signal, the client's ten minutes: the *)
(* part file is removed, whoever's it is by then.                          *)
DownloadFails(p) ==
  /\ pc[p] \in {"request", "copy"}
  /\ part' = IF pc[p] = "copy" THEN Nobody ELSE part
  /\ Fails(p) /\ Close(p)
  /\ UNCHANGED <<dockerVars, archive, results, options, target>>
  /\ whole' = Kept(whole)

(* validateTarGZ reads the part file by its name.                          *)
Valid == part # Nobody /\ part \in whole

Validate(p) ==
  /\ pc[p] = "validate"
  /\ IF Valid THEN Goto(p, "rename") /\ UNCHANGED <<part, removeVars>>
     ELSE part' = Nobody /\ Fails(p)
  /\ UNCHANGED <<dockerVars, archive, whole, results, inode, wiped, options, target>>

(* os.Rename moves whatever has the name now, or fails and leaves it.      *)
Rename(p) ==
  /\ pc[p] = "rename"
  /\ \/ /\ part # Nobody
        /\ archive' = part /\ part' = Nobody
        /\ Goto(p, "wipe")
        /\ UNCHANGED removeVars
     \/ UNCHANGED <<archive, part>> /\ Fails(p)
  /\ UNCHANGED <<dockerVars, results, inode, wiped, options, target>>
  /\ whole' = Kept(whole)

(* os.RemoveAll of the result directory, under the hands of a process that *)
(* is extracting into it.  When it fails, as when the extraction does.     *)
Wipe(p) ==
  /\ pc[p] = "wipe"
  /\ results' = "none"
  /\ wiped' = {q \in Processes \ {p} : pc[q] = "extract"}
  /\ inode' = [inode EXCEPT ![p] = archive]
  /\ Goto(p, "extract")
  /\ UNCHANGED <<dockerVars, removeVars, part, archive, whole, options, target>>

(* The caller goes on: collect verifies, run cleans up.                    *)
Extracted(p) ==
  IF options[p] \notin RunCommands THEN Goto(p, "verify") /\ UNCHANGED removeVars
  ELSE IF options[p] \in Keeping THEN Goto(p, "ok") /\ UNCHANGED removeVars
  ELSE BeginRemove(p, "retry") /\ UNCHANGED <<found, unsure, released>>

(* extractTarGZ, to the end of a whole archive; of one that another        *)
(* process is still writing, or on a full disk, up to an error.            *)
ExtractDone(p) ==
  /\ pc[p] = "extract" /\ inode[p] \in whole
  /\ results' \in IF p \in wiped \/ \E q \in Processes \ {p} : pc[q] = "extract"
                  THEN {"partial", "complete"} ELSE {"complete"}
  /\ Close(p)
  /\ Extracted(p)
  /\ UNCHANGED <<dockerVars, part, archive, options, target>>
  /\ whole' = Kept(whole)

(* Bug: only the error of closing the archive is looked at.                *)
ExtractFailsBug(p) ==
  /\ pc[p] = "extract"
  /\ results' = "partial"
  /\ Extracted(p) /\ Close(p)
  /\ UNCHANGED <<dockerVars, part, archive, options, target>>
  /\ whole' = Kept(whole)

ExtractFails(p) ==
  /\ pc[p] = "extract"
  /\ results' = "partial"
  /\ Fails(p) /\ Close(p)
  /\ UNCHANGED <<dockerVars, part, archive, options, target>>
  /\ whole' = Kept(whole)

(* verifyCollectedResults: the summary and the messages are there.  When   *)
(* they are not, collect ends and leaves the deployment alone.             *)
Verify(p) ==
  /\ pc[p] = "verify"
  /\ \/ /\ results # "none"
        /\ IF options[p] \in Keeping THEN Goto(p, "ok") /\ UNCHANGED removeVars
           ELSE BeginRemove(p, "report") /\ UNCHANGED <<found, unsure, released>>
     \/ results # "complete" /\ Goto(p, "failed") /\ UNCHANGED removeVars
  /\ UNCHANGED <<dockerVars, fileVars, options, target>>

-----------------------------------------------------------------------------
(* What Docker has removed of the stack; without the services there are no *)
(* tasks, and no Controller.                                               *)
Lose(gone) ==
  /\ stack' = stack \ gone
  /\ IF FirstKind \in gone
     THEN control' = "absent" /\ desired' = 0 /\ started' = 0
     ELSE UNCHANGED <<control, desired, started>>
  /\ UNCHANGED finished

(* docker stack rm, whose errors are ignored: all, some or nothing of it.  *)
StackRm(p) ==
  /\ pc[p] = "stackRm"
  /\ \E gone \in SUBSET stack : Lose(gone)
  /\ found' = [found EXCEPT ![p] = {}]
  /\ unsure' = unsure \ {p}
  /\ Goto(p, FirstKind)
  /\ UNCHANGED <<fileVars, tail, calm, released, options, target>>

(* The removal reports success or failure to its caller; after a saved run *)
(* whose clean-up fails, the defer tries once more and only logs.          *)
Removed(p) ==
  /\ Goto(p, IF tail[p] = "ignore" THEN "failed" ELSE "ok")
  /\ tail' = [tail EXCEPT ![p] = "report"]

NotRemoved(p) ==
  IF tail[p] = "retry" THEN Goto(p, "stackRm") /\ tail' = [tail EXCEPT ![p] = "ignore"]
  ELSE Goto(p, "failed") /\ tail' = [tail EXCEPT ![p] = "report"]

(* Bug: without services the rest counts as removed.                       *)
NothingLeftBug(p) == "service" \notin found'[p]

(* Nothing was listed; a listing that failed has listed nothing.           *)
NothingLeft(p) == found'[p] = {}

(* stackResourceIDs of one kind, and the decision after the last one.      *)
ListKind(p) ==
  /\ pc[p] \in Kinds
  /\ \/ found' = [found EXCEPT ![p] = @ \cup ({pc[p]} \cap stack)] /\ UNCHANGED unsure
     \/ unsure' = unsure \cup {p} /\ UNCHANGED found
  /\ IF pc[p] \in DOMAIN NextKind THEN Goto(p, NextKind[pc[p]]) /\ UNCHANGED tail
     ELSE IF NothingLeft(p) THEN Removed(p)
     ELSE Goto(p, "rm") /\ UNCHANGED tail
  /\ UNCHANGED <<dockerVars, fileVars, calm, released, options, target>>

(* docker service, network and config rm of what was listed, and the next  *)
(* round: the ticker.                                                      *)
RemoveListed(p) ==
  /\ pc[p] = "rm"
  /\ \E gone \in SUBSET (found[p] \cap stack) : Lose(gone)
  /\ found' = [found EXCEPT ![p] = {}]
  /\ unsure' = unsure \ {p}
  /\ Goto(p, FirstKind)
  /\ UNCHANGED <<fileVars, tail, calm, released, options, target>>

(* Bug: the time-out is not looked at while there is something to remove.  *)
RemoveExpiresBug(p) ==
  /\ pc[p] = "rm" /\ found[p] = {}
  /\ NotRemoved(p)
  /\ found' = [found EXCEPT ![p] = {}] /\ unsure' = unsure \ {p}
  /\ UNCHANGED <<dockerVars, fileVars, calm, released, options, target>>

(* The removal's own time-out, between two rounds.                         *)
RemoveExpires(p) ==
  /\ pc[p] = "rm"
  /\ NotRemoved(p)
  /\ found' = [found EXCEPT ![p] = {}] /\ unsure' = unsure \ {p}
  /\ UNCHANGED <<dockerVars, fileVars, calm, released, options, target>>

(* An invocation is killed: no defer runs, no file is removed.             *)
Kill(p) ==
  /\ pc[p] \notin Ended \cup {"idle"}
  /\ Goto(p, "failed") /\ Close(p)
  /\ found' = [found EXCEPT ![p] = {}] /\ unsure' = unsure \ {p}
  /\ tail' = [tail EXCEPT ![p] = "report"]
  /\ UNCHANGED <<dockerVars, part, archive, results, calm, released, options, target>>
  /\ whole' = Kept(whole)

-----------------------------------------------------------------------------
Download(p) ==
  \/ OpenPart(p) \/ CopyDone(p) \/ DownloadFails(p) \/ Validate(p) \/ Rename(p)
  \/ Wipe(p) \/ ExtractDone(p) \/ ExtractFails(p) \/ Verify(p)

Remove(p) == StackRm(p) \/ ListKind(p) \/ RemoveListed(p)

Deploy == Create \/ Deployed \/ ControlReady \/ Scale \/ Settle \/ DeployFails

Advance(p) == WaitCompleted(p) \/ WaitFails(p) \/ Download(p) \/ Remove(p)

Next ==
  \/ Deploy
  \/ \E p \in Processes : Start(p) \/ Advance(p) \/ RemoveExpires(p) \/ Kill(p)
  \/ TaskStarts \/ ControlEnds

(* Commands and requests return, each under a time-out.  A removal that    *)
(* goes round for ever meets its own time-out in one of the rounds.        *)
Fairness ==
  /\ WF_vars(Deploy)
  /\ \A p \in Processes : WF_vars(Advance(p)) /\ SF_vars(RemoveExpires(p))

Spec == Init /\ [][Next]_vars /\ Fairness

-----------------------------------------------------------------------------
TypeOK ==
  /\ stack \subseteq Kinds
  /\ desired \in 0..Peers /\ started \in 0..desired
  /\ finished \in BOOLEAN /\ released \in BOOLEAN
  /\ control \in {"absent", "running", "completed", "failed"}
  /\ part \in Inodes \cup {Nobody} /\ archive \in Inodes \cup {Nobody}
  /\ whole \subseteq Inodes
  /\ results \in {"none", "partial", "complete"}
  /\ options \in [Processes -> Commands \cup {"stop"}]
  /\ target \in 1..Peers
  /\ inode \in [Processes -> Inodes \cup {Nobody}]
  /\ wiped \subseteq Processes
  /\ found \in [Processes -> SUBSET Kinds] /\ unsure \subseteq Processes
  /\ tail \in [Processes -> {"report", "ignore", "retry"}] /\ calm \subseteq Processes

(* The run directory has a complete copy.                                  *)
Saved == archive \in whole \/ results = "complete"

(* Once a run has completed, its results are at the Controller or complete *)
(* in the run directory, although two invocations download, extract, are   *)
(* killed or remove at the same time, unless someone gave them up: a stop, *)
(* a collect with --remove-on-failure, or the clean-up of a run that       *)
(* failed to save them.  An invocation that reports success after a        *)
(* download has saved them.  Of three invocations it does not hold: the    *)
(* third can truncate the part file the second has validated, which is     *)
(* then renamed over the archive the first has saved before it removed.    *)
ResultsSurvive ==
  /\ finished /\ ~released => control = "completed" \/ Saved
  /\ (\E p \in Processes : pc[p] = "ok" /\ options[p] \in Downloading) => Saved

(* Peer tasks start in batches: however slowly tasks come up, and whoever  *)
(* removes the services meanwhile, never more than a batch is on its way.  *)
StagedStart == desired - started <= BatchSize

(* An invocation that reports the deployment removed is right, when Docker *)
(* answered its last listings and it began after the deploy: no resource   *)
(* of any kind is left or comes back.                                      *)
RemovalIsThorough ==
  \A p \in calm : pc[p] = "ok" /\ p \notin unsure => stack = {}

(* Every invocation ends, with a Controller that never answers, a Docker   *)
(* that removes nothing and another process on the same files.             *)
InvocationsEnd ==
  \A p \in Processes : pc[p] # "idle" ~> pc[p] \in Ended
=============================================================================
