# Verification of peerkit

peerkit runs message-propagation experiments: it starts one container per node of
a topology, each running a libp2p peer, connects the peers, injects messages,
and turns the peers' event files into a summary. This directory holds TLA+ models
of that program, TLC configurations that check them on small instances, and
proofs checked by TLAPS. Paths below are relative to `src/`.

## The system

| Component | State it keeps | Operations | What makes it correct |
|---|---|---|---|
| Peer, forwarding (`internal/p2p/peer.go`, `forwarding.go`, `hopwave.go`, `wire.go`) | `seen`, `knowledge` per message, `processQueue`, per-edge queues and streams | Inject, handleStream, acceptMessage, acceptIDontWant, enqueueProcessing, runWorker, edgeSender.send/write | each message is processed once per peer and forwarded at most once per edge; suppression withholds nothing from a peer that lacks it; without loss everyone is reached; a gap is explained by a recorded drop |
| Peer, edge queues (`edgeSender`) | `controlQueue`, `dataQueue`, `wake` | enqueue, dequeue, run | bounds hold, control goes first, no wake-up is lost, FIFO per class |
| Peer, event writer (`internal/metrics/writer.go`, `Peer.record`, `Finalize`, `handleResults`) | `events` channel, buffer, file, `closed`, `finalized` | Write, run, Close, Finalize, results | no send on a closed channel, nothing accepted is lost, nobody blocks for ever, final results are complete |
| Peer, control API (`StartHTTP`, `ConnectNeighbors`, `PrepareStreams`, `gater.go`) | connections | connect, prepare, status, inject, finalize, results | only neighbors are connected; prepared streams exist for every neighbor |
| Peer, Swarm bootstrap (`internal/p2p/bootstrap.go`, `cmd/peerkit-peer`) | identity, slot | register with retry, wait for the configuration | a retry is never refused once accepted |
| Swarm coordinator (`internal/controller/swarm_coordinator.go`, `swarm_server.go`) | `registrations`, `runtime`, `state`, `changed` | register, config, status, archive, run | every run ends; no registration is overlooked; configurations agree with registrations |
| Experiment (`internal/controller/experiment.go`, `http.go`, `traffic.go`) | phase, remaining peers | wait ready, connect, topology, prepare, inject, finalize, download, aggregate | phases are in order, a failure stops the rest, results are complete |
| Run life cycle (`internal/controller/run.go`, `manage.go`, `docker.go`, `swarm_client.go`) | run directory, stack, archive | deploy, wait, collect, remove | nothing is removed before the results are safe; removal is complete |
| Deployment files, inspection (`generate.go`, `generate_swarm.go`, `scenario_bundle.go`, `inspect_deployment.go`) | none | generate, chunk, parse | the chunks restore the scenario |
| Aggregation (`internal/metrics/aggregate.go`) | accumulator per message | Aggregate | the rows say what was recorded, whatever order the files are read in |
| Configuration (`internal/config/`) | scenario | load, expand the domain, validate | generated graphs are simple, connected when asked, of the promised size |
| Delay models (`internal/model/`) | none | sampling | out of scope: real-valued distributions |
| Command line (`internal/cli/`, `cmd/peerkit`) | recent-run record | flags, printing | the record is not lost |

**How they interact.** The CLI calls the controller package, which starts containers
(compose) or a stack with its own controller container (swarm). In swarm mode the
peers register with the coordinator over HTTP and poll it for their
configuration. The controller then drives every peer's control API over HTTP:
connect, prepare, inject, finalize, results. Peers talk to each other only over
one libp2p stream per directed edge. Inside a peer, readers, workers, injectors and
senders share `stateMu`, the processing queue and the edge queues, and all of them
write to one event channel, whose file the controller downloads and aggregates.

**What is hard.** Goroutines that look at shared knowledge, sleep, and act on
what they saw; control frames that overtake payloads; bounded queues that drop;
streams that are reset and written again; a writer that is closed while others
write; peers finalized one at a time; a controller that restarts without memory;
retries of calls that were already carried out. `PROJECT.json` lists these as hazards, each
at its line and with the properties that watch it.

## Modules

| Module | Models | Composes |
|---|---|---|
| `TwoClassQueue` | what forwarding relies on: two bounded FIFOs, control first, the head is eventually taken | |
| `EdgeQueue` | `edgeSender`'s queues, `wake` channel and sender goroutine | implements `TwoClassQueue` |
| `Propagation` | what flooding promises: a message spreads along edges | |
| `Flooding` | the peers' goroutines under the four protocols | implements `Propagation`; an edge behaves as `TwoClassQueue` says |
| `MetricsWriter` | `Writer`, `record`, `Finalize`, `handleResults` | |
| `Aggregate` | the fold of `Aggregate` over the files a run can write | |
| `SwarmCoordinator` | registration of the peer tasks and the controller's run, with restarts | |
| `Experiment` | `executeExperiment`, the control client, and the peers' control API as it is driven | the controller with its peers; what a message does is `Flooding`'s subject |
| `RunLifecycle` | `peerkit run`, `collect` and `stop` on one Swarm stack and one run directory | the inside of the run is `SwarmCoordinator`'s and `Experiment`'s subject |
| `Topology` | the generators of `internal/config/domain.go` and the adjacency matrix | |
| `EdgeQueueProofs`, `FloodingProofs`, `MetricsWriterProofs`, `AggregateProofs`, `SwarmCoordinatorProofs`, `ExperimentProofs`, `RunLifecycleProofs`, `TopologyProofs` | the theorems about these modules | |
| `MCEdgeQueue`, `MCFlooding`, `MCMetricsWriter`, `MCAggregate`, `MCSwarmCoordinator`, `MCExperiment`, `MCRunLifecycle`, `MCTopology` | constants for TLC | |

In each module a definition whose name ends in `Bug` is a wrong variant of the
definition that follows it, of the kind a slip in the code would give; it is no part of the
specification. Each checked property is violated when one of them takes the
original's place.

### EdgeQueue

`queue["control"]`, `queue["data"]` are the two slices, `wake` the number of tokens
in the channel of capacity one. `enqueue` is two steps, `Enqueue` and `Signal`, because it
unlocks `queueMu` before it posts the token; `dequeue` is one step (it holds the lock
throughout); `run` parks in its select when `dequeue` returned nothing, and an enqueuer
may act between the two. `send` is one step that ends; what it does is in `Flooding`.

### Flooding

One step is what a goroutine does between two points where another one can see or
change what it uses.

- `intake` holds an injector or reader between `registerReceivedMessage` and
  `enqueueProcessing`, with the IDONTWANT frames it has still to enqueue
  (`Inject`, `ReceiveData`, `ReceiveIDontWant`, `Advise`, `EnqueueProcessing`);
- `worker` is a worker in its processing sleep or in its forwarding loop
  (`StartProcessing`, `BeginForwarding`, `EnqueueData`);
- `sender` is a sender in the edge delay or about to write (`TakeControl`, `TakeData`,
  `EndDelay`, `Write`), and `wire` what was written and not yet read.

The delays themselves are not modelled: a step may be taken at any later time.
`outcome`, `nodeDrops` and `supplier` are history: the events a peer records, by edge
and message.

Simplifications: the HopWave shuffle is any subset of the size the code computes;
control frames carry only their message; the end of a peer (a kill or `Peer.Close`)
is one step; each directed edge has one reader. A failed write loses any
suffix of what was in flight and may or may not succeed at the second attempt.

### MetricsWriter

The RWMutex is modelled as Go's: a `Lock` that waits keeps new readers out. `Write`
holds the read lock while it sends on the bounded channel (`EnterWrite`, `Send`);
`Encode`, `Tick` and `Finish` are the cases of `run`; `CallFinalize` to
`FinalizeReturns` are `Peer.Finalize` and the `Close` it makes under `finalizeOnce`,
with the callers that come second. Because of `finalizeOnce` nobody calls `Close` twice,
and its branch for that is left out. The buffer may be written out at any time, as the
ticker and a full `bufio.Writer` do. The file holds whole events; a failing disk may keep
any beginning of what it is given.

### Aggregate

The actions are a run that writes event files: messages are created, received,
sent, dropped, and peers are finalized one by one, each event stamped with a
clock all peers share. `Accumulated` goes over the files in name order and `ReadEvents` over the lines of
a file, as the code does.
The invariants compare it with definitions that do not depend on an order.

### SwarmCoordinator

`task` is where a peer's process stands, from its registration through the poll for its
configuration to its server; `mail` holds register calls that the controller has yet to
handle, also those whose sender has given up. `registrations`, `runtime`, `state` and
`changed` are the coordinator's fields, `run` its goroutine: `Count` looks under the lock,
`Park` enters the select, `Changed` and `StartupTimeout` are its cases. `incarnation`
numbers the controller's processes: `Crash` breaks its connections, `Restart` starts again
with empty memory. `acked` is history: which incarnation acknowledged a slot.

A slot has one identity: the peer service has restart policy `none`
(`internal/controller/generate_swarm.go:70`), so no second task takes a slot over. What
happens inside the experiment is open: it ends with success or failure.

### Experiment

`phase` is where `executeExperiment` stands; `call[n]` is the call that the current
`forEach` makes to peer `n`, and `Ask` takes one of its `parallelism` slots. `job[n]` is
the handler at the peer: it is not the call, since a handler that changes something goes
on when the client has given up (`GiveUp`), until it notices (`Cancelled`) or ends by
itself. `Expire` and `Interrupt` are the phase's context and the run's; `WaitFails` is
the branch of the select between two rounds of `waitReady` or `waitTopology`.
`schedule[t]` is the goroutine of a traffic entry, `errors` and `errorsClosed` its
`errorChannel`. A peer counts the messages it has accepted, still owes (`handleInject`
answers before they are made) and has recorded; `Die` and `Disconnect` are the
faults, up to `MaxFaults` of them.

A file that does not open fails its download at any time (`HandleResults`).

Simplifications: a connection attempt is one step for all its retries; the
content of the files is a count, and a closed file is served whole: the error `handleResults`
drops while it copies (`internal/p2p/peer.go:762`) is left out. A file cut there within a line makes
`Aggregate` fail, and the experiment with it; one cut between two lines is noticed
by nothing. Real time appears as the order of expiry and answer only, so that the timer of a phase may win at any moment.

### RunLifecycle

`peerkit run` (`Runner`) and the invocations of `collect` and `stop` (`Others`) are
processes, with `pc` where each stands: the deploy (`Create` to `Settle`), the wait, the
download (`OpenPart` to `Verify`) and the removal (`StackRm`, `ListKind`, `RemoveListed`).
A process of `Others` may be invoked again when it has ended, also after it was killed.
They share the stack (`stack`, `desired`, `started`, `control`) and the run directory: `part`,
`archive` and `whole` are inodes, because `os.Create` truncates the file that another
process may be writing, and `os.Rename` moves whatever bears the name by then.
A copied file is whole or not: `handleArchive` drops the error of `writeTarGZ`
(`internal/controller/swarm_coordinator.go:323`), so the Controller may cut an archive short behind
status 200, and another process may have truncated the file meanwhile. `wiped` are the processes from
whose directory another one has removed.
Docker may fail any command, remove any part of what it is told to, and leave listings
unanswered; a listing that fails lists nothing, as the code has it.

Simplifications: networks and configs are one kind of resource; the Controller
is running, completed, failed or absent; a failed deployment is one step
(`withServiceDiagnostics` changes nothing). An archive that is not whole fails validation: one that
is cut exactly between two entries would pass, and is left out, as is a cut answer that damages
what another process has already written whole. A Controller that has completed does not restart: its
results are on its own disk, and nothing in the program would keep them. Image builds, Compose runs and the recent-run
record are left out.

### Topology

A state is an expansion in progress: `domain` is the declaration, `edges` what has been
generated, and a step is one turn of a generator's outer loop (`Attach` for
Barabasi-Albert, `AddAccess`, `AddShortcuts` and `Fill` for DRS, `Rewire` for
Watts-Strogatz). What the code draws from its seeded generator is an open choice, so a
property holds for every seed. `Rejected` says which declarations a generator refuses.
Fractions are in hundredths, and the core of a DRS is computed exactly, where the code
rounds a float up (`internal/config/domain.go:594`).

## Runs

| Run | Instance | What it shows |
|---|---|---|
| `EdgeQueue` | 2 enqueuers, 3 data and 2 control frames, capacity 2 | no lost wake-up, strict bound, no frame twice; implements `TwoClassQueue` with its fairness |
| `FloodQuiet` | triangle with a tail, 1 message, each of the four protocols, nothing lost | every first copy is forwarded as the protocol's description says; no copy goes back; hops and cycle hops are right; everyone is reached (HopWave apart) |
| `FloodLoad` | triangle, 2 messages of different origins, 2 workers, queues of one, loss; base and duplicate-aware | suppression is safe, one place per message and peer, each gap has a recorded drop; still a propagation |
| `FloodFaults` | triangle, each protocol, broken streams, loss, one peer may die | one fate, flooding dies out |
| `Writer` | 2 producers of 2 events, 2 finalizers, a disk that may fail | no send after close, nothing lost without an error, late results are complete, the file has no holes, every call returns |
| `WriterEarlyResults` | the same, 1 event each, a sound disk | violated: results are served before they are final |
| `Aggregate` | 3 peers, 2 messages, 4 events | counts and reached peers are exact, the delay is never overstated |
| `AggregateOrder` | 2 peers, 1 message, 3 events | violated: the delay depends on the file order |
| `Swarm` | 2 slots, 1 restart, 2 register calls per task, lost answers, one task may die | no registration is overlooked; a restarted controller never mixes with its predecessor; a controller that stays up ends its run; everyone gets its configuration |
| `Experiment` | 2 peers and their edge, a fixed and a random source of 2 messages, parallelism 1 or 2, files shared or downloaded, 1 death or dropped connection | success means that the plan was accepted and all that was recorded is there; no traffic before all streams, no finalization while traffic is asked for; every run ends |
| `RunLifecycle` | 3 peers in batches of 2; `run` or `run --detach`, and one place for `collect`, `collect --keep` and `stop`, used again and again | results survive until they are saved or given up; batches; a reported removal is thorough; every invocation ends |
| `Topology` | 102 declarations of up to 9 nodes, all ten models, also those that are refused | the promised number of edges, degrees, connectivity; a balanced DRS fill; an accepted DRS fails by its edge budget at most |

**Bounds.** Queues of one frame make a full queue and an overtaking control frame
happen with a single message; `FloodLoad` adds the second message that competes for
the place. The triangle is the smallest graph with two paths to a peer,
hence with duplicates and suppression; the tail adds a peer that only one neighbor can
reach, so that a wrong suppression cuts it off, and gives HopWave a second level. One worker
suffices where a message is handled by one at a time, and `FloodLoad` has two. `FloodLoad`
leaves the IDONTWANT protocol to `FloodQuiet` and to the proof, which covers all four. In `EdgeQueue`, two enqueuers and three
data frames at capacity 2 reach a full queue, a token posted into a full channel and a
sender that parks between append and token. In `MetricsWriter` a channel of one makes
the producers block with the read lock held while `Close` waits. In `SwarmCoordinator`
two slots give a peer that is in and one that is not yet, two calls per task the late call
and its retry, one restart a successor to confuse with; `MaxAttempts` bounds only the calls
that outlive their timeout, since calls refused or answered do not count. In `Aggregate` four events suffice to create a message, receive it twice and close a
file; `MaxClock` is the bound.
In `Experiment` two peers make a call that waits for another one's slot and a phase in which
one succeeds and one fails; one fault is what tells a run that copes from one that does not, and
`MaxFaults` is the bound. In `RunLifecycle` three peers in batches of two give a last batch that
is smaller; two processes suffice for one that truncates, removes or renames what the other has just
looked at. Three downloads at once would break `ResultsSurvive`: one that is between
validation and renaming may then move a file that a second has truncated over the good
archive of a third. `RunCommands` and `LaterCommands` leave out `run --keep` and
`collect --remove-on-failure`, whose steps the others take. `Topology` has the declarations in which its
generators have a choice at all; the DRS on eight and nine nodes are the smallest that are accepted.

**Deadlock** is not checked: each of these systems comes to rest when its work is done
(nothing injected, the writer closed, the run ended). That nothing stops too early is what
the liveness properties say.

**Fairness.** A goroutine that can step does: the Go scheduler starves nobody, sleeps
end, timers fire, and a write returns because the reader at the other end never waits (a
full queue drops) or because the broken connection fails it. Nobody is obliged to inject
a message, record an event, call Finalize or crash. No choice between a select's cases is assumed where the
alternative is an end of the run: in `SwarmCoordinator` the timeout may win over the last
registration. In `MetricsWriter`, `Encode` and `Finish` are weakly fair; `Tick` is not.
One assumption is stronger: a register call whose answer can arrive again and again does
get an answer (strong fairness); `registerWithRetry` retries for ever otherwise.
Strong fairness is also what `Experiment` and `RunLifecycle` need of their time-outs: a
select that finds the context done and the ticker ready in round after round takes the context in the
end (Go chooses at random). No peer, no Docker command and no Controller has to
succeed; they only return, because each is called under a time-out.

## Proofs

TLAPS proves the following for every value of the constants that satisfies the
module's `ASSUME`. Each rests on the module's type invariant, proved first
(`TypeCorrect`).

| Theorem | Says |
|---|---|
| `WakeupsAreNotLost`, `BoundIsStrict`, `FramesAreNotRepeated` | the invariants of `EdgeQueue` |
| `ImplementsQueueSafely` | every step of `EdgeQueue` is a step of `TwoClassQueue` or a stutter |
| `SuppressionIsAlwaysSafe` | no protocol suppresses a payload for a peer that lacks it, on any graph, with any losses, overtaking and deaths |
| `FloodingIsPropagation` | `Flooding` implements the safety part of `Propagation` |
| `HopsAreBounded`, `WaveIsLevel` | a copy makes fewer hops than there are peers; the cycle hop is the hop modulo the cycle |
| `ProcessedOnce` | a message a peer has registered is in exactly one place there |
| `OneFateOnly`, `SupplierIsSpared` | a payload is in at most one place of an edge and has at most one recorded fate; none goes back to the supplier |
| `PlanIsCarriedOut` | at rest every edge that the protocol's plan names has one recorded fate |
| `NoSilentGap` | at rest a gap has a recorded reason, as long as streams hold |
| `EveryoneIsReached` | at rest a message that nobody recorded as dropped is at every peer of a connected network, as long as streams hold (HopWave apart) |
| `SendIsBeforeClose`, `EventsAreNotLost`, `LateResultsAreComplete`, `FileHasNoHoles` | the invariants of `MetricsWriter` |
| `NobodyIsStuck` | while a `Write` or a `Finalize` has not returned, some goroutine can go on: no circle of waits |
| `SummaryIsExact`, `ReachedIsRight`, `DelayIsAtMost` | the invariants of `Aggregate`, for any number of peers, messages and lines |
| `RegistrationsAreNotMissed`, `RestartsDoNotMix`, `ExperimentsAreOurs` | the invariants of `SwarmCoordinator` |
| `TrafficNeedsOverlay`, `FinalizeComesAfterTraffic`, `SuccessMeansComplete` | the invariants of `Experiment`, for any overlay, plan, parallelism and number of faults; `SuccessIsComplete` is about messages accepted and recorded, and a message still owed when its peer is finalized leaves no record |
| `BatchesStayBounded` | never more than a batch of peer tasks is on its way, for any number of peers |
| `RemovalsAreThorough` | a reported removal has left nothing, for any number of processes that remove and download |
| `ResultsAreKept` | the results of a completed run survive any two processes that download, remove or are killed |
| `PromisesAreKept` | a graph of any size is connected when its model or the declaration promises it, whatever is drawn |
| `FillStaysBalanced` | the fill of a DRS serves both rings in proportion, for rings of any size |
| `LinksAreKept` | every node of a graph of any size ends with the links its model gives it: m, k/2, or the core links and shortcuts of a DRS |
| `CoreNeverRunsOut` | an accepted DRS never lacks core nodes to link: the safety half of `OnlyBudgetFails` |
| `GraphsCarryMessages` | a promised graph of any size is `Connected` in the sense of `EveryoneIsReached` |
| `BudgetIsMet` | a graph of any size has the number of edges that its model promises; the repair adds one edge less than there are components |

**EdgeQueue.** `NoLostWakeup` is inductive with the type invariant: the only step that
takes the token leads to `dequeue`, and an enqueuer between append and token is the
reason the token may be missing.

**Flooding: what is known.** `SuppressionIsSafe` is not inductive: it depends on what frames claim.
`KnowledgeInv` says that whatever is held or carried about a message, in an intake, a
queue, a worker, a sender or on a wire, is about one that the peer it comes from has
registered (`IntakeKnown`, `QueueKnown`, `WorkKnown`, `ControlKnown`, `DataKnown`,
`SendKnown`, `WireKnown`), and that a peer believed to have a message has it
(`BeliefTrue`). `seen` never shrinks (`SeenIsMonotonic`), so old news stays true however
late it arrives; this is the whole argument. The refinement follows: a peer that is newly
reached read a frame of a neighbor that was reached before.

**Flooding: what becomes of a message.** `FloodingProofs` goes on with a chain of invariants, each
proved with the ones before it.
`TravelInv` says that a copy with hop h has left h + 1 peers behind it that have the message,
wherever it is, and that its cycle hop fits; a reader that accepts a copy adds itself, which
bounds the hops by the number of peers without any order on the steps.
`PlaceInv` counts: each of the five kinds of place (intake, queue, worker, started, dropped) holds a
message at most once, no two kinds hold it, and one does exactly when it is in `seen`. `seen` is
what keeps a second copy out, so the proof needs the equivalence and not only the exclusion.
`FateInv` does the same for an edge: a payload is planned, queued, being sent or recorded in one place, and in none
unless its peer has begun to forward it and the edge is not the supplier's. A worker that begins to
forward moves the message to `forwardingStarted`, where it stays, so nothing plans the edge twice.
`PlanCarriedOut` follows at rest, where planned, queued and being sent are empty.
For `GapsAreExplained` two more facts are needed: a supplier has what it supplied (`SupplierHas`), and what an
edge recorded as sent is on the wire or has been registered at the other end (`SentArrives`). The second is false when a
stream breaks, since a reset loses frames already recorded as sent; the theorem therefore assumes `~StreamFaults`, as the
comment of the property does. Loss, full queues and all four protocols are covered; deaths are in the property itself.
`ReachesEveryone`, stated in `FloodingProofs`, is what this is for: the peers that have a message are a set that no edge
leaves, so in a connected network they are all peers. `GraphsCarryMessages` (in `TopologyProofs`) shows that the
generated graphs satisfy this hypothesis where the configuration promises a connected graph.

**MetricsWriter.** `ShutInOrder` orders the stages of closing (the writer is done only
when it was closed and the channel is drained), `Pipeline` says that the accepted events
are file, buffer and channel in this order as long as no error occurred, `ServedIsFinal`
that results served after Finalize had returned equal what was accepted. `NoHoles` rests on `Pipeline` for
the step on which the disk keeps a beginning of the buffer; after an error the file never changes.
`NobodyIsStuck` follows who waits for whom: a `Write` without room waits for `run`, which has an event to take;
a `Write` without the read lock waits for a `Close`, and this one for the writes that hold it; a second
`Finalize` waits for the first (`OneCloses`: while one runs, somebody runs its body), and the first for `run`, whose
channel it has closed. The guards of the fair actions are written out in `SomebodyCanMove`, since the
prover has no ENABLED; that goroutines which can go on also finish is `EveryCallEnds`, for TLC.

**Aggregate.** Two arguments meet. `FilesInv` is about the run: stamps tell events apart (`StampsDiffer`), a message is created
once and only receptions are duplicates (`RecordsArePlausible`), and what is recorded of a message is recorded by
its holders, completely as long as nobody was finalized (`RecordsAreOfHolders`, `HoldersAreRecorded`). `Says` is about the
program: it relates an accumulator to the set of events read so far, and one line keeps that (`ConsumeSays`), since a
line that differs from all before it adds one to the count of its kind. Lines and files are gone over by recursive functions; both exist
and are followed step by step by two lemmas (`Recursion`, `StepByStep`) that take the step as a function and the induction hypothesis as a
set, because the library's take operators. `Says` does not mention an order, and so the rows do not depend on one.

**SwarmCoordinator.** `IInv` adds that an acknowledgement is by this or an earlier
incarnation (`AckedIsPast`), that calls in flight are of this one (`MailIsOurs`), that the
controller's registrations are its own (`RegisteredIsOurs`), that configurations exist for
all or none (`RuntimeIsComplete`), and that a configuration comes from the incarnation
that acknowledged its slot (`ConfigIsAcked`, `ReadyIsOurs`). Calls do not outlive the
controller they were made to, and a peer that was acknowledged does not register again.

**Experiment.** A handler outlives the call it was started by, so phases do not separate what peers
do. `JobInv` says what separates it all the same: a peer that works for a call works for one of the current fan-out, since a fan-out
ends with every handler finished or failed. `OverlayInv` then follows a fan-out: a peer whose
call has succeeded has all its streams, and none is lost before the traffic. `SealInv` says that a
phase after the traffic has no goroutine of the schedule left, whether it ended, failed or was interrupted. `CountInv`
is an equation: what a peer has accepted is the number of messages of the plan that the
goroutines have had accepted by it, unless the run was interrupted or has an error, which
excludes success; `ResultInv` adds that a peer whose finalization succeeded is closed and that nothing
is recorded after that.

**RunLifecycle.** `BatchFollows` says that the batch to be asked for next is at most one batch
above what is running; only the deploying process scales, and everything else can only take
the services away (`ProcessMoves`). For removals, `CalmIsLate` says that a removal which
began after the deploy runs when nothing is created any more, so what one listing
has not found is still absent at the next (`ListedIsGone`). These two theorems need no type
invariant of the files.

`ResultsAreKept` assumes that at most one process collects or stops beside the run, as often as it likes
(`TwoAtMost`); with three it is false. The part file may be truncated between the validation and the
rename of one process, and then a broken archive gets the name of a whole one. Only the other process
can have done so. `SpoiltInTime` says that the Controller still had the results then, and that the other process has
not come as far as its own rename since, so nobody relies on the archive (`HasSaved`) and nobody is extracting
it. Whoever renames later does so with a part file that was validated after the last truncation.
`ExtractIsWhole` carries this to the end of the extraction: a whole file that was extracted is either the
archive or an older one beside a whole archive. A new part file gets an inode that is
neither the archive's nor open elsewhere: one is left because there is one more than there are processes
(`InodeIsLeft`, which `TypeCorrect` needs too).

**Topology.** `GraphInv` has one part per generator: Barabasi-Albert joins the nodes whose turn has been, a DRS
joins each of its rings from the start and the two rings once the first outer node has its access links, and what
Watts-Strogatz and ER give are pairs of nodes. `Joined` says of a set of nodes what `Closed` says of the whole
graph, so that a graph can grow a node at a time. The repair is correct because every
set that no edge leaves contains a smallest one (`PartBelow`), hence a node of the chain, and so
does its complement. The library's induction principles cannot be used here (they take an
operator as parameter); `LeastNatural`, that a nonempty set of numbers has a least member,
takes their place. `BalanceInv` adds that a ring with a chord left is not empty and has had one left all along.

`LinkInv` says what a node keeps while others have their turn. For Barabasi-Albert and DRS edges are only added, so it
is enough to say whose turn has been: a BA node then has its m links (`HaveLinks`), an outer node of a DRS its beta core links
and no more than these, an inner node its beta shortcuts (`SmallWorld`). Watts-Strogatz removes edges, also some that a node got from
another one's turn, and no count of a node's links is inductive. What is: every position of the lattice
owns exactly one edge, at its node (`Owns`). A rewiring replaces the edge that its position owns by one that nobody
owned, so each node keeps its k/2 positions' edges. Two facts are about the
ranking: it puts the nodes on distinct places, so that the core has exactly its size (`CoreHasItsSize`), and the sum of
the delays to a set of neighbors is a number (`DelaySumIsNatural`, from partial sums as a recursive function).
`CoreNeverRunsOut` needs that size: a core node's shortcuts, the core nodes it can still be linked with, itself and
its two neighbors on the ring are the whole core, and beta is at most the core less three (`EnoughTargets`).

`EdgeInv` counts. Loops that add edges are counted as they go (`Grown`, the target in the fill); graphs that are made at once have
their closed formulas proved as lemmas: a clique (`CliqueCount`), a grid (`GridCount`),
a ring, a path, a symmetric matrix (`MatrixCount`). WS has as many edges as positions, because each
edge is owned by one of them (`OwnedCount`). The repair adds a chain through the components, whose edges are distinct since components are
disjoint (`LinksCount`). Type correctness is proved together with it, for one needs that edges are pairs.

**Proved rather than run:** type correctness (`TypeCorrect`) and the strict bounds of
the edge queues (`BoundIsStrict`); `SuppressionIsSafe` under broken streams and deaths, and the other
invariants of `Flooding` under every protocol and fault at once; the freedom from deadlock of `MetricsWriter`
(`NobodyIsStuck`), the DRS core (`CoreNeverRunsOut`) and that a message without drops is everywhere at rest
(`EveryoneIsReached`), which the runs see only as parts of `EveryCallEnds`, `OnlyBudgetFails` and `PropagatesFairly`.

**Only model-checked:** everything about liveness, which the prover cannot express
(`EdgeImplementsQueue`'s fairness, `PropagatesFairly`, `ComesToRest`, `EveryCallEnds`,
`RunEnds`, `EveryoneIsConfigured`, `InvocationsEnd`, `OnlyBudgetFails`). Every invariant that a run checks has its
theorem; `GapsAreExplained` under the assumption that no stream breaks, `ResultsSurvive` for two invocations.

## Findings

**Results are served before they are final** (`WriterEarlyResults`).
`Finalize` stores `finalized` before it closes the writer
(`internal/p2p/peer.go:733`), and `handleResults` looks only at that flag. A
request in between is answered 200 with a file that may still grow. The controller
itself asks for results only after Finalize has returned, so its runs are not affected.

**The completion delay depends on the names of the peers** (`AggregateOrder`). On
`message_created`, `Aggregate` overwrites `lastUniqueAt` (`internal/metrics/aggregate.go:92`).
Files are read in name order, so arrivals at peers that sort before the origin are
forgotten, and `completion_delay_ms` is too small. The counts are not affected
(`RowsAreExact`), and the delay is never too large (`NeverOverstated`).

## What is not modelled

- Sampling of delays and losses (`internal/model/`): the models take the outcome as a choice.
- Text: deployment files, CSV and JSON rendering, parsing of docker output, flags.
- libp2p, Docker, HTTP: as far as the code relies on them, at the place of use.
- Real time. A time-out may come at any moment; that one is too short for what it waits for
  (the total of `internal/controller/run.go:174` against the controller's own phases) is not a
  question these models can answer.
- Compose runs, image builds and pushes, `status`, `logs` and `inspect`, the recent-run record: commands
  run one after the other whose effect is outside of the program.
- Loading, defaulting and validating a scenario (`internal/config/load.go`, `validate.go`,
  `defaults.go`): sequential and without state; the models assume what they admit.
- The two readers that may coexist after a stream reset (`internal/p2p/peer.go:692`).

`PROJECT.json` lists every component with its status.

## Plan

Done: the peer (forwarding, edge queues, event writer, control API), aggregation, the Swarm
coordinator, the experiment, the life cycle of Swarm runs, the topology generators. Next, in
this order:

1. `EdgeStream`: one edge's stream with reset, reopening and the two readers that may coexist,
   shown to be what `Flooding` assumes of `wire`.
2. Compose runs in `RunLifecycle`.
