-------------------------- MODULE RunLifecycleProofs --------------------------
(***************************************************************************)
(* What RunLifecycle keeps for any number of peers, any batch size and any *)
(* number of processes that collect and stop: peers start in batches, and  *)
(* a removal that is reported has taken place.  The results of a completed *)
(* run survive any two processes.                                          *)
(***************************************************************************)
EXTENDS RunLifecycle, FiniteSetTheorems, TLAPS

Removing == {"stackRm", "rm"} \cup Kinds

(* Where an invocation stands after the deploy.                            *)
Elsewhere ==
  {"wait", "request", "copy", "validate", "rename", "wipe", "extract", "verify"}
    \cup Removing \cup Ended

Counts ==
  /\ DOMAIN pc = Processes
  /\ desired \in Nat /\ started \in Nat /\ target \in Nat

(* No batch is asked for before the one before is running.                 *)
BatchFollows ==
  /\ pc[Runner] \in DOMAIN Creates \cup {"exist", "healthy"} =>
       desired = 0 /\ target <= BatchSize
  /\ pc[Runner] = "scale" /\ FirstKind \in stack => target - started <= BatchSize

BatchInv == Counts /\ BatchFollows /\ StagedStart

(* Nothing of the stack is created any more when a calm removal looks.     *)
CalmIsLate ==
  \A p \in calm : pc[Runner] \notin Deploying /\ pc[p] \in Removing \cup Ended

(* A removal that has listed no service, with an answer, is right.         *)
ListedIsGone ==
  \A p \in calm :
    pc[p] = "other" /\ p \notin unsure /\ found[p] = {} => FirstKind \notin stack

Shapes ==
  /\ DOMAIN pc = Processes /\ DOMAIN found = Processes
  /\ stack \subseteq Kinds /\ calm \subseteq Processes

RemovalInv == Shapes /\ CalmIsLate /\ ListedIsGone /\ RemovalIsThorough

-----------------------------------------------------------------------------
(* What a step of an invocation outside of the deploy can do to the stack. *)
Shrinks ==
  \/ UNCHANGED <<stack, desired, started>>
  \/ \E gone \in SUBSET stack :
       /\ stack' = stack \ gone
       /\ IF FirstKind \in gone THEN desired' = 0 /\ started' = 0
          ELSE UNCHANGED <<desired, started>>

LEMMA ProcessMoves ==
  ASSUME NEW p \in Processes, Start(p) \/ Advance(p) \/ RemoveExpires(p) \/ Kill(p)
  PROVE  target' = target /\ Shrinks /\ \E label \in Elsewhere : pc' = [pc EXCEPT ![p] = label]
<1> USE DEF Goto, Elsewhere, Removing, Kinds, FirstKind, Ended, dockerVars
<1>1. CASE Start(p)
  BY <1>1 DEF Start, BeginRemove, Shrinks
<1>2. CASE WaitCompleted(p) \/ WaitFails(p)
  BY <1>2 DEF WaitCompleted, WaitFails, Fails, BeginRemove, Shrinks
<1>3. CASE OpenPart(p) \/ CopyDone(p) \/ DownloadFails(p) \/ Validate(p)
  BY <1>3 DEF OpenPart, CopyDone, DownloadFails, Validate, Fails, BeginRemove, Shrinks
<1>4. CASE Rename(p) \/ Wipe(p) \/ Verify(p)
  BY <1>4 DEF Rename, Wipe, Verify, Fails, BeginRemove, Shrinks
<1>5. CASE ExtractDone(p) \/ ExtractFails(p)
  BY <1>5 DEF ExtractDone, ExtractFails, Extracted, Fails, BeginRemove, Shrinks
<1>6. CASE StackRm(p) \/ RemoveListed(p)
  BY <1>6 DEF StackRm, RemoveListed, Lose, Shrinks
<1>7. CASE ListKind(p)
  BY <1>7 DEF ListKind, NextKind, Removed, Shrinks
<1>8. CASE RemoveExpires(p) \/ Kill(p)
  BY <1>8 DEF RemoveExpires, NotRemoved, Kill, Shrinks
<1> QED
  BY <1>1, <1>2, <1>3, <1>4, <1>5, <1>6, <1>7, <1>8 DEF Advance, Download, Remove

-----------------------------------------------------------------------------
LEMMA Sizes ==
  BatchSize \in Nat /\ BatchSize > 0 /\ Peers \in Nat /\ Runner \notin Others
<1>1. BatchSize \in Nat \ {0} /\ Peers \in Nat \ {0} /\ Runner \notin Others
  BY LifecycleAssumption, Zenon DEF LifecycleAssumption
<1> QED
  BY <1>1

LEMMA OneBatchMore ==
  ASSUME NEW s \in Nat, NEW t \in Nat, NEW u \in Nat, NEW b \in Nat, u <= t + b, s >= t
  PROVE  u - s <= b
OBVIOUS

LEMMA DeployOrder ==
  /\ DOMAIN Creates = {"mkOther", "mkService"}
  /\ Creates["mkOther"] = "other" /\ NextStep["mkOther"] = "mkService"
  /\ Creates["mkService"] = FirstKind /\ NextStep["mkService"] = "exist"
  /\ Deploying = {"mkOther", "mkService", "exist", "healthy", "scale", "settle"}
BY DEF Creates, NextStep, FirstKind, Deploying

LEMMA FirstBatchIsBounded == Init => BatchInv
BY Sizes, DeployOrder
   DEF Processes, Init, BatchInv, Counts, BatchFollows, StagedStart, Least

LEMMA DeployKeepsBatches == ASSUME BatchInv, Deploy PROVE BatchInv'
<1> USE Sizes, DeployOrder
    DEF BatchInv, Counts, BatchFollows, StagedStart, Goto, Processes
<1>1. CASE Create
  <2>1. pc'[Runner] \in {"mkService", "exist"} /\ DOMAIN pc' = Processes
    BY <1>1 DEF Create
  <2> QED
    BY <1>1, <2>1 DEF Create
<1>2. CASE Deployed \/ ControlReady
  BY <1>2 DEF Deployed, ControlReady, dockerVars
<1>3. CASE Scale
  BY <1>3 DEF Scale
<1>4. CASE Settle
  <2>1. UNCHANGED <<stack, desired, started>> /\ started >= target
    BY <1>4 DEF Settle, BatchReady, dockerVars
  <2>2. target' \in Nat /\ target' <= target + BatchSize
    <3>1. target' = target \/ target' = Least(target + BatchSize, Peers)
      BY <1>4 DEF Settle
    <3> QED
      BY <3>1 DEF Least
  <2>3. DOMAIN pc' = Processes /\ pc'[Runner] \in {"ok", "wait", "scale"}
    BY <1>4 DEF Settle
  <2>4. started \in Nat /\ target \in Nat /\ target' - started <= BatchSize
    BY <2>1, <2>2, OneBatchMore
  <2>5. StagedStart'
    BY <2>1
  <2> QED
    BY <2>1, <2>2, <2>3, <2>4, <2>5
<1>5. CASE DeployFails
  BY <1>5 DEF DeployFails, dockerVars
<1> QED
  BY <1>1, <1>2, <1>3, <1>4, <1>5 DEF Deploy

LEMMA OthersKeepBatches ==
  ASSUME BatchInv, NEW p \in Processes, Start(p) \/ Advance(p) \/ RemoveExpires(p) \/ Kill(p)
  PROVE  BatchInv'
<1>1. PICK label \in Elsewhere : pc' = [pc EXCEPT ![p] = label]
  BY ProcessMoves
<1>2. target' = target /\ Shrinks
  BY ProcessMoves
<1>3. pc'[Runner] \in Deploying => pc'[Runner] = pc[Runner]
  BY <1>1, DeployOrder DEF Elsewhere, Removing, Kinds, Ended, BatchInv, Counts, Processes
<1>4. Counts'
  BY <1>1, <1>2 DEF BatchInv, Counts, Shrinks
<1>5. BatchFollows' /\ StagedStart'
  BY <1>2, <1>3, Sizes, DeployOrder
     DEF BatchInv, Counts, BatchFollows, StagedStart, Shrinks
<1> QED
  BY <1>4, <1>5 DEF BatchInv

LEMMA BatchStep == ASSUME BatchInv, [Next]_vars PROVE BatchInv'
<1>1. CASE TaskStarts
  BY <1>1, Sizes, DeployOrder DEF TaskStarts, BatchInv, Counts, BatchFollows, StagedStart
<1>2. CASE ControlEnds
  BY <1>2 DEF ControlEnds, BatchInv, Counts, BatchFollows, StagedStart
<1>3. CASE UNCHANGED vars
  BY <1>3 DEF vars, dockerVars, BatchInv, Counts, BatchFollows, StagedStart
<1> QED
  BY <1>1, <1>2, <1>3, DeployKeepsBatches, OthersKeepBatches DEF Next

(* scaleServiceStaged: for any number of peers and any batch size, never   *)
(* more tasks than a batch are on their way, whoever removes the services. *)
THEOREM BatchesStayBounded == Spec => []StagedStart
<1>1. BatchInv => StagedStart
  BY DEF BatchInv
<1> QED
  BY <1>1, FirstBatchIsBounded, BatchStep, PTL DEF Spec

-----------------------------------------------------------------------------
(* The four parts of RemovalInv for one process.                           *)
RemovalOk(p) ==
  p \in calm =>
    /\ pc[Runner] \notin Deploying /\ pc[p] \in Removing \cup Ended
    /\ pc[p] = "other" /\ p \notin unsure /\ found[p] = {} => FirstKind \notin stack
    /\ pc[p] = "ok" /\ p \notin unsure => stack = {}

LEMMA RemovalByProcess == RemovalInv <=> Shapes /\ \A p \in Processes : RemovalOk(p)
BY DEF RemovalInv, Shapes, CalmIsLate, ListedIsGone, RemovalIsThorough, RemovalOk

LEMMA NothingIsRemovedYet == Init => RemovalInv
BY DEF Init, RemovalInv, Shapes, CalmIsLate, ListedIsGone, RemovalIsThorough, Kinds

(* While the stack is deployed no removal counts as calm.                  *)
LEMMA DeployKeepsRemovals == ASSUME RemovalInv, Deploy PROVE RemovalInv'
<1> USE DEF Goto, dockerVars, removeVars
<1>1. pc[Runner] \in Deploying
  BY DeployOrder DEF Deploy, Create, Deployed, ControlReady, Scale, Settle, DeployFails
<1>2. calm = {}
  BY <1>1 DEF RemovalInv, CalmIsLate
<1>3. UNCHANGED <<calm, found>> /\ DOMAIN pc' = DOMAIN pc
  BY DEF Deploy, Create, Deployed, ControlReady, Scale, Settle, DeployFails
<1>4. stack' \subseteq Kinds
  <2>1. CASE Create
    BY <2>1, DeployOrder DEF Create, RemovalInv, Shapes, Kinds, FirstKind
  <2> QED
    BY <2>1 DEF Deploy, Deployed, ControlReady, Scale, Settle, DeployFails, RemovalInv, Shapes
<1> QED
  BY <1>2, <1>3, <1>4 DEF RemovalInv, Shapes, CalmIsLate, ListedIsGone, RemovalIsThorough

(* A process touches nothing but its own record of the removal.            *)
LEMMA RecordsAreOwn ==
  ASSUME Shapes, NEW p \in Processes,
         Start(p) \/ Advance(p) \/ RemoveExpires(p) \/ Kill(p)
  PROVE  /\ Shapes'
         /\ \A q \in Processes \ {p} :
              /\ pc'[q] = pc[q] /\ found'[q] = found[q]
              /\ q \in calm' <=> q \in calm
              /\ q \in unsure' <=> q \in unsure
<1> DEFINE Own ==
      /\ DOMAIN found' = Processes /\ calm' \subseteq Processes
      /\ \A q \in Processes \ {p} :
           /\ found'[q] = found[q]
           /\ q \in calm' <=> q \in calm
           /\ q \in unsure' <=> q \in unsure
<1> USE DEF Shapes, removeVars
<1>1. ASSUME Start(p) PROVE Own
  BY <1>1 DEF Start, BeginRemove
<1>2. ASSUME WaitCompleted(p) \/ WaitFails(p) PROVE Own
  BY <1>2 DEF WaitCompleted, WaitFails, Fails, BeginRemove
<1>3. ASSUME OpenPart(p) \/ CopyDone(p) \/ DownloadFails(p) \/ Validate(p) PROVE Own
  BY <1>3 DEF OpenPart, CopyDone, DownloadFails, Validate, Fails, BeginRemove
<1>4. ASSUME Rename(p) \/ Wipe(p) \/ Verify(p) PROVE Own
  BY <1>4 DEF Rename, Wipe, Verify, Fails, BeginRemove
<1>5. ASSUME ExtractDone(p) \/ ExtractFails(p) PROVE Own
  BY <1>5 DEF ExtractDone, ExtractFails, Extracted, Fails, BeginRemove
<1>6. ASSUME StackRm(p) \/ RemoveListed(p) PROVE Own
  BY <1>6 DEF StackRm, RemoveListed
<1>7. ASSUME ListKind(p) PROVE Own
  BY <1>7 DEF ListKind
<1>8. ASSUME RemoveExpires(p) \/ Kill(p) PROVE Own
  BY <1>8 DEF RemoveExpires, Kill
<1>9. Own
  BY <1>1, <1>2, <1>3, <1>4, <1>5, <1>6, <1>7, <1>8 DEF Advance, Download, Remove
<1>10. PICK label \in Elsewhere : pc' = [pc EXCEPT ![p] = label]
  BY ProcessMoves
<1>11. stack' \subseteq stack
  BY ProcessMoves DEF Shrinks
<1> QED
  BY <1>9, <1>10, <1>11

(* What a process says of its own removal.                                 *)
LEMMA OwnRemovalIsRight ==
  ASSUME RemovalInv, NEW p \in Processes,
         Start(p) \/ Advance(p) \/ RemoveExpires(p) \/ Kill(p)
  PROVE  RemovalOk(p)'
<1>1. PICK label \in Elsewhere : pc' = [pc EXCEPT ![p] = label]
  BY ProcessMoves
<1>2. pc'[p] = label /\ (pc[Runner] \notin Deploying => pc'[Runner] \notin Deploying)
  BY <1>1, DeployOrder
     DEF RemovalInv, Shapes, Elsewhere, Removing, Kinds, Ended, Processes
<1> SUFFICES ASSUME p \in calm'
             PROVE  /\ pc[Runner] \notin Deploying /\ pc'[p] \in Removing \cup Ended
                    /\ pc'[p] = "other" /\ p \notin unsure' /\ found'[p] = {} =>
                         FirstKind \notin stack'
                    /\ pc'[p] = "ok" /\ p \notin unsure' => stack' = {}
  BY <1>2 DEF RemovalOk
<1> USE DEF Goto, removeVars, Removing, Kinds, FirstKind, Ended
<1>3. DOMAIN pc = Processes /\ DOMAIN found = Processes /\ stack \subseteq Kinds
  BY DEF RemovalInv, Shapes
<1>4. p \in calm => pc[Runner] \notin Deploying /\ pc[p] \in Removing \cup Ended
  BY DEF RemovalInv, CalmIsLate
<1>5. ASSUME pc[p] \notin Removing \cup Ended, BeginRemove(p, "report") \/ BeginRemove(p, "ignore")
                \/ BeginRemove(p, "retry")
      PROVE  pc[Runner] \notin Deploying /\ pc'[p] = "stackRm"
  BY <1>3, <1>4, <1>5 DEF BeginRemove
<1>6. CASE Start(p)
  BY <1>3, <1>4, <1>6 DEF Start, BeginRemove
<1>7. CASE WaitCompleted(p) \/ WaitFails(p)
  BY <1>3, <1>4, <1>5, <1>7 DEF WaitCompleted, WaitFails, Fails
<1>8. CASE OpenPart(p) \/ CopyDone(p) \/ DownloadFails(p) \/ Validate(p)
  BY <1>3, <1>4, <1>5, <1>8 DEF OpenPart, CopyDone, DownloadFails, Validate, Fails
<1>9. CASE Rename(p) \/ Wipe(p) \/ Verify(p)
  BY <1>3, <1>4, <1>5, <1>9 DEF Rename, Wipe, Verify, Fails
<1>10. CASE ExtractDone(p) \/ ExtractFails(p)
  BY <1>3, <1>4, <1>5, <1>10 DEF ExtractDone, ExtractFails, Extracted, Fails
<1>11. CASE StackRm(p) \/ RemoveListed(p)
  BY <1>3, <1>4, <1>11 DEF StackRm, RemoveListed
<1>12. CASE ListKind(p)
  <2>1. UNCHANGED <<calm, stack>>
    BY <1>12 DEF ListKind, dockerVars
  <2>2. CASE pc[p] = "service"
    <3>1. pc'[p] = "other"
      BY <1>3, <1>12, <2>2 DEF ListKind, NextKind
    <3>2. p \notin unsure' /\ found'[p] = {} => "service" \notin stack
      BY <1>3, <1>12, <2>2 DEF ListKind
    <3> QED
      BY <1>4, <2>1, <3>1, <3>2
  <2>3. CASE pc[p] = "other"
    <3>1. pc'[p] \in {"ok", "failed", "rm"} /\ (pc'[p] = "ok" => found'[p] = {})
      BY <1>3, <1>12, <2>3 DEF ListKind, NextKind, NothingLeft, Removed
    <3>2. p \notin unsure' /\ found'[p] = {} =>
            p \notin unsure /\ found[p] = {} /\ "other" \notin stack
      BY <1>3, <1>12, <2>3 DEF ListKind
    <3>3. p \notin unsure /\ found[p] = {} => "service" \notin stack
      BY <2>1, <2>3 DEF RemovalInv, ListedIsGone
    <3> QED
      BY <1>3, <1>4, <2>1, <3>1, <3>2, <3>3
  <2> QED
    BY <1>12, <2>2, <2>3 DEF ListKind
<1>13. CASE RemoveExpires(p) \/ Kill(p)
  BY <1>3, <1>4, <1>13 DEF RemoveExpires, NotRemoved, Kill
<1> QED
  BY <1>6, <1>7, <1>8, <1>9, <1>10, <1>11, <1>12, <1>13 DEF Advance, Download, Remove

LEMMA RemovalStep == ASSUME RemovalInv, [Next]_vars PROVE RemovalInv'
<1>1. ASSUME NEW p \in Processes, Start(p) \/ Advance(p) \/ RemoveExpires(p) \/ Kill(p)
      PROVE  RemovalInv'
  <2>1. Shapes' /\ RemovalOk(p)'
    BY <1>1, RecordsAreOwn, OwnRemovalIsRight DEF RemovalInv
  <2>2. ASSUME NEW q \in Processes \ {p} PROVE RemovalOk(q)'
    <3>1. stack' \subseteq stack
      BY <1>1, ProcessMoves DEF Shrinks
    <3>2. pc[Runner] \notin Deploying => pc'[Runner] \notin Deploying
      <4>1. PICK label \in Elsewhere : pc' = [pc EXCEPT ![p] = label]
        BY <1>1, ProcessMoves
      <4> QED
        BY <4>1, DeployOrder
           DEF RemovalInv, Shapes, Elsewhere, Removing, Kinds, Ended, Processes
    <3>3. RemovalOk(q)
      BY RemovalByProcess
    <3>4. /\ pc'[q] = pc[q] /\ found'[q] = found[q]
          /\ q \in calm' <=> q \in calm
          /\ q \in unsure' <=> q \in unsure
      BY <1>1, RecordsAreOwn DEF RemovalInv
    <3> QED
      BY <3>1, <3>2, <3>3, <3>4 DEF RemovalOk
  <2>3. \A q \in Processes : RemovalOk(q)'
    BY <2>1, <2>2
  <2> QED
    BY <2>1, <2>3 DEF RemovalInv, Shapes, CalmIsLate, ListedIsGone, RemovalIsThorough, RemovalOk
<1>2. CASE TaskStarts \/ ControlEnds \/ UNCHANGED vars
  BY <1>2 DEF TaskStarts, ControlEnds, vars, dockerVars, removeVars, RemovalInv, Shapes,
       CalmIsLate, ListedIsGone, RemovalIsThorough
<1> QED
  BY <1>1, <1>2, DeployKeepsRemovals DEF Next

(* removeSwarmResources: for any number of processes that collect, stop or *)
(* are killed at the same time, a removal that began after the deploy, got *)
(* its answers from Docker and is reported has left nothing of the stack.  *)
THEOREM RemovalsAreThorough == Spec => []RemovalIsThorough
<1>1. RemovalInv => RemovalIsThorough
  BY DEF RemovalInv
<1> QED
  BY <1>1, NothingIsRemovedYet, RemovalStep, PTL DEF Spec

-----------------------------------------------------------------------------
(* There is one inode more than there are processes, so one is left for a  *)
(* new part file.                                                          *)
LEMMA InodeIsLeft ==
  ASSUME NEW p \in Processes
  PROVE  \E i \in Inodes : i \notin {inode[q] : q \in Processes \ {p}} \cup {archive}
<1> DEFINE others == Processes \ {p}
           held == {inode[q] : q \in others}
           f == [q \in others |-> inode[q]]
           n == Cardinality(Processes)
<1>1. IsFiniteSet(Processes) /\ n \in Nat
  <2>1. IsFiniteSet(Others)
    BY LifecycleAssumption, Zenon DEF LifecycleAssumption
  <2>2. Processes = Others \cup {Runner}
    BY DEF Processes
  <2> QED BY <2>1, <2>2, FS_AddElement, FS_CardinalityType
<1>2. IsFiniteSet(others) /\ Cardinality(others) = n - 1
  BY <1>1, FS_RemoveElement
<1>3. f \in Surjection(others, held)
  BY DEF Surjection
<1> HIDE DEF n, others, held, f
<1>4. IsFiniteSet(held) /\ Cardinality(held) <= n - 1
  BY <1>2, <1>3, FS_Surjection
<1>5. Cardinality(held) \in Nat
  BY <1>4, FS_CardinalityType
<1>6. IsFiniteSet(held \cup {archive}) /\ Cardinality(held \cup {archive}) <= n
  <2>1. /\ IsFiniteSet(held \cup {archive})
        /\ Cardinality(held \cup {archive}) =
             IF archive \in held THEN Cardinality(held) ELSE Cardinality(held) + 1
    BY <1>4, FS_AddElement
  <2> QED BY <1>1, <1>4, <1>5, <2>1
<1>7. Cardinality(Inodes) = n + 1
  <2>1. Inodes = 1..(n + 1)
    BY DEF Inodes, n
  <2>2. n + 1 \in Int /\ ~(1 > n + 1) /\ (n + 1) - 1 + 1 = n + 1
    BY <1>1
  <2>3. Cardinality(1..(n + 1)) = (n + 1) - 1 + 1
    BY <2>2, FS_Interval
  <2> QED BY <2>1, <2>2, <2>3
<1>8. ~(Inodes \subseteq held \cup {archive})
  <2> SUFFICES ASSUME Inodes \subseteq held \cup {archive} PROVE FALSE
    OBVIOUS
  <2>1. Cardinality(Inodes) <= Cardinality(held \cup {archive})
    BY <1>6, FS_Subset
  <2>2. Cardinality(held \cup {archive}) \in Nat
    BY <1>6, FS_CardinalityType
  <2> QED BY <1>1, <1>6, <1>7, <2>1, <2>2
<1> QED BY <1>8 DEF held, others

(* What the type invariant rests on: tasks are not ahead of the target,    *)
(* and whoever copies has a file.                                          *)
TypeInv ==
  /\ TypeOK
  /\ DOMAIN pc = Processes
  /\ desired <= target
  /\ \A p \in Processes : pc[p] = "copy" => inode[p] \in Inodes

(* The parts of the type invariant, by who changes them.                   *)
CountsOK ==
  desired \in 0..Peers /\ started \in 0..desired /\ target \in 1..Peers /\ desired <= target

DockerOK ==
  /\ stack \subseteq Kinds /\ finished \in BOOLEAN
  /\ control \in {"absent", "running", "completed", "failed"}

FilesOK ==
  /\ part \in Inodes \cup {Nobody} /\ archive \in Inodes \cup {Nobody}
  /\ whole \subseteq Inodes /\ results \in {"none", "partial", "complete"}
  /\ inode \in [Processes -> Inodes \cup {Nobody}]
  /\ wiped \subseteq Processes
  /\ DOMAIN pc = Processes
  /\ \A p \in Processes : pc[p] = "copy" => inode[p] \in Inodes

OwnOK ==
  /\ released \in BOOLEAN /\ options \in [Processes -> Commands \cup {"stop"}]
  /\ found \in [Processes -> SUBSET Kinds] /\ unsure \subseteq Processes
  /\ tail \in [Processes -> {"report", "ignore", "retry"}] /\ calm \subseteq Processes

LEMMA TypeParts ==
  /\ TypeInv <=> CountsOK /\ DockerOK /\ FilesOK /\ OwnOK
  /\ TypeInv' <=> CountsOK' /\ DockerOK' /\ FilesOK' /\ OwnOK'
BY DEF TypeInv, TypeOK, CountsOK, DockerOK, FilesOK, OwnOK

LEMMA PeersCount == Peers \in Nat /\ Peers > 0 /\ BatchSize \in Nat /\ BatchSize > 0
<1>1. BatchSize \in Nat \ {0} /\ Peers \in Nat \ {0}
  BY LifecycleAssumption, Zenon DEF LifecycleAssumption
<1> QED BY <1>1

LEMMA TypeStart == Init => TypeInv
<1> SUFFICES ASSUME Init PROVE TypeInv
  OBVIOUS
<1>0. CountsOK
  <2>1. desired = 0 /\ started = 0 /\ target = Least(BatchSize, Peers)
    BY DEF Init
  <2> QED BY <2>1, PeersCount DEF CountsOK, Least
<1>1. DockerOK
  BY DEF Init, DockerOK
<1>2. FilesOK
  BY DEF Init, FilesOK
<1>3. OwnOK
  BY DEF Init, OwnOK, Commands
<1> QED BY <1>0, <1>1, <1>2, <1>3, TypeParts

LEMMA DeployKeepsTypes ==
  ASSUME TypeInv, Deploy \/ TaskStarts \/ ControlEnds \/ UNCHANGED vars
  PROVE  TypeInv'
<1> USE DEF dockerVars, fileVars, removeVars, Goto
<1>1. CountsOK /\ DockerOK /\ FilesOK /\ OwnOK
  BY TypeParts
<1>2. OwnOK'
  BY <1>1 DEF OwnOK, Deploy, Create, Deployed, ControlReady, Scale, Settle, DeployFails,
              TaskStarts, ControlEnds, vars
<1>3. FilesOK'
  <2>1. /\ UNCHANGED fileVars /\ DOMAIN pc' = DOMAIN pc
        /\ \A p \in Processes : pc'[p] = "copy" => pc[p] = "copy"
    <3>1. CASE Create
      BY <1>1, <3>1, DeployOrder DEF FilesOK, Create
    <3> QED
      BY <1>1, <3>1 DEF FilesOK, Deploy, Deployed, ControlReady, Scale, Settle, DeployFails,
         TaskStarts, ControlEnds, vars
  <2> QED BY <1>1, <2>1 DEF FilesOK
<1>4. DockerOK'
  <2>1. CASE Create
    BY <1>1, <2>1, DeployOrder DEF DockerOK, Create, Kinds, FirstKind
  <2> QED
    BY <1>1, <2>1 DEF DockerOK, Deploy, Deployed, ControlReady, Scale, Settle, DeployFails,
       TaskStarts, ControlEnds, vars
<1>5. CountsOK'
  <2> USE PeersCount, <1>1 DEF CountsOK
  <2>1. CASE UNCHANGED <<desired, started, target>>
    BY <2>1
  <2>2. CASE Scale
    BY <2>2 DEF Scale
  <2>3. CASE Settle
    <3>1. target' = target \/ target' = Least(target + BatchSize, Peers)
      BY <2>3 DEF Settle
    <3>2. target' \in 1..Peers /\ target' >= target
      BY <3>1 DEF Least
    <3>3. desired' = desired /\ started' = started
      BY <2>3 DEF Settle
    <3> QED BY <3>2, <3>3
  <2>4. CASE TaskStarts
    BY <2>4 DEF TaskStarts
  <2>5. CASE Create \/ Deployed \/ ControlReady \/ DeployFails \/ ControlEnds \/ UNCHANGED vars
    BY <2>1, <2>5 DEF Create, Deployed, ControlReady, DeployFails, ControlEnds, vars
  <2> QED BY <2>2, <2>3, <2>4, <2>5 DEF Deploy
<1> QED BY <1>2, <1>3, <1>4, <1>5, TypeParts

LEMMA ProcessesKeepDocker ==
  ASSUME CountsOK, DockerOK, NEW p \in Processes,
         Start(p) \/ Advance(p) \/ RemoveExpires(p) \/ Kill(p)
  PROVE  CountsOK' /\ DockerOK'
<1>1. target' = target /\ Shrinks
  BY ProcessMoves
<1>2. /\ finished' = finished /\ control' \in {control, "absent"}
  BY DEF Start, Advance, Download, Remove, WaitCompleted, WaitFails, OpenPart, CopyDone,
         DownloadFails, Validate, Rename, Wipe, ExtractDone, ExtractFails, Verify, StackRm, Lose,
         ListKind, RemoveListed, RemoveExpires, Kill, dockerVars
<1>3. CountsOK'
  BY <1>1, PeersCount DEF Shrinks, CountsOK
<1>4. DockerOK'
  BY <1>1, <1>2 DEF Shrinks, DockerOK
<1> QED BY <1>3, <1>4

LEMMA ProcessesKeepFiles ==
  ASSUME FilesOK, NEW p \in Processes, Start(p) \/ Advance(p) \/ RemoveExpires(p) \/ Kill(p)
  PROVE  FilesOK'
<1> USE DEF FilesOK, Goto, fileVars
<1>1. PICK label \in Elsewhere : pc' = [pc EXCEPT ![p] = label]
  BY ProcessMoves
<1>2. DOMAIN pc' = Processes /\ pc'[p] = label /\ \A q \in Processes \ {p} : pc'[q] = pc[q]
  BY <1>1
<1>3. CASE UNCHANGED fileVars /\ label # "copy"
  BY <1>2, <1>3
<1>4. CASE Start(p)
  BY <1>2, <1>3, <1>4 DEF Start, BeginRemove
<1>5. CASE WaitCompleted(p) \/ WaitFails(p) \/ Verify(p) \/ RemoveExpires(p)
  BY <1>2, <1>3, <1>5 DEF WaitCompleted, WaitFails, Fails, Verify, RemoveExpires, NotRemoved,
     BeginRemove
<1>6. CASE Remove(p)
  BY <1>2, <1>3, <1>6 DEF Remove, StackRm, RemoveListed, ListKind, Removed, NextKind, Kinds,
     FirstKind
<1>7. CASE OpenPart(p)
  <2>1. \E i \in Inodes : /\ part' = i /\ whole' = whole \ {i}
                          /\ inode' = [inode EXCEPT ![p] = i]
    BY <1>7, InodeIsLeft DEF OpenPart
  <2> QED BY <1>2, <1>7, <2>1 DEF OpenPart
<1>8. ASSUME Close(p), label # "copy"
      PROVE  /\ inode' \in [Processes -> Inodes \cup {Nobody}]
             /\ wiped' \subseteq Processes
             /\ \A q \in Processes : pc'[q] = "copy" => inode'[q] \in Inodes
  BY <1>2, <1>8 DEF Close
<1>9. CASE CopyDone(p)
  <2>1. pc[p] = "copy" /\ label = "validate"
    BY <1>2, <1>9 DEF CopyDone
  <2> QED BY <1>2, <1>8, <1>9, <2>1 DEF CopyDone
<1>10. CASE DownloadFails(p) \/ ExtractDone(p) \/ ExtractFails(p) \/ Kill(p)
  <2>1. label # "copy"
    BY <1>2, <1>10 DEF DownloadFails, ExtractDone, ExtractFails, Extracted, Kill, Fails,
       BeginRemove
  <2> QED BY <1>2, <1>8, <1>10, <2>1 DEF DownloadFails, ExtractDone, ExtractFails, Kill, Kept
<1>11. CASE Validate(p) \/ Rename(p) \/ Wipe(p)
  <2>1. label # "copy"
    BY <1>2, <1>11 DEF Validate, Rename, Wipe, Fails, BeginRemove
  <2> QED BY <1>2, <1>11, <2>1 DEF Validate, Rename, Wipe, Kept
<1> QED BY <1>4, <1>5, <1>6, <1>7, <1>9, <1>10, <1>11 DEF Advance, Download

LEMMA ProcessesKeepOwn ==
  ASSUME OwnOK, NEW p \in Processes, Start(p) \/ Advance(p) \/ RemoveExpires(p) \/ Kill(p)
  PROVE  OwnOK'
<1> USE DEF OwnOK, removeVars, BeginRemove
<1>1. CASE Start(p)
  <2>1. PICK o \in LaterCommands :
          /\ options' = [options EXCEPT ![p] = o]
          /\ IF o = "stop"
             THEN BeginRemove(p, "report") /\ released' = TRUE
             ELSE Goto(p, "wait") /\ calm' = calm \ {p} /\ UNCHANGED <<tail, released>>
    BY <1>1 DEF Start
  <2>2. options' \in [Processes -> Commands \cup {"stop"}] /\ UNCHANGED <<found, unsure>>
    BY <1>1, <2>1 DEF Start, Commands
  <2>3. CASE o = "stop"
    <3>1. /\ tail' = [tail EXCEPT ![p] = "report"] /\ released' = TRUE
          /\ calm' \in {calm \ {p}, calm \cup {p}}
      BY <2>1, <2>3
    <3>2. tail' \in [Processes -> {"report", "ignore", "retry"}]
      BY <3>1
    <3>3. calm' \subseteq Processes
      BY <3>1
    <3> QED BY <2>2, <3>1, <3>2, <3>3
  <2>4. CASE o # "stop"
    BY <2>1, <2>2, <2>4
  <2> QED BY <2>3, <2>4
<1>2. ASSUME Fails(p), options' = options PROVE OwnOK'
  <2>1. CASE Removes(options[p])
    <3>1. /\ tail' = [tail EXCEPT ![p] = "ignore"] /\ released' = TRUE
          /\ UNCHANGED <<found, unsure>> /\ calm' \in {calm \ {p}, calm \cup {p}}
      BY <1>2, <2>1 DEF Fails
    <3>2. tail' \in [Processes -> {"report", "ignore", "retry"}]
      BY <3>1
    <3>3. calm' \subseteq Processes
      BY <3>1
    <3> QED BY <1>2, <3>1, <3>2, <3>3
  <2>2. CASE ~Removes(options[p])
    BY <1>2, <2>2 DEF Fails
  <2> QED BY <2>1, <2>2
<1>3. CASE WaitCompleted(p) \/ WaitFails(p)
  BY <1>2, <1>3 DEF WaitCompleted, WaitFails
<1>4. CASE OpenPart(p) \/ CopyDone(p) \/ DownloadFails(p) \/ Validate(p)
  BY <1>2, <1>4 DEF OpenPart, CopyDone, DownloadFails, Validate
<1>5. CASE Rename(p) \/ Wipe(p) \/ Verify(p)
  BY <1>2, <1>5 DEF Rename, Wipe, Verify
<1>6. CASE ExtractDone(p) \/ ExtractFails(p)
  BY <1>2, <1>6 DEF ExtractDone, ExtractFails, Extracted
<1>7. CASE StackRm(p) \/ RemoveListed(p) \/ RemoveExpires(p) \/ Kill(p)
  BY <1>7 DEF StackRm, RemoveListed, RemoveExpires, NotRemoved, Kill
<1>8. CASE ListKind(p)
  BY <1>8 DEF ListKind, Removed, Kinds
<1> QED BY <1>1, <1>3, <1>4, <1>5, <1>6, <1>7, <1>8 DEF Advance, Download, Remove

(* Everything stays in its range: replicas below the batch's target, which *)
(* is below the number of peers, and a file for whoever opens one.         *)
THEOREM TypeCorrect == Spec => []TypeOK
<1>1. TypeInv /\ [Next]_vars => TypeInv'
  <2> SUFFICES ASSUME TypeInv, [Next]_vars PROVE TypeInv'
    OBVIOUS
  <2>1. ASSUME NEW p \in Processes, Start(p) \/ Advance(p) \/ RemoveExpires(p) \/ Kill(p)
        PROVE  TypeInv'
    BY <2>1, TypeParts, ProcessesKeepDocker, ProcessesKeepFiles, ProcessesKeepOwn
  <2> QED BY <2>1, DeployKeepsTypes DEF Next
<1>2. TypeInv => TypeOK
  BY DEF TypeInv
<1> QED BY <1>1, <1>2, TypeStart, PTL DEF Spec

-----------------------------------------------------------------------------
(* Two invocations at once, on one run directory.                          *)
Files ==
  /\ DOMAIN pc = Processes /\ DOMAIN inode = Processes
  /\ DOMAIN tail = Processes /\ DOMAIN options = Processes
  /\ part \in Inodes \cup {Nobody} /\ archive \in Inodes \cup {Nobody}
  /\ part # Nobody => part # archive

(* The Controller is created once, and stays as it ended or is removed.    *)
ControlOnce ==
  /\ pc[Runner] \in DOMAIN Creates => control = "absent" /\ ~finished
  /\ finished => control \in {"completed", "absent"}

(* An invocation that has saved the results, by what it says or will say.  *)
HasSaved(p) ==
  \/ pc[p] = "verify"
  \/ pc[p] \in Removing /\ ~released
  \/ pc[p] \in Removing /\ tail[p] # "ignore" /\ options[p] # "stop"
  \/ pc[p] = "ok" /\ options[p] \in Downloading

Needed == finished /\ ~released /\ control # "completed"

(* The part file that is about to become the archive was truncated.        *)
Spoilt(p) == pc[p] = "rename" /\ part # Nobody /\ part \notin whole

(* It was truncated by the other invocation, which has not come as far as  *)
(* its own rename since, and while the Controller had the results.         *)
SpoiltInTime ==
  \A p \in Processes : Spoilt(p) =>
    /\ ~Needed
    /\ \A q \in Processes : ~HasSaved(q) /\ pc[q] \notin {"wipe", "extract"}

(* Hence what is extracted is whole only if the archive is.                *)
ExtractIsWhole ==
  \A p \in Processes : pc[p] = "extract" => inode[p] = archive \/ archive \in whole

SavedIsWhole ==
  /\ \A p \in Processes : HasSaved(p) => archive \in whole
  /\ Needed => archive \in whole

SurvivalInv == Files /\ ControlOnce /\ SpoiltInTime /\ ExtractIsWhole /\ SavedIsWhole

TwoAtMost == \E q : Others \subseteq {q}

LEMMA Pair ==
  ASSUME TwoAtMost, NEW p \in Processes, NEW q \in Processes, p # q
  PROVE  \A x \in Processes : x = p \/ x = q
BY DEF TwoAtMost, Processes

-----------------------------------------------------------------------------
(* A step of one invocation leaves the others where they are, and takes    *)
(* nothing back that was released.                                         *)
Frame(p, label) ==
  /\ pc' = [pc EXCEPT ![p] = label]
  /\ released => released'
  /\ DOMAIN tail' = Processes /\ DOMAIN options' = Processes
  /\ \A q \in Processes \ {p} : tail'[q] = tail[q] /\ options'[q] = options[q]

LEMMA OthersStay ==
  ASSUME Files, NEW p \in Processes, NEW label, Frame(p, label)
  PROVE  /\ pc'[p] = label /\ DOMAIN pc' = Processes
         /\ \A q \in Processes \ {p} : pc'[q] = pc[q] /\ (HasSaved(q)' => HasSaved(q))
<1>1. pc'[p] = label /\ DOMAIN pc' = Processes /\ \A q \in Processes \ {p} : pc'[q] = pc[q]
  BY DEF Files, Frame
<1>2. ASSUME NEW q \in Processes \ {p}, HasSaved(q)' PROVE HasSaved(q)
  <2>1. /\ pc'[q] = pc[q] /\ tail'[q] = tail[q] /\ options'[q] = options[q]
        /\ released => released'
    BY <1>1 DEF Frame
  <2> QED BY <1>2, <2>1 DEF HasSaved
<1> QED BY <1>1, <1>2

(* A step that does not truncate the part file nor give it its name.       *)
LEMMA StepSurvives ==
  ASSUME SurvivalInv, NEW p \in Processes, NEW label, Frame(p, label),
         ControlOnce', Needed' => Needed \/ HasSaved(p),
         DOMAIN inode' = Processes, \A q \in Processes \ {p} : inode'[q] = inode[q],
         archive' = archive, archive \in whole => archive \in whole',
         part' \in {part, Nobody},
         part' # Nobody /\ part \in whole => part \in whole',
         label = "rename" => part' \in whole',
         label = "extract" => inode'[p] = archive \/ (pc[p] = "extract" /\ inode'[p] = inode[p]),
         label \in {"wipe", "extract"} \/ HasSaved(p)' =>
           pc[p] \in {"wipe", "extract"} \/ HasSaved(p),
         HasSaved(p)' => HasSaved(p) \/ archive \in whole
  PROVE  SurvivalInv'
<1>1. Files /\ SpoiltInTime /\ ExtractIsWhole /\ SavedIsWhole
  BY DEF SurvivalInv
<1>2. /\ pc'[p] = label /\ DOMAIN pc' = Processes
      /\ \A q \in Processes \ {p} : pc'[q] = pc[q] /\ (HasSaved(q)' => HasSaved(q))
  BY <1>1, OthersStay
<1>3. Files'
  BY <1>1, <1>2 DEF Files, Frame
<1>4. ASSUME NEW q \in Processes, Spoilt(q)' PROVE Spoilt(q) /\ q # p
  <2>1. pc'[q] = "rename" /\ part' # Nobody /\ part' \notin whole'
    BY <1>4 DEF Spoilt
  <2>2. q # p
    BY <1>2, <2>1
  <2>3. part' = part /\ part \notin whole
    BY <2>1
  <2> QED BY <1>2, <2>1, <2>2, <2>3 DEF Spoilt
<1>5. SpoiltInTime'
  <2> SUFFICES ASSUME NEW q \in Processes, Spoilt(q)'
               PROVE  /\ ~Needed'
                      /\ \A x \in Processes : ~HasSaved(x)' /\ pc'[x] \notin {"wipe", "extract"}
    BY DEF SpoiltInTime
  <2>1. /\ ~Needed
        /\ \A x \in Processes : ~HasSaved(x) /\ pc[x] \notin {"wipe", "extract"}
    BY <1>1, <1>4 DEF SpoiltInTime
  <2> QED BY <1>2, <2>1
<1>6. ExtractIsWhole'
  <2> SUFFICES ASSUME NEW q \in Processes, pc'[q] = "extract"
               PROVE  inode'[q] = archive \/ archive \in whole'
    BY DEF ExtractIsWhole
  <2>1. CASE q = p
    BY <1>1, <1>2, <2>1 DEF ExtractIsWhole
  <2>2. CASE q # p
    BY <1>1, <1>2, <2>2 DEF ExtractIsWhole
  <2> QED BY <2>1, <2>2
<1>7. SavedIsWhole'
  <2>1. ASSUME NEW q \in Processes, HasSaved(q)' PROVE archive \in whole
    BY <1>1, <1>2, <2>1 DEF SavedIsWhole
  <2>2. Needed' => archive \in whole
    BY <1>1 DEF SavedIsWhole
  <2> QED BY <2>1, <2>2 DEF SavedIsWhole
<1> QED BY <1>3, <1>5, <1>6, <1>7 DEF SurvivalInv

(* Giving up: nothing is claimed to be saved.                              *)
LEMMA FailsGivesUp ==
  ASSUME Files, NEW p \in Processes, Fails(p), options' = options
  PROVE  \E label \in {"stackRm", "failed"} : Frame(p, label) /\ ~HasSaved(p)'
<1>1. CASE Removes(options[p])
  <2>1. /\ pc' = [pc EXCEPT ![p] = "stackRm"] /\ tail' = [tail EXCEPT ![p] = "ignore"]
        /\ released' = TRUE
    BY <1>1 DEF Fails, BeginRemove, Goto
  <2>2. Frame(p, "stackRm")
    BY <2>1 DEF Frame, Files
  <2>3. ~HasSaved(p)'
    BY <2>1 DEF HasSaved, Files, Removing
  <2> QED BY <2>2, <2>3
<1>2. CASE ~Removes(options[p])
  <2>1. pc' = [pc EXCEPT ![p] = "failed"] /\ tail' = tail /\ released' = released
    BY <1>2 DEF Fails, Goto, removeVars
  <2>2. Frame(p, "failed")
    BY <2>1 DEF Frame, Files
  <2>3. ~HasSaved(p)'
    BY <2>1 DEF HasSaved, Files, Removing, Kinds
  <2> QED BY <2>2, <2>3
<1> QED BY <1>1, <1>2

(* A process outside of its own deploy does not create the Controller.     *)
LEMMA ControlStays ==
  ASSUME SurvivalInv, NEW p \in Processes, NEW label, Frame(p, label),
         label \notin DOMAIN Creates, UNCHANGED <<control, finished>>
  PROVE  ControlOnce' /\ (Needed' => Needed)
<1>1. ControlOnce /\ Files
  BY DEF SurvivalInv
<1>2. pc'[Runner] \in DOMAIN Creates => pc[Runner] \in DOMAIN Creates
  BY <1>1 DEF Frame, Files, Processes
<1> QED BY <1>1, <1>2 DEF ControlOnce, Needed, Frame

LEMMA Labels ==
  /\ \A label \in Elsewhere : label \notin DOMAIN Creates
  /\ DOMAIN Creates = {"mkOther", "mkService"}
BY DeployOrder DEF Elsewhere, Removing, Kinds, Ended

-----------------------------------------------------------------------------
(* The files after a step that only closes, or removes the part file.      *)
Closes(p) ==
  /\ inode' = inode \/ Close(p)
  /\ archive' = archive /\ part' \in {part, Nobody}
  /\ whole \subseteq whole' \/ whole' = Kept(whole)

LEMMA ClosesKeeps ==
  ASSUME SurvivalInv, NEW p \in Processes, Closes(p)
  PROVE  /\ DOMAIN inode' = Processes /\ \A q \in Processes \ {p} : inode'[q] = inode[q]
         /\ archive' = archive /\ part' \in {part, Nobody}
         /\ archive \in whole => archive \in whole'
         /\ part' # Nobody /\ part \in whole => part \in whole'
         /\ part' # Nobody => part' = part
BY DEF SurvivalInv, Files, Closes, Close, Kept

LEMMA FailingSurvives ==
  ASSUME SurvivalInv, NEW p \in Processes, Fails(p), options' = options,
         UNCHANGED <<control, finished>>, Closes(p)
  PROVE  SurvivalInv'
<1>1. PICK label \in {"stackRm", "failed"} : Frame(p, label) /\ ~HasSaved(p)'
  BY FailsGivesUp DEF SurvivalInv
<1>2. ControlOnce' /\ (Needed' => Needed)
  BY <1>1, ControlStays, Labels DEF Elsewhere, Removing, Ended
<1> QED BY <1>1, <1>2, ClosesKeeps, StepSurvives

(* A step that goes on, without a word about results.                      *)
LEMMA GoingOnSurvives ==
  ASSUME SurvivalInv, NEW p \in Processes,
         NEW label \in {"idle", "exist", "healthy", "scale", "settle", "wait", "request", "copy",
                        "validate", "failed"},
         Frame(p, label), UNCHANGED <<control, finished>>, Closes(p)
  PROVE  SurvivalInv'
<1>1. ControlOnce' /\ (Needed' => Needed)
  BY ControlStays, Labels
<1>2. ~HasSaved(p)'
  BY OthersStay DEF SurvivalInv, HasSaved, Removing, Kinds
<1> QED BY <1>1, <1>2, ClosesKeeps, StepSurvives

LEMMA OwnFrame ==
  ASSUME SurvivalInv, NEW p \in Processes, NEW label, pc' = [pc EXCEPT ![p] = label],
         tail' = tail \/ \E meaning : tail' = [tail EXCEPT ![p] = meaning],
         options' = options \/ \E o : options' = [options EXCEPT ![p] = o],
         released => released'
  PROVE  Frame(p, label)
BY DEF SurvivalInv, Files, Frame

LEMMA WaitSurvives ==
  ASSUME SurvivalInv, NEW p \in Processes, WaitCompleted(p) \/ WaitFails(p)
  PROVE  SurvivalInv'
<1>1. CASE WaitCompleted(p)
  <2>1. Frame(p, "request") /\ Closes(p) /\ UNCHANGED <<control, finished>>
    BY <1>1, OwnFrame DEF WaitCompleted, Goto, Closes, removeVars, fileVars, dockerVars
  <2> QED BY <2>1, GoingOnSurvives
<1>2. CASE WaitFails(p)
  BY <1>2, FailingSurvives DEF WaitFails, Closes, dockerVars, fileVars
<1> QED BY <1>1, <1>2

LEMMA OpenPartSurvives ==
  ASSUME TwoAtMost, SurvivalInv, NEW p \in Processes, OpenPart(p)
  PROVE  SurvivalInv'
<1> DEFINE held == {inode[q] : q \in Processes \ {p}}
           i == IF part # Nobody THEN part ELSE CHOOSE j \in Inodes : j \notin held \cup {archive}
<1>1. /\ control = "completed" /\ part' = i /\ whole' = whole \ {i}
      /\ inode' = [inode EXCEPT ![p] = i] /\ pc' = [pc EXCEPT ![p] = "copy"]
      /\ UNCHANGED <<control, finished, archive, tail, released, options>>
  BY DEF OpenPart, Goto, dockerVars, removeVars
<1>2. Files /\ SpoiltInTime /\ ExtractIsWhole /\ SavedIsWhole
  BY DEF SurvivalInv
<1>3. i \in Inodes /\ i # archive
  <2>1. CASE part # Nobody
    BY <1>2, <2>1 DEF Files
  <2>2. CASE part = Nobody
    <3>1. \E j \in Inodes : j \notin held \cup {archive}
      BY InodeIsLeft
    <3>2. i \in Inodes /\ i \notin held \cup {archive}
      BY <2>2, <3>1
    <3> QED BY <3>2
  <2> QED BY <2>1, <2>2
<1> HIDE DEF i
<1>4. Frame(p, "copy")
  BY <1>1, OwnFrame
<1>5. /\ pc'[p] = "copy" /\ DOMAIN pc' = Processes
      /\ \A q \in Processes \ {p} : pc'[q] = pc[q] /\ (HasSaved(q)' => HasSaved(q))
  BY <1>2, <1>4, OthersStay
<1>6. ~HasSaved(p)'
  BY <1>5 DEF HasSaved, Removing, Kinds
<1>7. ControlOnce' /\ ~Needed'
  BY <1>1, <1>4, ControlStays, Labels DEF Needed
<1>8. Files'
  BY <1>1, <1>2, <1>3, <1>5 DEF Files
<1>9. SpoiltInTime'
  <2> SUFFICES ASSUME NEW q \in Processes, Spoilt(q)'
               PROVE  \A x \in Processes : ~HasSaved(x)' /\ pc'[x] \notin {"wipe", "extract"}
    BY <1>7 DEF SpoiltInTime
  <2>1. pc'[q] = "rename" /\ q # p
    BY <1>5 DEF Spoilt
  <2>2. ~HasSaved(q)'
    BY <2>1 DEF HasSaved, Removing, Kinds
  <2> QED BY <1>5, <1>6, <2>1, <2>2, Pair
<1>10. archive \in whole => archive \in whole'
  BY <1>1, <1>3
<1>11. ExtractIsWhole'
  BY <1>1, <1>2, <1>5, <1>10 DEF ExtractIsWhole, Files
<1>12. SavedIsWhole'
  BY <1>1, <1>2, <1>5, <1>6, <1>7, <1>10 DEF SavedIsWhole
<1> QED BY <1>7, <1>8, <1>9, <1>11, <1>12 DEF SurvivalInv

LEMMA CopySurvives ==
  ASSUME SurvivalInv, NEW p \in Processes, CopyDone(p) \/ DownloadFails(p)
  PROVE  SurvivalInv'
<1>1. CASE CopyDone(p)
  <2>1. Frame(p, "validate") /\ Closes(p) /\ UNCHANGED <<control, finished>>
    BY <1>1, OwnFrame DEF CopyDone, Goto, Closes, removeVars, dockerVars
  <2> QED BY <2>1, GoingOnSurvives
<1>2. CASE DownloadFails(p)
  <2>1. Fails(p) /\ Closes(p) /\ options' = options /\ UNCHANGED <<control, finished>>
    BY <1>2 DEF DownloadFails, Closes, dockerVars
  <2> QED BY <2>1, FailingSurvives
<1> QED BY <1>1, <1>2

LEMMA ValidateSurvives ==
  ASSUME SurvivalInv, NEW p \in Processes, Validate(p)
  PROVE  SurvivalInv'
<1>1. Closes(p) /\ UNCHANGED <<control, finished, options>>
  BY DEF Validate, Closes, removeVars, dockerVars
<1>2. CASE Valid
  <2>1. /\ pc' = [pc EXCEPT ![p] = "rename"] /\ part' = part /\ part \in whole
        /\ UNCHANGED <<tail, released, whole>>
    BY <1>2 DEF Validate, Valid, Goto, removeVars
  <2>2. Frame(p, "rename")
    BY <1>1, <2>1, OwnFrame
  <2>3. ControlOnce' /\ (Needed' => Needed)
    BY <1>1, <2>2, ControlStays, Labels
  <2>4. ~HasSaved(p)'
    BY <2>2, OthersStay DEF SurvivalInv, HasSaved, Removing, Kinds
  <2> QED BY <1>1, <2>1, <2>2, <2>3, <2>4, ClosesKeeps, StepSurvives
<1>3. CASE ~Valid
  BY <1>1, <1>3, FailingSurvives DEF Validate
<1> QED BY <1>2, <1>3

LEMMA RenameSurvives ==
  ASSUME SurvivalInv, NEW p \in Processes, Rename(p)
  PROVE  SurvivalInv'
<1>1. UNCHANGED <<control, finished, options, inode>> /\ whole' = Kept(whole)
  BY DEF Rename, dockerVars
<1>2. CASE UNCHANGED <<archive, part>> /\ Fails(p)
  BY <1>1, <1>2, FailingSurvives DEF Closes
<1>3. CASE part # Nobody /\ archive' = part /\ part' = Nobody /\ Goto(p, "wipe")
           /\ UNCHANGED removeVars
  <2>1. Files /\ SpoiltInTime /\ ExtractIsWhole /\ SavedIsWhole
    BY DEF SurvivalInv
  <2>2. Frame(p, "wipe")
    BY <1>1, <1>3, OwnFrame DEF Goto, removeVars
  <2>3. /\ pc'[p] = "wipe" /\ DOMAIN pc' = Processes
        /\ \A q \in Processes \ {p} : pc'[q] = pc[q] /\ (HasSaved(q)' => HasSaved(q))
    BY <2>1, <2>2, OthersStay
  <2>4. ~HasSaved(p)'
    BY <2>3 DEF HasSaved, Removing, Kinds
  <2>5. ControlOnce' /\ (Needed' => Needed)
    BY <1>1, <2>2, ControlStays, Labels
  <2>6. Files'
    BY <1>1, <1>3, <2>1, <2>2, <2>3 DEF Files, Frame
  <2>7. SpoiltInTime'
    BY <1>3 DEF SpoiltInTime, Spoilt
  <2>8. pc[p] = "rename" /\ (part \in whole => archive' \in whole')
    BY <1>1, <1>3 DEF Rename, Kept
  <2>9. ASSUME NEW q \in Processes, HasSaved(q)' \/ Needed' \/ pc'[q] = "extract"
        PROVE  archive' \in whole'
    <3>1. HasSaved(q) \/ Needed \/ pc[q] = "extract"
      BY <2>3, <2>4, <2>5, <2>9
    <3>2. ~Spoilt(p)
      BY <2>1, <3>1 DEF SpoiltInTime
    <3>3. part \in whole
      BY <1>3, <2>8, <3>2 DEF Spoilt
    <3> QED BY <2>8, <3>3
  <2>10. ExtractIsWhole'
    BY <2>9 DEF ExtractIsWhole
  <2>11. SavedIsWhole'
    <3>1. Runner \in Processes
      BY DEF Processes
    <3> QED BY <2>9, <3>1 DEF SavedIsWhole
  <2> QED BY <2>5, <2>6, <2>7, <2>10, <2>11 DEF SurvivalInv
<1> QED BY <1>2, <1>3 DEF Rename

LEMMA WipeSurvives ==
  ASSUME SurvivalInv, NEW p \in Processes, Wipe(p)
  PROVE  SurvivalInv'
<1>1. /\ pc[p] = "wipe" /\ pc' = [pc EXCEPT ![p] = "extract"]
      /\ inode' = [inode EXCEPT ![p] = archive]
      /\ UNCHANGED <<control, finished, tail, released, options, part, archive, whole>>
  BY DEF Wipe, Goto, dockerVars, removeVars
<1>2. Frame(p, "extract")
  BY <1>1, OwnFrame
<1>3. ControlOnce' /\ (Needed' => Needed)
  BY <1>1, <1>2, ControlStays, Labels
<1>4. /\ DOMAIN inode' = Processes /\ \A q \in Processes \ {p} : inode'[q] = inode[q]
      /\ inode'[p] = archive
  BY <1>1 DEF SurvivalInv, Files
<1>5. ~HasSaved(p)'
  BY <1>2, OthersStay DEF SurvivalInv, HasSaved, Removing, Kinds
<1>6. /\ pc[p] = "wipe" /\ archive' = archive /\ part' = part
      /\ archive \in whole => archive \in whole'
      /\ part' # Nobody /\ part \in whole => part \in whole'
  BY <1>1
<1> QED BY <1>2, <1>3, <1>4, <1>5, <1>6, StepSurvives

LEMMA ExtractSurvives ==
  ASSUME SurvivalInv, NEW p \in Processes, ExtractDone(p) \/ ExtractFails(p)
  PROVE  SurvivalInv'
<1>1. CASE ExtractFails(p)
  BY <1>1, FailingSurvives DEF ExtractFails, Closes, dockerVars
<1>2. CASE ExtractDone(p)
  <2>1. pc[p] = "extract" /\ inode[p] \in whole /\ Closes(p) /\ Extracted(p)
        /\ UNCHANGED <<control, finished, options, part, archive>>
    BY <1>2 DEF ExtractDone, Closes, dockerVars
  <2>2. archive \in whole
    BY <2>1 DEF SurvivalInv, ExtractIsWhole
  <2>3. \E label \in {"verify", "ok", "stackRm"} : Frame(p, label)
    <3>1. /\ \E label \in {"verify", "ok", "stackRm"} : pc' = [pc EXCEPT ![p] = label]
          /\ tail' = tail \/ \E meaning : tail' = [tail EXCEPT ![p] = meaning]
          /\ released' = released
      BY <2>1 DEF Extracted, BeginRemove, Goto, removeVars
    <3> QED BY <2>1, <3>1, OwnFrame
  <2>4. PICK label \in {"verify", "ok", "stackRm"} : Frame(p, label)
    BY <2>3
  <2>5. ControlOnce' /\ (Needed' => Needed)
    BY <2>1, <2>4, ControlStays, Labels
  <2>6. label # "rename" /\ label # "extract" /\ pc[p] \in {"wipe", "extract"}
    BY <2>1
  <2>7. /\ DOMAIN inode' = Processes /\ \A q \in Processes \ {p} : inode'[q] = inode[q]
        /\ archive \in whole => archive \in whole'
        /\ part' # Nobody /\ part \in whole => part \in whole'
    BY <2>1, ClosesKeeps
  <2> QED BY <2>1, <2>2, <2>4, <2>5, <2>6, <2>7, StepSurvives
<1> QED BY <1>1, <1>2

LEMMA KillSurvives ==
  ASSUME SurvivalInv, NEW p \in Processes, Kill(p)
  PROVE  SurvivalInv'
<1>1. Frame(p, "failed") /\ Closes(p) /\ UNCHANGED <<control, finished>>
  BY OwnFrame DEF Kill, Goto, Closes, dockerVars
<1> QED BY <1>1, GoingOnSurvives

-----------------------------------------------------------------------------
(* A step that opens no file: verifying, starting, removing.               *)
LEMMA FilesStaySurvives ==
  ASSUME SurvivalInv, NEW p \in Processes, UNCHANGED fileVars,
         NEW label, label \notin {"rename", "extract", "wipe"}, Frame(p, label),
         ControlOnce', Needed' => Needed \/ HasSaved(p), HasSaved(p)' => HasSaved(p)
  PROVE  SurvivalInv'
<1>1. UNCHANGED <<inode, archive, part, whole>>
  BY DEF fileVars
<1>2. DOMAIN inode' = Processes /\ \A q \in Processes \ {p} : inode'[q] = inode[q]
  BY <1>1 DEF SurvivalInv, Files
<1> QED BY <1>1, <1>2, StepSurvives

LEMMA VerifySurvives ==
  ASSUME SurvivalInv, NEW p \in Processes, Verify(p)
  PROVE  SurvivalInv'
<1>1. HasSaved(p) /\ UNCHANGED <<control, finished, options>> /\ UNCHANGED fileVars
  BY DEF Verify, HasSaved, dockerVars
<1>2. \E label \in {"ok", "stackRm", "failed"} :
        /\ pc' = [pc EXCEPT ![p] = label]
        /\ tail' = tail \/ \E meaning : tail' = [tail EXCEPT ![p] = meaning]
        /\ released' = released
  BY DEF Verify, BeginRemove, Goto, removeVars
<1>3. PICK label \in {"ok", "stackRm", "failed"} :
        /\ pc' = [pc EXCEPT ![p] = label]
        /\ tail' = tail \/ \E meaning : tail' = [tail EXCEPT ![p] = meaning]
        /\ released' = released
  BY <1>2
<1>4. Frame(p, label)
  BY <1>1, <1>3, OwnFrame
<1>5. ControlOnce' /\ (Needed' => Needed)
  BY <1>1, <1>4, ControlStays, Labels
<1> QED BY <1>1, <1>4, <1>5, FilesStaySurvives

LEMMA StartSurvives ==
  ASSUME SurvivalInv, NEW p \in Processes, Start(p)
  PROVE  SurvivalInv'
<1>1. UNCHANGED <<control, finished>> /\ UNCHANGED fileVars
  BY DEF Start, dockerVars
<1>2. PICK o \in LaterCommands :
        /\ options' = [options EXCEPT ![p] = o]
        /\ IF o = "stop"
           THEN BeginRemove(p, "report") /\ released' = TRUE
           ELSE Goto(p, "wait") /\ UNCHANGED <<tail, released>>
  BY DEF Start
<1>3. CASE o = "stop"
  <2>1. /\ pc' = [pc EXCEPT ![p] = "stackRm"] /\ released' = TRUE
        /\ tail' = [tail EXCEPT ![p] = "report"]
    BY <1>2, <1>3 DEF BeginRemove, Goto
  <2>2. Frame(p, "stackRm")
    BY <1>2, <2>1, OwnFrame
  <2>3. ~HasSaved(p)'
    <3>1. pc'[p] = "stackRm" /\ options'[p] = "stop"
      BY <1>2, <1>3, <2>1 DEF SurvivalInv, Files
    <3> QED BY <2>1, <3>1 DEF HasSaved
  <2>4. ControlOnce' /\ (Needed' => Needed)
    BY <1>1, <2>2, ControlStays, Labels
  <2> QED BY <1>1, <2>2, <2>3, <2>4, FilesStaySurvives
<1>4. CASE o # "stop"
  <2>0. /\ pc' = [pc EXCEPT ![p] = "wait"] /\ options' = [options EXCEPT ![p] = o]
        /\ UNCHANGED <<tail, released>>
    BY <1>2, <1>4 DEF Goto
  <2>1. Frame(p, "wait")
    BY <2>0, OwnFrame
  <2> QED BY <1>1, <2>1, GoingOnSurvives DEF Closes, fileVars
<1> QED BY <1>3, <1>4

LEMMA RemovalSurvives ==
  ASSUME SurvivalInv, NEW p \in Processes, StackRm(p) \/ RemoveListed(p)
  PROVE  SurvivalInv'
<1>1. /\ pc[p] \in Removing /\ pc' = [pc EXCEPT ![p] = "service"]
      /\ UNCHANGED <<finished, tail, released, options>> /\ UNCHANGED fileVars
      /\ control' \in {control, "absent"}
  BY DEF StackRm, RemoveListed, Lose, Goto, Removing, FirstKind
<1>2. Frame(p, "service")
  BY <1>1, OwnFrame
<1>3. ControlOnce'
  <2>1. pc'[Runner] \in DOMAIN Creates => pc'[Runner] = pc[Runner]
    BY <1>1, Labels DEF SurvivalInv, Files
  <2> QED BY <1>1, <2>1 DEF SurvivalInv, ControlOnce
<1>4. Needed' => HasSaved(p)
  BY <1>1 DEF Needed, HasSaved
<1>5. HasSaved(p)' => HasSaved(p)
  BY <1>1, <1>2, OthersStay DEF SurvivalInv, HasSaved
<1> QED BY <1>1, <1>2, <1>3, <1>4, <1>5, FilesStaySurvives

(* A removal that goes on or ends, without Docker removing anything.       *)
LEMMA GoesRound ==
  ASSUME SurvivalInv, NEW p \in Processes, pc[p] \in Removing,
         UNCHANGED <<control, finished, released, options>>, UNCHANGED fileVars,
         NEW label \in Removing \cup Ended, pc' = [pc EXCEPT ![p] = label],
         NEW meaning, DOMAIN tail' = Processes, tail'[p] = meaning,
         \A q \in Processes \ {p} : tail'[q] = tail[q],
         label \in Removing => meaning \in {tail[p], "ignore"},
         label = "ok" => tail[p] # "ignore"
  PROVE  SurvivalInv'
<1>1. Frame(p, label)
  BY DEF Frame, SurvivalInv, Files
<1>2. label \in Elsewhere /\ label \notin {"rename", "extract", "wipe"}
  BY DEF Elsewhere, Removing, Kinds, Ended
<1>3. ControlOnce' /\ (Needed' => Needed)
  BY <1>1, <1>2, ControlStays, Labels
<1>4. pc'[p] = label /\ tail'[p] = meaning
  BY DEF SurvivalInv, Files
<1>5. ASSUME HasSaved(p)' PROVE HasSaved(p)
  <2>1. CASE label \in Removing
    <3>1. label # "ok" /\ label # "verify"
      BY <2>1 DEF Removing, Kinds
    <3> QED BY <1>4, <1>5, <2>1, <3>1 DEF HasSaved
  <2>2. CASE label \in Ended
    <3>1. label = "ok" /\ options[p] \in Downloading
      BY <1>4, <1>5, <2>2 DEF HasSaved, Ended, Removing, Kinds
    <3> QED BY <3>1 DEF HasSaved, Downloading
  <2> QED BY <2>1, <2>2
<1> QED BY <1>1, <1>2, <1>3, <1>5, FilesStaySurvives

LEMMA ListingSurvives ==
  ASSUME SurvivalInv, NEW p \in Processes, ListKind(p) \/ RemoveExpires(p)
  PROVE  SurvivalInv'
<1>1. /\ pc[p] \in Removing /\ DOMAIN tail = Processes
      /\ UNCHANGED <<control, finished, released, options>> /\ UNCHANGED fileVars
  BY DEF ListKind, RemoveExpires, dockerVars, Removing, SurvivalInv, Files
<1>2. ASSUME NEW label \in {"service", "other", "rm", "stackRm"}, Goto(p, label),
             NEW meaning \in {tail[p], "ignore"},
             tail' = [tail EXCEPT ![p] = meaning] \/ (tail' = tail /\ meaning = tail[p])
      PROVE  SurvivalInv'
  <2>1. /\ label \in Removing /\ label # "ok" /\ pc' = [pc EXCEPT ![p] = label]
        /\ DOMAIN tail' = Processes /\ tail'[p] = meaning
        /\ \A q \in Processes \ {p} : tail'[q] = tail[q]
    BY <1>1, <1>2 DEF Goto, Removing, Kinds
  <2> QED BY <1>1, <2>1, GoesRound
<1>3. ASSUME NEW label \in Ended, label = "ok" => tail[p] # "ignore",
             Goto(p, label), tail' = [tail EXCEPT ![p] = "report"]
      PROVE  SurvivalInv'
  <2>1. /\ label \notin Removing /\ pc' = [pc EXCEPT ![p] = label]
        /\ DOMAIN tail' = Processes /\ tail'[p] = "report"
        /\ \A q \in Processes \ {p} : tail'[q] = tail[q]
    BY <1>1, <1>3 DEF Goto, Removing, Kinds, Ended
  <2> QED BY <1>1, <1>3, <2>1, GoesRound
<1>4. CASE Removed(p)
  <2>1. /\ Goto(p, IF tail[p] = "ignore" THEN "failed" ELSE "ok")
        /\ tail' = [tail EXCEPT ![p] = "report"]
    BY <1>4 DEF Removed
  <2> QED BY <1>3, <2>1 DEF Ended
<1>5. CASE NotRemoved(p)
  <2>1. CASE tail[p] = "retry"
    <3>1. Goto(p, "stackRm") /\ tail' = [tail EXCEPT ![p] = "ignore"]
      BY <1>5, <2>1 DEF NotRemoved
    <3> QED BY <1>2, <3>1
  <2>2. CASE tail[p] # "retry"
    BY <1>3, <1>5, <2>2 DEF NotRemoved, Ended
  <2> QED BY <2>1, <2>2
<1>6. CASE ListKind(p) /\ ~Removed(p)
  <2>1. PICK label \in {"other", "rm"} : Goto(p, label) /\ tail' = tail
    BY <1>6 DEF ListKind, NextKind, Kinds
  <2> QED BY <1>2, <2>1
<1> QED BY <1>4, <1>5, <1>6 DEF RemoveExpires

-----------------------------------------------------------------------------
LEMMA CreateSurvives == ASSUME SurvivalInv, Create PROVE SurvivalInv'
<1>1. Files /\ ControlOnce /\ Runner \in Processes
  BY DEF SurvivalInv, Processes
<1>2. pc[Runner] \in DOMAIN Creates /\ control = "absent" /\ ~finished
  BY <1>1 DEF Create, ControlOnce
<1>3. /\ UNCHANGED <<finished, tail, released, options>> /\ UNCHANGED fileVars
      /\ \E label \in {"mkService", "exist"} : pc' = [pc EXCEPT ![Runner] = label]
  BY <1>2, DeployOrder DEF Create, Goto, removeVars
<1>4. PICK label \in {"mkService", "exist"} : Frame(Runner, label)
  BY <1>1, <1>3, OwnFrame
<1>5. pc'[Runner] = label /\ ~HasSaved(Runner)'
  BY <1>1, <1>4, OthersStay DEF HasSaved, Removing, Kinds
<1>6. pc[Runner] = "mkOther" => control' = control
  BY DeployOrder DEF Create, FirstKind
<1>7. pc[Runner] = "mkService" => pc'[Runner] = "exist"
  BY <1>1, DeployOrder DEF Create, Goto, Files
<1>8. ControlOnce' /\ ~Needed'
  BY <1>2, <1>3, <1>6, <1>7, DeployOrder DEF ControlOnce, Needed
<1> QED BY <1>1, <1>3, <1>4, <1>5, <1>8, FilesStaySurvives

LEMMA DeploySurvives == ASSUME SurvivalInv, Deploy PROVE SurvivalInv'
<1>1. CASE Create
  BY <1>1, CreateSurvives
<1>2. CASE Deployed \/ ControlReady \/ Scale \/ DeployFails
  <2>1. /\ UNCHANGED <<control, finished, tail, released, options>> /\ UNCHANGED fileVars
        /\ \E label \in {"healthy", "scale", "settle", "failed"} :
             pc' = [pc EXCEPT ![Runner] = label]
    BY <1>2 DEF Deployed, ControlReady, Scale, DeployFails, Goto, dockerVars, removeVars
  <2>2. Runner \in Processes
    BY DEF Processes
  <2>3. PICK label \in {"healthy", "scale", "settle", "failed"} : Frame(Runner, label)
    BY <2>1, <2>2, OwnFrame
  <2> QED BY <2>1, <2>2, <2>3, GoingOnSurvives DEF Closes, fileVars
<1>3. CASE Settle
  <2>1. UNCHANGED <<control, finished, tail, released, options>> /\ UNCHANGED fileVars
    BY <1>3 DEF Settle, dockerVars, removeVars
  <2>2. Runner \in Processes
    BY DEF Processes
  <2>3. CASE \E label \in {"wait", "scale"} : pc' = [pc EXCEPT ![Runner] = label]
    <3>1. PICK label \in {"wait", "scale"} : Frame(Runner, label)
      BY <2>1, <2>2, <2>3, OwnFrame
    <3> QED BY <2>1, <2>2, <3>1, GoingOnSurvives DEF Closes, fileVars
  <2>4. CASE options[Runner] = "run detach" /\ pc' = [pc EXCEPT ![Runner] = "ok"]
    <3>1. Frame(Runner, "ok")
      BY <2>1, <2>2, <2>4, OwnFrame
    <3>2. ControlOnce' /\ (Needed' => Needed)
      BY <2>1, <2>2, <3>1, ControlStays, Labels
    <3>3. pc'[Runner] = "ok" /\ options'[Runner] \notin Downloading
      BY <2>1, <2>2, <2>4 DEF SurvivalInv, Files, Downloading
    <3>4. ~HasSaved(Runner)'
      BY <3>3 DEF HasSaved, Removing, Kinds
    <3> QED BY <2>1, <2>2, <3>1, <3>2, <3>4, FilesStaySurvives
  <2> QED BY <1>3, <2>3, <2>4 DEF Settle, Goto
<1> QED BY <1>1, <1>2, <1>3 DEF Deploy

(* The Controller ends, or nobody does anything.                           *)
LEMMA ElsewhereSurvives ==
  ASSUME SurvivalInv, TaskStarts \/ ControlEnds \/ UNCHANGED vars
  PROVE  SurvivalInv'
<1>1. /\ UNCHANGED <<pc, options, tail, released>> /\ UNCHANGED fileVars
      /\ \/ UNCHANGED <<control, finished>>
         \/ control = "running" /\ control' = "completed" /\ finished'
         \/ control = "running" /\ control' = "failed" /\ finished' = finished
  BY DEF TaskStarts, ControlEnds, vars, dockerVars, removeVars
<1>2. Files /\ ControlOnce
  BY DEF SurvivalInv
<1>3. UNCHANGED <<inode, archive, part, whole>>
  BY <1>1 DEF fileVars
<1>4. Files'
  BY <1>1, <1>2, <1>3 DEF Files
<1>5. ControlOnce' /\ (Needed' => Needed)
  BY <1>1, <1>2 DEF ControlOnce, Needed
<1>6. \A p \in Processes : (HasSaved(p)' <=> HasSaved(p)) /\ (Spoilt(p)' <=> Spoilt(p))
  BY <1>1, <1>3 DEF HasSaved, Spoilt
<1>7. SpoiltInTime'
  BY <1>1, <1>5, <1>6 DEF SurvivalInv, SpoiltInTime
<1>8. ExtractIsWhole' /\ SavedIsWhole'
  BY <1>1, <1>3, <1>5, <1>6 DEF SurvivalInv, ExtractIsWhole, SavedIsWhole
<1> QED BY <1>4, <1>5, <1>7, <1>8 DEF SurvivalInv

LEMMA NothingIsSavedYet == Init => SurvivalInv
<1> SUFFICES ASSUME Init PROVE SurvivalInv
  OBVIOUS
<1>1. \A p \in Processes : pc[p] \in {"mkOther", "idle"} /\ ~HasSaved(p)
  BY DEF Init, HasSaved, Removing, Kinds
<1>2. Files
  BY DEF Init, Files
<1>3. ControlOnce /\ SpoiltInTime /\ ExtractIsWhole
  BY <1>1 DEF Init, ControlOnce, SpoiltInTime, Spoilt, ExtractIsWhole
<1>4. SavedIsWhole
  BY <1>1 DEF Init, SavedIsWhole, Needed
<1> QED BY <1>2, <1>3, <1>4 DEF SurvivalInv

LEMMA SurvivalStep == ASSUME TwoAtMost, SurvivalInv, [Next]_vars PROVE SurvivalInv'
<1>1. ASSUME NEW p \in Processes, Start(p) \/ Advance(p) \/ RemoveExpires(p) \/ Kill(p)
      PROVE  SurvivalInv'
  <2>1. CASE Download(p)
    BY <2>1, OpenPartSurvives, CopySurvives, ValidateSurvives, RenameSurvives, WipeSurvives,
       ExtractSurvives, VerifySurvives DEF Download
  <2>2. CASE Remove(p)
    BY <2>2, RemovalSurvives, ListingSurvives DEF Remove
  <2> QED
    BY <1>1, <2>1, <2>2, StartSurvives, WaitSurvives, ListingSurvives, KillSurvives DEF Advance
<1> QED BY <1>1, DeploySurvives, ElsewhereSurvives DEF Next

(* downloadAndExtractSwarmArchive: when at most two invocations work on a  *)
(* run directory, whatever they are and whenever they are killed, a        *)
(* completed run's results are at the Controller or in the directory, if   *)
(* nobody gave them up, and a download that reports success has saved them.*)
THEOREM ResultsAreKept == ASSUME TwoAtMost PROVE Spec => []ResultsSurvive
<1>1. SurvivalInv => ResultsSurvive
  BY DEF SurvivalInv, SavedIsWhole, Needed, HasSaved, ResultsSurvive, Saved
<1>2. SurvivalInv /\ [Next]_vars => SurvivalInv'
  BY SurvivalStep
<1> QED BY <1>1, <1>2, NothingIsSavedYet, PTL DEF Spec
===============================================================================
