------------------------------ MODULE Aggregate ------------------------------
(***************************************************************************)
(* The summary of a run (internal/metrics/aggregate.go) over the event     *)
(* files the peers of that run can write.                                  *)
(*                                                                         *)
(* The actions are the run: they append to the files what Peer.record      *)
(* lets through, one file per peer, stamped by synchronized clocks (the    *)
(* README asks for them).  A peer that is finalized goes on relaying but   *)
(* records nothing, and the controller finalizes peers one by one, so      *)
(* every state is a set of files that Aggregate may be given.  Aggregate   *)
(* itself is the operator Accumulated, the code's switch over the lines of *)
(* the files in name order; the invariants compare it with definitions     *)
(* that do not depend on an order.                                         *)
(*                                                                         *)
(* A definition whose name ends in Bug is no part of Spec: it is the wrong *)
(* variant of the definition after it that some property must catch.       *)
(***************************************************************************)
EXTENDS Integers, Sequences, FiniteSets, SequencesExt, FiniteSetsExt

CONSTANTS
  N,         (* nodeCount; peer i writes the i-th file in name order        *)
  Messages,
  MaxClock   (* bound: events of a run                                     *)

ASSUME AggregateAssumption ==
  /\ N \in Nat \ {0}
  /\ MaxClock \in Nat
  /\ IsFiniteSet(Messages)

VARIABLES
  clock,      (* events so far: the next one is stamped clock + 1          *)
  file,       (* peer -> the lines of its event file                       *)
  holders,    (* message -> the peers that have it                         *)
  finalized   (* peers that were finalized                                 *)

vars == <<clock, file, holders, finalized>>

Peers == 1..N
Types == {"message_created", "message_received", "message_sent",
          "message_dropped", "message_suppressed", "control_sent",
          "control_received", "control_dropped"}

Init ==
  /\ clock = 0
  /\ file = [n \in Peers |-> << >>]
  /\ holders = [m \in Messages |-> {}]
  /\ finalized = {}

-----------------------------------------------------------------------------
(* Peer.record: stamps an event, unless the peer was finalized.            *)
Record(n, type, m, duplicate) ==
  /\ clock < MaxClock
  /\ clock' = clock + 1
  /\ file' = IF n \in finalized THEN file
             ELSE [file EXCEPT ![n] = Append(@,
               [type |-> type, msg |-> m, node |-> n, at |-> clock + 1,
                duplicate |-> duplicate])]
  /\ UNCHANGED finalized

(* Inject.                                                                 *)
Create(n, m) ==
  /\ holders[m] = {}
  /\ holders' = [holders EXCEPT ![m] = {n}]
  /\ Record(n, "message_created", m, FALSE)

(* acceptMessage, for a frame of some other peer.                          *)
Receive(n, m) ==
  /\ holders[m] \ {n} # {}
  /\ holders' = [holders EXCEPT ![m] = @ \cup {n}]
  /\ Record(n, "message_received", m, n \in holders[m])

(* A peer that has the message sends it, drops or suppresses a copy, or    *)
(* sends or drops an IDONTWANT for it.                                     *)
Relay(n, m) ==
  /\ n \in holders[m]
  /\ \E type \in Types \ {"message_created", "message_received", "control_received"} :
       Record(n, type, m, FALSE)
  /\ UNCHANGED holders

(* acceptIDontWant, from some other peer.                                  *)
Advised(n, m) ==
  /\ holders[m] \ {n} # {}
  /\ Record(n, "control_received", m, FALSE)
  /\ UNCHANGED holders

Finalize(n) ==
  /\ finalized' = finalized \cup {n}
  /\ UNCHANGED <<clock, file, holders>>

Next ==
  \/ \E n \in Peers, m \in Messages :
       Create(n, m) \/ Receive(n, m) \/ Relay(n, m) \/ Advised(n, m)
  \/ \E n \in Peers : Finalize(n)

Spec == Init /\ [][Next]_vars

-----------------------------------------------------------------------------
(* messageAccumulator; createdAt is 0 until a message_created is read.     *)
Empty ==
  [createdAt |-> 0, lastUniqueAt |-> 0, reached |-> {}, duplicates |-> 0,
   counts |-> [t \in Types |-> 0]]

(* Bug: message_created starts the set of reached peers afresh.            *)
ConsumeBug(acc, event) ==
  CASE event.type = "message_created" ->
         [acc EXCEPT !.createdAt = event.at, !.lastUniqueAt = event.at,
                     !.reached = {event.node}]
    [] event.type = "message_received" ->
         IF event.duplicate THEN [acc EXCEPT !.duplicates = @ + 1]
         ELSE [acc EXCEPT !.reached = @ \cup {event.node},
                          !.lastUniqueAt = IF event.at > @ THEN event.at ELSE @]
    [] OTHER -> [acc EXCEPT !.counts[event.type] = @ + 1]

(* The switch over the event types.                                        *)
Consume(acc, event) ==
  CASE event.type = "message_created" ->
         [acc EXCEPT !.createdAt = event.at, !.lastUniqueAt = event.at,
                     !.reached = @ \cup {event.node}]
    [] event.type = "message_received" ->
         IF event.duplicate THEN [acc EXCEPT !.duplicates = @ + 1]
         ELSE [acc EXCEPT !.reached = @ \cup {event.node},
                          !.lastUniqueAt = IF event.at > @ THEN event.at ELSE @]
    [] OTHER -> [acc EXCEPT !.counts[event.type] = @ + 1]

(* readEvents: the lines of a file, each into its message's accumulator.   *)
ReadEvents(m, acc, lines) ==
  LET after[i \in 0..Len(lines)] ==
        IF i = 0 THEN acc
        ELSE IF lines[i].msg = m THEN Consume(after[i - 1], lines[i])
        ELSE after[i - 1]
  IN  after[Len(lines)]

(* The accumulator of m after the last file, in name order.                *)
Accumulated(m) ==
  LET after[n \in 0..N] ==
        IF n = 0 THEN Empty ELSE ReadEvents(m, after[n - 1], file[n])
  IN  after[N]

(* What was recorded of m, as a set: stamps are different.                 *)
Recorded(m) == {e \in UNION {ToSet(file[n]) : n \in Peers} : e.msg = m}

(* The messages that get a row.                                            *)
Rows == {m \in Messages : Recorded(m) # {}}

(* Bug: a delay is reported for a message whose creation is unknown.       *)
CompletionDelayBug(m) ==
  LET acc == Accumulated(m) IN acc.lastUniqueAt - acc.createdAt

(* delayMS: 0 when the creation is unknown.                                *)
CompletionDelay(m) ==
  LET acc == Accumulated(m)
  IN  IF acc.createdAt > 0 /\ acc.lastUniqueAt >= acc.createdAt
        THEN acc.lastUniqueAt - acc.createdAt ELSE 0

-----------------------------------------------------------------------------
TypeOK ==
  /\ clock \in 0..MaxClock
  /\ \A n \in Peers : file[n] \in
       Seq([type : Types, msg : Messages, node : {n}, at : 1..MaxClock,
            duplicate : BOOLEAN])
  /\ holders \in [Messages -> SUBSET Peers]
  /\ finalized \in SUBSET Peers

(* The recorded events by which a peer was reached.                        *)
Arrivals(m) ==
  {e \in Recorded(m) : e.type \in {"message_created", "message_received"} /\ ~e.duplicate}

(* Reached nodes, duplicates and the counts of a row are those of the      *)
(* recorded events, in whatever order the files are read.                  *)
RowsAreExact ==
  \A m \in Rows :
    LET acc == Accumulated(m)
    IN  /\ acc.reached = {e.node : e \in Arrivals(m)}
        /\ acc.duplicates = Cardinality({e \in Recorded(m) : e.duplicate})
        /\ \A t \in Types \ {"message_created", "message_received"} :
             acc.counts[t] = Cardinality({e \in Recorded(m) : e.type = t})

(* Peers that were not finalized before a copy reached them are counted,   *)
(* and nobody else: a summary made after all peers are finalized can miss  *)
(* receivers, and never has too many.                                      *)
ReachedAreHolders ==
  \A m \in Messages :
    /\ Accumulated(m).reached \subseteq holders[m]
    /\ finalized = {} => Accumulated(m).reached = holders[m]

(* A reported completion delay is never longer than the time from the      *)
(* creation to the last recorded arrival, and is 0 without a creation.     *)
NeverOverstated ==
  \A m \in Rows :
    /\ CompletionDelay(m) >= 0
    /\ (\A e \in Recorded(m) : e.type # "message_created") => CompletionDelay(m) = 0
    /\ \A e \in Recorded(m) : e.type = "message_created" =>
         CompletionDelay(m) <= Max({a.at : a \in Arrivals(m)}) - e.at

(* messages.csv gives the completion delay of each message: the time from  *)
(* its creation to its last first reception.  It is not: message_created   *)
(* overwrites the arrivals read from files before the origin's.            *)
CompletionIsLastArrival ==
  \A m \in Rows : \A e \in Recorded(m) : e.type = "message_created" =>
    CompletionDelay(m) = Max({a.at : a \in Arrivals(m)}) - e.at

=============================================================================
