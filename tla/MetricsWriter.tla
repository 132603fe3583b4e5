---------------------------- MODULE MetricsWriter ----------------------------
(***************************************************************************)
(* How a peer's events reach its result file (internal/metrics/writer.go,  *)
(* and record, Finalize and handleResults of internal/p2p/peer.go).        *)
(*                                                                         *)
(*   producer   any goroutine of the peer that calls Peer.record           *)
(*   run        Writer.run, which encodes and flushes                      *)
(*   finalizer  a caller of Peer.Finalize: POST /v1/finalize, Peer.Close   *)
(*                                                                         *)
(* The mutex is Go's RWMutex: Lock, once called, keeps new RLocks out and  *)
(* waits for the readers inside.  Write sends on the bounded channel with  *)
(* the read lock held.  finalizeOnce lets one finalizer run Close; so the  *)
(* branch of Close for a second call never runs, and is left out.  The     *)
(* file holds whole events here; a torn last line is not modelled.         *)
(*                                                                         *)
(* A definition whose name ends in Bug is no part of Spec: it is the wrong *)
(* variant of the definition after it that some property must catch.       *)
(***************************************************************************)
EXTENDS Naturals, Sequences

CONSTANTS
  Producers,
  Finalizers,
  MaxEvents,      (* bound: events a producer records                      *)
  QueueCapacity,  (* capacity of the events channel, at least 1            *)
  DiskFaults,     (* may an encode, a flush or the final close fail?       *)
  NoAnswer

ASSUME WriterAssumption ==
  /\ MaxEvents \in Nat
  /\ QueueCapacity \in Nat \ {0}
  /\ DiskFaults \in BOOLEAN
  /\ NoAnswer \notin Seq(Producers \X (1..MaxEvents))

VARIABLES
  finalized,   (* Peer.finalized: "no", "yes"                              *)
  once,        (* finalizeOnce: "new", "running", "done"                   *)
  closed,      (* Writer.closed: "no", "yes"                               *)
  producer,    (* producer -> "idle", "recording", "sending"               *)
  recorded,    (* producer -> how many events it has come to record        *)
  finalizer,   (* finalizer -> where it stands                             *)
  events,      (* the channel                                              *)
  buffer,      (* encoded, not yet flushed                                 *)
  file,        (* on disk                                                  *)
  err,         (* Writer.err: "nil", "failed"                              *)
  done,        (* the done channel: "open", "closed"                       *)
  accepted,    (* history: events for which Write returned nil, in order   *)
  served,      (* history: what the last GET /v1/results answered          *)
  servedLate   (* history: did it come after Finalize had reported success? *)

vars == <<finalized, once, closed, producer, recorded, finalizer, events,
          buffer, file, err, done, accepted, served, servedLate>>

Events == Producers \X (1..MaxEvents)
FinalizerStates ==
  {"idle", "storing", "locking", "awaiting", "waiting", "returned"}

Init ==
  /\ finalized = "no"
  /\ once = "new"
  /\ closed = "no"
  /\ producer = [p \in Producers |-> "idle"]
  /\ recorded = [p \in Producers |-> 0]
  /\ finalizer = [c \in Finalizers |-> "idle"]
  /\ events = << >>
  /\ buffer = << >>
  /\ file = << >>
  /\ err = "nil"
  /\ done = "open"
  /\ accepted = << >>
  /\ served = NoAnswer
  /\ servedLate = "no"

-----------------------------------------------------------------------------
(* Peer.record and Writer.Write.                                           *)

(* record looks at finalized: too late, or on to Write.                    *)
Record(p) ==
  /\ producer[p] = "idle"
  /\ recorded[p] < MaxEvents
  /\ recorded' = [recorded EXCEPT ![p] = @ + 1]
  /\ producer' = [producer EXCEPT ![p] =
       IF finalized = "yes" THEN "idle" ELSE "recording"]
  /\ UNCHANGED <<finalized, once, closed, finalizer, events, buffer, file, err,
                 done, accepted, served, servedLate>>

(* RLock, while no Lock is pending; a closed writer refuses the event.     *)
EnterWrite(p) ==
  /\ producer[p] = "recording"
  /\ \A c \in Finalizers : finalizer[c] # "locking"
  /\ producer' = [producer EXCEPT ![p] =
       IF closed = "yes" THEN "idle" ELSE "sending"]
  /\ UNCHANGED <<finalized, once, closed, recorded, finalizer, events, buffer,
                 file, err, done, accepted, served, servedLate>>

(* The channel has room for the event; RUnlock.                            *)
Send(p) ==
  /\ producer[p] = "sending"
  /\ Len(events) < QueueCapacity
  /\ producer' = [producer EXCEPT ![p] = "idle"]
  /\ events' = Append(events, <<p, recorded[p]>>)
  /\ accepted' = Append(accepted, <<p, recorded[p]>>)
  /\ UNCHANGED <<finalized, once, closed, recorded, finalizer, buffer, file, err,
                 done, served, servedLate>>

-----------------------------------------------------------------------------
(* Writer.run.                                                             *)

(* Bug: a failed flush drops what it could not write and goes on.          *)
WriteOutBug ==
  \/ /\ file' = file \o buffer
     /\ buffer' = << >>
     /\ UNCHANGED err
  \/ \E n \in 0..Len(buffer) :
       /\ DiskFaults
       /\ file' = file \o SubSeq(buffer, 1, n)
       /\ buffer' = << >>
       /\ UNCHANGED err

(* The bytes of the buffer go to the file, or a part of them and an error. *)
WriteOut ==
  \/ /\ file' = file \o buffer
     /\ buffer' = << >>
     /\ UNCHANGED err
  \/ \E n \in 0..Len(buffer) :
       /\ DiskFaults
       /\ file' = file \o SubSeq(buffer, 1, n)
       /\ err' = "failed"
       /\ UNCHANGED buffer

(* Bug: run gives up at the first error.                                   *)
EncodeBug ==
  /\ done = "open"
  /\ events # << >>
  /\ err = "nil"
  /\ events' = Tail(events)
  /\ \/ buffer' = Append(buffer, Head(events)) /\ UNCHANGED <<file, err>>
     \/ DiskFaults /\ err' = "failed" /\ UNCHANGED <<file, buffer>>
  /\ UNCHANGED <<finalized, once, closed, producer, recorded, finalizer, done,
                 accepted, served, servedLate>>

(* An event is received.  A full buffer is written out to make room.  Once *)
(* there is an error, events are received and thrown away.                 *)
Encode ==
  /\ done = "open"
  /\ events # << >>
  /\ events' = Tail(events)
  /\ \/ /\ err = "nil"
        /\ buffer' = Append(buffer, Head(events))
        /\ UNCHANGED <<file, err>>
     \/ /\ err = "nil"
        /\ file' = file \o buffer
        /\ buffer' = <<Head(events)>>
        /\ UNCHANGED err
     \/ /\ err = "nil"
        /\ DiskFaults
        /\ \E n \in 0..Len(buffer) : file' = file \o SubSeq(buffer, 1, n)
        /\ err' = "failed"
        /\ UNCHANGED buffer
     \/ /\ err = "failed"
        /\ UNCHANGED <<buffer, file, err>>
  /\ UNCHANGED <<finalized, once, closed, producer, recorded, finalizer, done,
                 accepted, served, servedLate>>

(* The ticker fires.                                                       *)
Tick ==
  /\ done = "open"
  /\ err = "nil"
  /\ WriteOut
  /\ UNCHANGED <<finalized, once, closed, producer, recorded, finalizer, events,
                 done, accepted, served, servedLate>>

(* Bug: the file is closed without the last flush.                         *)
FinishBug ==
  /\ done = "open"
  /\ closed = "yes"
  /\ events = << >>
  /\ done' = "closed"
  /\ UNCHANGED <<finalized, once, closed, producer, recorded, finalizer, events,
                 buffer, file, err, accepted, served, servedLate>>

(* The channel is closed and drained: finish, then done.                   *)
Finish ==
  /\ done = "open"
  /\ closed = "yes"
  /\ events = << >>
  /\ \/ err = "nil" /\ WriteOut
     \/ err = "failed" /\ UNCHANGED <<buffer, file, err>>
  /\ done' = "closed"
  /\ UNCHANGED <<finalized, once, closed, producer, recorded, finalizer, events,
                 accepted, served, servedLate>>

-----------------------------------------------------------------------------
(* Peer.Finalize.                                                          *)

(* finalizeOnce.Do: the first caller runs the body, the others wait.       *)
CallFinalize(c) ==
  /\ finalizer[c] = "idle"
  /\ \/ /\ once = "new"
        /\ once' = "running"
        /\ finalizer' = [finalizer EXCEPT ![c] = "storing"]
     \/ /\ once # "new"
        /\ finalizer' = [finalizer EXCEPT ![c] = "waiting"]
        /\ UNCHANGED once
  /\ UNCHANGED <<finalized, closed, producer, recorded, events, buffer, file, err,
                 done, accepted, served, servedLate>>

(* finalized.Store(true), then Close calls Lock.                           *)
StoreFinalized(c) ==
  /\ finalizer[c] = "storing"
  /\ finalized = "no"
  /\ finalized' = "yes"
  /\ UNCHANGED <<once, closed, producer, recorded, finalizer, events, buffer, file,
                 err, done, accepted, served, servedLate>>

RequestLock(c) ==
  /\ finalizer[c] = "storing"
  /\ finalized = "yes"
  /\ finalizer' = [finalizer EXCEPT ![c] = "locking"]
  /\ UNCHANGED <<finalized, once, closed, producer, recorded, events, buffer, file,
                 err, done, accepted, served, servedLate>>

(* Bug: Close does not wait for the writes in progress.                    *)
CloseEventsBug(c) ==
  /\ finalizer[c] = "locking"
  /\ finalizer' = [finalizer EXCEPT ![c] = "awaiting"]
  /\ closed' = "yes"
  /\ UNCHANGED <<finalized, once, producer, recorded, events, buffer, file, err,
                 done, accepted, served, servedLate>>

(* Close has the lock: closed is set and the channel closed; Unlock.       *)
CloseEvents(c) ==
  /\ finalizer[c] = "locking"
  /\ \A p \in Producers : producer[p] # "sending"
  /\ finalizer' = [finalizer EXCEPT ![c] = "awaiting"]
  /\ closed' = "yes"
  /\ UNCHANGED <<finalized, once, producer, recorded, events, buffer, file, err,
                 done, accepted, served, servedLate>>

(* Bug: only the first caller waits for the writer.                        *)
FinalizeReturnsBug(c) ==
  /\ \/ finalizer[c] = "awaiting" /\ done = "closed" /\ once' = "done"
     \/ finalizer[c] = "waiting" /\ UNCHANGED once
  /\ finalizer' = [finalizer EXCEPT ![c] = "returned"]
  /\ UNCHANGED <<finalized, closed, producer, recorded, events, buffer, file, err,
                 done, accepted, served, servedLate>>

(* Close receives from done; Do returns in the first caller, which lets    *)
(* the others go.                                                          *)
FinalizeReturns(c) ==
  /\ \/ finalizer[c] = "awaiting" /\ done = "closed" /\ once' = "done"
     \/ finalizer[c] = "waiting" /\ once = "done" /\ UNCHANGED once
  /\ finalizer' = [finalizer EXCEPT ![c] = "returned"]
  /\ UNCHANGED <<finalized, closed, producer, recorded, events, buffer, file, err,
                 done, accepted, served, servedLate>>

(* GET /v1/results with status 200: the file as it is.                     *)
HandleResults ==
  /\ finalized = "yes"
  /\ served' = file
  /\ servedLate' =
       IF err = "nil" /\ \E c \in Finalizers : finalizer[c] = "returned"
         THEN "yes" ELSE "no"
  /\ UNCHANGED <<finalized, once, closed, producer, recorded, finalizer, events,
                 buffer, file, err, done, accepted>>

-----------------------------------------------------------------------------
Produce(p) == Record(p) \/ EnterWrite(p) \/ Send(p)
Finalize(c) ==
  CallFinalize(c) \/ StoreFinalized(c) \/ RequestLock(c) \/ CloseEvents(c)
    \/ FinalizeReturns(c)

Next ==
  \/ \E p \in Producers : Produce(p)
  \/ Encode \/ Tick \/ Finish
  \/ \E c \in Finalizers : Finalize(c)
  \/ HandleResults

(* Goroutines that can step do; select takes each ready case sooner or     *)
(* later.  Nobody has to call Finalize or to record an event.              *)
Fairness ==
  /\ \A p \in Producers : WF_vars(EnterWrite(p)) /\ WF_vars(Send(p))
  /\ WF_vars(Encode) /\ WF_vars(Finish)
  /\ \A c \in Finalizers : WF_vars(finalizer[c] # "idle" /\ Finalize(c))

Spec == Init /\ [][Next]_vars /\ Fairness

-----------------------------------------------------------------------------
TypeOK ==
  /\ finalized \in {"no", "yes"}
  /\ once \in {"new", "running", "done"}
  /\ closed \in {"no", "yes"}
  /\ producer \in [Producers -> {"idle", "recording", "sending"}]
  /\ recorded \in [Producers -> 0..MaxEvents]
  /\ \A p \in Producers : producer[p] # "idle" => recorded[p] > 0
  /\ finalizer \in [Finalizers -> FinalizerStates]
  /\ once = "new" <=> \A c \in Finalizers : finalizer[c] = "idle"
  /\ events \in Seq(Events)
  /\ buffer \in Seq(Events)
  /\ file \in Seq(Events)
  /\ err \in {"nil", "failed"}
  /\ done \in {"open", "closed"}
  /\ accepted \in Seq(Events)
  /\ served \in Seq(Events) \cup {NoAnswer}
  /\ servedLate \in {"no", "yes"}

(* Nobody sends on the closed channel, which would panic: Close waits for  *)
(* the writes that hold the read lock, and later writes see closed.        *)
NeverSendsOnClosed == closed = "yes" => \A p \in Producers : producer[p] # "sending"

(* The pipeline keeps every accepted event once and in the order of        *)
(* acceptance ("preserving event order within a peer"), and when run is    *)
(* done without error all of them are in the file: none is stranded in the *)
(* channel or in the buffer by a Close that races with writes.             *)
NothingLost ==
  err = "nil" => /\ accepted = file \o buffer \o events
                 /\ done = "closed" => accepted = file

(* Even after a disk error the file is a beginning of what was accepted:   *)
(* it has no holes, only a missing end.                                    *)
NoHoles ==
  \E n \in 0..Len(accepted) : file = SubSeq(accepted, 1, n)

(* Once some caller of Finalize has returned without error, the results    *)
(* served are all that Write ever accepted, and nothing is accepted later. *)
ResultsAreComplete == servedLate = "yes" => served = accepted

(* "results are not finalized" is what handleResults answers otherwise: so *)
(* whatever it serves is final.  It is not: finalized is stored before the *)
(* writer is closed, and the file may grow after it was served.            *)
OnlyFinalResults == served # NoAnswer => served = file

(* A caller of Finalize returns, and so does one of Write, even when the   *)
(* disk has failed, the channel is full and Close waits for its lock.      *)
EveryCallEnds ==
  /\ \A c \in Finalizers : finalizer[c] # "idle" ~> finalizer[c] = "returned"
  /\ \A p \in Producers : producer[p] # "idle" ~> producer[p] = "idle"

=============================================================================
