------------------------------ MODULE EdgeQueue ------------------------------
(***************************************************************************)
(* The outbound side of one directed edge (edgeSender of                   *)
(* internal/p2p/peer.go): two slices behind queueMu, a wake channel of     *)
(* capacity one, any number of goroutines that enqueue, and the one        *)
(* goroutine that runs edgeSender.run.                                     *)
(*                                                                         *)
(* enqueue releases queueMu BEFORE it posts the wake token, so an          *)
(* enqueuer has two steps, and the sender may look at the queues, find     *)
(* them empty and park between any two steps of anybody.  What send does   *)
(* with a frame is in module Flooding; here it is one step that ends.      *)
(*                                                                         *)
(* A definition whose name ends in Bug is no part of Spec: it is the wrong *)
(* variant of the definition after it that some property must catch.       *)
(***************************************************************************)
EXTENDS Naturals, Sequences

CONSTANTS
  Enqueuers,      (* workers, stream handlers and injectors of the peer    *)
  Frames,         (* frames to send: each is handed over at most once      *)
  ControlFrames,  (* the IDONTWANT frames among them                       *)
  QueueCapacity   (* neighbor.Network.QueueCapacity                        *)

ASSUME EdgeQueueAssumption ==
  /\ QueueCapacity \in Nat
  /\ ControlFrames \subseteq Frames

VARIABLES
  queue,      (* "control" -> controlQueue, "data" -> dataQueue            *)
  wake,       (* how many tokens the wake channel (capacity 1) holds       *)
  enqueuer,   (* "idle", or "signal": appended, token not yet posted       *)
  sender,     (* where edgeSender.run stands                               *)
  ctx,        (* the context run was given: "open" or "done"             *)
  offered,    (* history: frames passed to enqueue                         *)
  taken       (* history: class -> frames dequeued, in order               *)

vars == <<queue, wake, enqueuer, sender, ctx, offered, taken>>

Classes == {"control", "data"}

(* enqueue's control flag.                                                 *)
ClassOf(f) == IF f \in ControlFrames THEN "control" ELSE "data"

SenderStates == {"polling", "sending", "parked", "stopped"}

-----------------------------------------------------------------------------
Init ==
  /\ queue = [c \in Classes |-> << >>]
  /\ wake = 0
  /\ enqueuer = [p \in Enqueuers |-> "idle"]
  /\ sender = "polling"
  /\ ctx = "open"
  /\ offered = {}
  /\ taken = [c \in Classes |-> << >>]

(* The bound enqueue checks under queueMu.                                 *)
Full(c) == Len(queue[c]) >= QueueCapacity

(* enqueue up to queueMu.Unlock: reject at the bound, else append.         *)
Enqueue(p, f) ==
  /\ enqueuer[p] = "idle"
  /\ f \notin offered
  /\ offered' = offered \cup {f}
  /\ \/ /\ Full(ClassOf(f))
        /\ UNCHANGED <<queue, enqueuer>>
     \/ /\ ~Full(ClassOf(f))
        /\ queue' = [queue EXCEPT ![ClassOf(f)] = Append(@, f)]
        /\ enqueuer' = [enqueuer EXCEPT ![p] = "signal"]
  /\ UNCHANGED <<wake, sender, ctx, taken>>

(* Bug: an unbuffered wake channel: the token is gone if run is not yet    *)
(* in its select.                                                          *)
SignalLostBug(p) ==
  /\ enqueuer[p] = "signal"
  /\ wake' \in {wake, 1}
  /\ enqueuer' = [enqueuer EXCEPT ![p] = "idle"]
  /\ UNCHANGED <<queue, sender, ctx, offered, taken>>

(* The select on wake with an empty default: a token already there stays.  *)
Signal(p) ==
  /\ enqueuer[p] = "signal"
  /\ wake' = 1
  /\ enqueuer' = [enqueuer EXCEPT ![p] = "idle"]
  /\ UNCHANGED <<queue, sender, ctx, offered, taken>>

(* Bug: data before control.                                               *)
NextClassBug == IF queue["data"] # << >> THEN "data" ELSE "control"

(* dequeue looks at controlQueue first.                                    *)
NextClass == IF queue["control"] # << >> THEN "control" ELSE "data"

(* Bug: the frame stays at the head of its queue.                          *)
DequeueBug ==
  /\ sender = "polling"
  /\ queue[NextClass] # << >>
  /\ taken' = [taken EXCEPT ![NextClass] = Append(@, Head(queue[NextClass]))]
  /\ sender' = "sending"
  /\ UNCHANGED <<queue, wake, enqueuer, ctx, offered>>

(* run's dequeue that returns a frame; send is then called with it.        *)
Dequeue ==
  /\ sender = "polling"
  /\ queue[NextClass] # << >>
  /\ queue' = [queue EXCEPT ![NextClass] = Tail(@)]
  /\ taken' = [taken EXCEPT ![NextClass] = Append(@, Head(queue[NextClass]))]
  /\ sender' = "sending"
  /\ UNCHANGED <<wake, enqueuer, ctx, offered>>

(* send returns, whatever became of the frame.                             *)
SendReturns ==
  /\ sender = "sending"
  /\ sender' = "polling"
  /\ UNCHANGED <<queue, wake, enqueuer, ctx, offered, taken>>

(* run's dequeue that finds both queues empty: on to the select.           *)
Park ==
  /\ sender = "polling"
  /\ queue[NextClass] = << >>
  /\ sender' = "parked"
  /\ UNCHANGED <<queue, wake, enqueuer, ctx, offered, taken>>

(* The select's wake case.                                                 *)
WakeUp ==
  /\ sender = "parked"
  /\ wake = 1
  /\ wake' = 0
  /\ sender' = "polling"
  /\ UNCHANGED <<queue, enqueuer, ctx, offered, taken>>

(* The select's ctx.Done case.                                             *)
Stop ==
  /\ sender = "parked"
  /\ ctx = "done"
  /\ sender' = "stopped"
  /\ UNCHANGED <<queue, wake, enqueuer, ctx, offered, taken>>

(* Peer.Close, or the control server failing: p.cancel().                  *)
Cancel ==
  /\ ctx = "open"
  /\ ctx' = "done"
  /\ UNCHANGED <<queue, wake, enqueuer, sender, offered, taken>>

Run == Dequeue \/ SendReturns \/ Park \/ WakeUp \/ Stop

Next ==
  \/ \E p \in Enqueuers, f \in Frames : Enqueue(p, f)
  \/ \E p \in Enqueuers : Signal(p)
  \/ Run
  \/ Cancel

(* A goroutine that can run does run.  The two cases of the select are     *)
(* each taken only when ready; Go promises no fairness between them.       *)
Fairness ==
  /\ \A p \in Enqueuers : WF_vars(Signal(p))
  /\ WF_vars(Run)

Spec == Init /\ [][Next]_vars /\ Fairness

-----------------------------------------------------------------------------
TypeOK ==
  /\ queue \in [Classes -> Seq(Frames)]
  /\ wake \in 0..1
  /\ enqueuer \in [Enqueuers -> {"idle", "signal"}]
  /\ sender \in SenderStates
  /\ ctx \in {"open", "done"}
  /\ offered \in SUBSET Frames
  /\ taken \in [Classes -> Seq(Frames)]

(* A parked sender with frames waiting is about to be woken: the token is  *)
(* in the channel, or an enqueuer that has appended has yet to post it.    *)
(* This is what makes the unlock-then-signal order of enqueue safe.        *)
NoLostWakeup ==
  sender = "parked" /\ queue[NextClass] # << >>
    => wake = 1 \/ \E p \in Enqueuers : enqueuer[p] = "signal"

(* "queue_capacity remains a strict per-edge bound", whichever goroutines  *)
(* enqueue at the same time: it bounds each of the two queues.             *)
StrictBound == \A c \in Classes : Len(queue[c]) <= QueueCapacity

(* All that was accepted for a class, in order.                            *)
Line(c) == taken[c] \o queue[c]

(* A frame is neither copied nor taken a second time: those dequeued and   *)
(* those waiting are all different, and all were handed over.              *)
NoFrameTwice ==
  \A c \in Classes : \A i, j \in DOMAIN Line(c) :
    /\ Line(c)[i] \in offered
    /\ Line(c)[i] = Line(c)[j] => i = j

(* The edge implements the two-class queue, its fairness included.         *)
Edge == INSTANCE TwoClassQueue WITH
          waiting <- queue, served <- taken, status <- ctx

EdgeImplementsQueue == Edge!QSpec

=============================================================================
