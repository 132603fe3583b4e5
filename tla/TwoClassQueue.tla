---------------------------- MODULE TwoClassQueue ----------------------------
(***************************************************************************)
(* What the forwarding code relies on when it hands a frame to a directed  *)
(* edge: two bounded FIFO queues, one for control frames and one for data  *)
(* frames; control goes first; while the edge is open the frame that is    *)
(* next in line is eventually taken.  There is no lock, no wake token and  *)
(* no sender goroutine here: EdgeQueue has them and implements this.       *)
(***************************************************************************)
EXTENDS Naturals, Sequences

CONSTANTS
  Frames,         (* the frames that may be handed to the edge             *)
  ControlFrames,  (* those of them that are IDONTWANT control frames       *)
  QueueCapacity   (* the bound of each of the two queues                   *)

VARIABLES
  waiting,        (* class -> frames handed over and not yet taken         *)
  served,         (* class -> frames taken, in order                       *)
  status          (* "open", or "done" once the peer's context is cancelled *)

qvars == <<waiting, served, status>>

Classes == {"control", "data"}

ClassOf(f) == IF f \in ControlFrames THEN "control" ELSE "data"

(* The class the next frame is taken from: control before data.            *)
NextClass ==
  IF waiting["control"] # << >> THEN "control" ELSE "data"

QInit ==
  /\ waiting = [c \in Classes |-> << >>]
  /\ served = [c \in Classes |-> << >>]
  /\ status = "open"

Put(f) ==
  /\ Len(waiting[ClassOf(f)]) < QueueCapacity
  /\ waiting' = [waiting EXCEPT ![ClassOf(f)] = Append(@, f)]
  /\ UNCHANGED <<served, status>>

Take ==
  /\ waiting[NextClass] # << >>
  /\ served' = [served EXCEPT ![NextClass] = Append(@, Head(waiting[NextClass]))]
  /\ waiting' = [waiting EXCEPT ![NextClass] = Tail(@)]
  /\ UNCHANGED status

Shut ==
  /\ status = "open"
  /\ status' = "done"
  /\ UNCHANGED <<waiting, served>>

QNext == (\E f \in Frames : Put(f)) \/ Take \/ Shut

(* A shut edge may still drain what it holds, but it owes nothing.         *)
QSpec == QInit /\ [][QNext]_qvars /\ WF_qvars(status = "open" /\ Take)

=============================================================================
