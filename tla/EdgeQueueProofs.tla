--------------------------- MODULE EdgeQueueProofs ---------------------------
(***************************************************************************)
(* What EdgeQueue guarantees for any number of enqueuers, any frames and   *)
(* any capacity.                                                           *)
(***************************************************************************)
EXTENDS EdgeQueue, SequenceTheorems, TLAPS

(* Every variable keeps its type.                                          *)
LEMMA TypeCorrect == Spec => []TypeOK
<1> USE EdgeQueueAssumption DEF TypeOK, Classes, SenderStates
<1>1. Init => TypeOK
  BY DEF Init
<1>2. TypeOK /\ [Next]_vars => TypeOK'
  <2> SUFFICES ASSUME TypeOK, [Next]_vars PROVE TypeOK'
    OBVIOUS
  <2>c. \A f : ClassOf(f) \in Classes
    BY DEF ClassOf
  <2>n. NextClass \in Classes
    BY DEF NextClass
  <2>1. ASSUME NEW p \in Enqueuers, NEW f \in Frames, Enqueue(p, f)
        PROVE  TypeOK'
    <3>1. /\ ClassOf(f) \in Classes
          /\ queue[ClassOf(f)] \in Seq(Frames)
      BY <2>c
    <3>2. Append(queue[ClassOf(f)], f) \in Seq(Frames)
      BY <3>1
    <3> QED BY <2>1, <3>1, <3>2 DEF Enqueue, Full
  <2>2. ASSUME NEW p \in Enqueuers, Signal(p)
        PROVE  TypeOK'
    BY <2>2 DEF Signal
  <2>3. CASE Dequeue
    <3>1. /\ queue[NextClass] \in Seq(Frames)
          /\ queue[NextClass] # << >>
          /\ taken[NextClass] \in Seq(Frames)
      BY <2>3, <2>n DEF Dequeue
    <3>2. /\ Head(queue[NextClass]) \in Frames
          /\ Tail(queue[NextClass]) \in Seq(Frames)
      BY <3>1
    <3>3. Append(taken[NextClass], Head(queue[NextClass])) \in Seq(Frames)
      BY <3>1, <3>2
    <3> QED BY <2>3, <2>n, <3>2, <3>3 DEF Dequeue
  <2>4. CASE SendReturns
    BY <2>4 DEF SendReturns
  <2>5. CASE Park
    BY <2>5 DEF Park
  <2>6. CASE WakeUp
    BY <2>6 DEF WakeUp
  <2>7. CASE Stop
    BY <2>7 DEF Stop
  <2>8. CASE Cancel
    BY <2>8 DEF Cancel
  <2>9. CASE UNCHANGED vars
    BY <2>9 DEF vars
  <2> QED BY <2>1, <2>2, <2>3, <2>4, <2>5, <2>6, <2>7, <2>8, <2>9 DEF Next, Run
<1> QED BY <1>1, <1>2, PTL DEF Spec

-----------------------------------------------------------------------------
(* However appends, posts, look-ups and parking interleave, a parked       *)
(* sender with frames waiting has its wake token in the channel or under   *)
(* way: run cannot sleep through an enqueue.                               *)
THEOREM WakeupsAreNotLost == Spec => []NoLostWakeup
<1>1. Init => NoLostWakeup
  BY DEF Init, NoLostWakeup
<1>2. TypeOK /\ NoLostWakeup /\ [Next]_vars => NoLostWakeup'
  <2> SUFFICES ASSUME TypeOK, NoLostWakeup, [Next]_vars PROVE NoLostWakeup'
    OBVIOUS
  <2> USE DEF NoLostWakeup
  <2>1. ASSUME NEW p \in Enqueuers, NEW f \in Frames, Enqueue(p, f)
        PROVE  NoLostWakeup'
    <3>1. CASE UNCHANGED <<queue, enqueuer>>
      BY <2>1, <3>1 DEF Enqueue, Full, NextClass
    <3>2. CASE enqueuer' = [enqueuer EXCEPT ![p] = "signal"]
      BY <3>2 DEF TypeOK
    <3> QED BY <2>1, <3>1, <3>2 DEF Enqueue, Full
  <2>2. ASSUME NEW p \in Enqueuers, Signal(p)
        PROVE  NoLostWakeup'
    BY <2>2 DEF Signal
  <2>3. CASE Dequeue \/ SendReturns \/ WakeUp \/ Stop
    BY <2>3 DEF Dequeue, SendReturns, WakeUp, Stop
  <2>4. CASE Park
    BY <2>4 DEF Park, NextClass
  <2>5. CASE Cancel \/ UNCHANGED vars
    BY <2>5 DEF Cancel, vars, NextClass
  <2> QED BY <2>1, <2>2, <2>3, <2>4, <2>5 DEF Next, Run
<1> QED BY <1>1, <1>2, TypeCorrect, PTL DEF Spec

(* No interleaving of enqueuers takes a queue past queue_capacity.         *)
THEOREM BoundIsStrict == Spec => []StrictBound
<1>1. Init => StrictBound
  BY EdgeQueueAssumption DEF Init, StrictBound, Classes
<1>2. TypeOK /\ StrictBound /\ [Next]_vars => StrictBound'
  <2> SUFFICES ASSUME TypeOK, StrictBound, [Next]_vars, NEW c \in Classes
               PROVE  Len(queue[c])' <= QueueCapacity
    BY DEF StrictBound
  <2>q. /\ queue[c] \in Seq(Frames)
        /\ Len(queue[c]) \in Nat
        /\ Len(queue[c]) <= QueueCapacity
    BY DEF TypeOK, StrictBound
  <2>1. ASSUME NEW p \in Enqueuers, NEW f \in Frames, Enqueue(p, f)
        PROVE  Len(queue[c])' <= QueueCapacity
    <3>1. CASE UNCHANGED queue
      BY <2>q, <3>1
    <3>2. CASE /\ ~Full(ClassOf(f))
               /\ queue' = [queue EXCEPT ![ClassOf(f)] = Append(@, f)]
      <4>1. queue[c]' = IF c = ClassOf(f) THEN Append(queue[c], f) ELSE queue[c]
        BY <3>2 DEF TypeOK
      <4>2. Len(Append(queue[c], f)) = Len(queue[c]) + 1
        BY <2>q
      <4> QED BY <2>q, <3>2, <4>1, <4>2, EdgeQueueAssumption DEF Full
    <3> QED BY <2>1, <3>1, <3>2 DEF Enqueue
  <2>2. CASE Dequeue
    <3>1. queue[c]' = IF c = NextClass THEN Tail(queue[c]) ELSE queue[c]
      BY <2>2 DEF Dequeue, TypeOK
    <3>2. c = NextClass => Len(Tail(queue[c])) = Len(queue[c]) - 1
      BY <2>2, <2>q DEF Dequeue
    <3> QED BY <2>q, <3>1, <3>2, EdgeQueueAssumption
  <2>3. CASE UNCHANGED queue
    BY <2>3, <2>q
  <2> QED
    BY <2>1, <2>2, <2>3
       DEF Next, Run, Signal, SendReturns, Park, WakeUp, Stop, Cancel, vars
<1> QED BY <1>1, <1>2, TypeCorrect, PTL DEF Spec

-----------------------------------------------------------------------------
(* Taking the head of q to the end of s leaves what they hold together.    *)
LEMMA MoveHead ==
  ASSUME NEW S, NEW s \in Seq(S), NEW q \in Seq(S), q # << >>
  PROVE  Append(s, Head(q)) \o Tail(q) = s \o q
<1>1. /\ Append(s, Head(q)) \in Seq(S)
      /\ Tail(q) \in Seq(S)
      /\ Len(Append(s, Head(q))) = Len(s) + 1
      /\ Len(Tail(q)) = Len(q) - 1
      /\ \A i \in 1..Len(s) : Append(s, Head(q))[i] = s[i]
      /\ Append(s, Head(q))[Len(s) + 1] = q[1]
      /\ \A i \in 1..(Len(q) - 1) : Tail(q)[i] = q[i + 1]
  OBVIOUS
<1>2. /\ Append(s, Head(q)) \o Tail(q) \in Seq(S)
      /\ s \o q \in Seq(S)
      /\ Len(Append(s, Head(q)) \o Tail(q)) = Len(s) + Len(q)
      /\ Len(s \o q) = Len(s) + Len(q)
  BY <1>1
<1>3. ASSUME NEW i \in 1..(Len(s) + Len(q))
      PROVE  (Append(s, Head(q)) \o Tail(q))[i] = (s \o q)[i]
  BY <1>1
<1> QED BY <1>2, <1>3, SeqEqual

(* Appending to q appends to what s and q hold together.                   *)
LEMMA AppendToLine ==
  ASSUME NEW s \in Seq(Frames), NEW q \in Seq(Frames), NEW f \in Frames
  PROVE  s \o Append(q, f) = Append(s \o q, f)
<1>1. /\ s \o Append(q, f) \in Seq(Frames)
      /\ Append(s \o q, f) \in Seq(Frames)
      /\ Len(s \o Append(q, f)) = Len(s) + Len(q) + 1
      /\ Len(Append(s \o q, f)) = Len(s) + Len(q) + 1
  OBVIOUS
<1>2. ASSUME NEW i \in 1..(Len(s) + Len(q) + 1)
      PROVE  (s \o Append(q, f))[i] = Append(s \o q, f)[i]
  OBVIOUS
<1> QED BY <1>1, <1>2, SeqEqual

(* No frame is taken twice, nor taken and still waiting.                   *)
THEOREM FramesAreNotRepeated == Spec => []NoFrameTwice
<1>1. Init => NoFrameTwice
  BY DEF Init, NoFrameTwice, Line
<1>2. TypeOK /\ NoFrameTwice /\ [Next]_vars => NoFrameTwice'
  <2> SUFFICES ASSUME TypeOK, NoFrameTwice, [Next]_vars, NEW c \in Classes
               PROVE  \A i, j \in DOMAIN Line(c)' :
                        /\ Line(c)'[i] \in offered'
                        /\ Line(c)'[i] = Line(c)'[j] => i = j
    BY DEF NoFrameTwice
  <2>t. queue[c] \in Seq(Frames) /\ taken[c] \in Seq(Frames)
    BY DEF TypeOK
  <2>l. Line(c) \in Seq(Frames)
    BY <2>t DEF Line
  <2>k. /\ \A i \in DOMAIN Line(c) : Line(c)[i] \in offered
        /\ \A i, j \in DOMAIN Line(c) : Line(c)[i] = Line(c)[j] => i = j
    BY DEF NoFrameTwice
  <2>1. CASE Line(c)' = Line(c) /\ offered \subseteq offered'
    BY <2>1, <2>k
  <2>2. ASSUME NEW p \in Enqueuers, NEW f \in Frames, Enqueue(p, f)
        PROVE  \/ Line(c)' = Line(c)
               \/ Line(c)' = Append(Line(c), f)
    <3>1. taken' = taken /\ (queue[c]' = queue[c] \/ queue[c]' = Append(queue[c], f))
      BY <2>2 DEF Enqueue, Full, TypeOK
    <3>2. taken[c] \o Append(queue[c], f) = Append(taken[c] \o queue[c], f)
      BY <2>t, AppendToLine
    <3> QED BY <3>1, <3>2 DEF Line
  <2>3. ASSUME NEW p \in Enqueuers, NEW f \in Frames, Enqueue(p, f),
               Line(c)' = Append(Line(c), f)
        PROVE  \A i, j \in DOMAIN Line(c)' :
                 /\ Line(c)'[i] \in offered'
                 /\ Line(c)'[i] = Line(c)'[j] => i = j
    <3>1. f \notin offered /\ offered' = offered \cup {f}
      BY <2>3 DEF Enqueue, Full
    <3>2. /\ DOMAIN Line(c) = 1..Len(Line(c))
          /\ DOMAIN Line(c)' = 1..(Len(Line(c)) + 1)
          /\ Len(Line(c)) \in Nat
          /\ \A i \in 1..Len(Line(c)) : Line(c)'[i] = Line(c)[i]
          /\ Line(c)'[Len(Line(c)) + 1] = f
      BY <2>l, <2>3
    <3> QED BY <3>1, <3>2, <2>k
  <2>4. ASSUME Dequeue
        PROVE  Line(c)' = Line(c)
    <3>1. CASE c = NextClass
      <4>1. /\ queue[c] # << >>
            /\ queue[c]' = Tail(queue[c])
            /\ taken[c]' = Append(taken[c], Head(queue[c]))
        BY <2>4, <3>1 DEF Dequeue, TypeOK
      <4> QED BY <4>1, <2>t, MoveHead DEF Line
    <3>2. CASE c # NextClass
      BY <2>4, <3>2 DEF Dequeue, TypeOK, Line
    <3> QED BY <3>1, <3>2
  <2>5. CASE Dequeue
    BY <2>1, <2>4, <2>5 DEF Dequeue
  <2>6. CASE UNCHANGED <<queue, taken, offered>>
    BY <2>1, <2>6 DEF Line
  <2>7. ASSUME NEW p \in Enqueuers, NEW f \in Frames, Enqueue(p, f)
        PROVE  \A i, j \in DOMAIN Line(c)' :
                 /\ Line(c)'[i] \in offered'
                 /\ Line(c)'[i] = Line(c)'[j] => i = j
    BY <2>1, <2>2, <2>3, <2>7 DEF Enqueue, Full
  <2> QED
    BY <2>5, <2>6, <2>7
       DEF Next, Run, Signal, SendReturns, Park, WakeUp, Stop, Cancel, vars
<1> QED BY <1>1, <1>2, TypeCorrect, PTL DEF Spec

-----------------------------------------------------------------------------
(* Safety half of the refinement: a step of the edge is a step of the      *)
(* two-class queue or none.                                                *)
THEOREM ImplementsQueueSafely == Spec => Edge!QInit /\ [][Edge!QNext]_(Edge!qvars)
<1>1. Init => Edge!QInit
  BY DEF Init, Edge!QInit, Classes, Edge!Classes
<1>2. [Next]_vars => [Edge!QNext]_(Edge!qvars)
  <2> SUFFICES ASSUME [Next]_vars PROVE [Edge!QNext]_(Edge!qvars)
    OBVIOUS
  <2> USE DEF Edge!qvars
  <2>1. ASSUME NEW p \in Enqueuers, NEW f \in Frames, Enqueue(p, f)
        PROVE  [Edge!QNext]_(Edge!qvars)
    <3>1. CASE UNCHANGED queue
      BY <2>1, <3>1 DEF Enqueue, Full
    <3>2. CASE ~UNCHANGED queue
      <4>0. Len(queue[ClassOf(f)]) \in Nat
        BY DEF TypeOK, ClassOf, Classes
      <4>1. Edge!Put(f)
        BY <2>1, <3>2, <4>0, EdgeQueueAssumption DEF Enqueue, Full, Edge!Put, ClassOf, Edge!ClassOf
      <4> QED BY <4>1 DEF Edge!QNext
    <3> QED BY <3>1, <3>2
  <2>2. CASE Dequeue
    <3>1. Edge!Take
      BY <2>2 DEF Dequeue, Edge!Take, NextClass, Edge!NextClass
    <3> QED BY <3>1 DEF Edge!QNext
  <2>3. CASE Cancel
    <3>1. Edge!Shut
      BY <2>3 DEF Cancel, Edge!Shut
    <3> QED BY <3>1 DEF Edge!QNext
  <2>4. CASE UNCHANGED <<queue, taken, ctx>>
    BY <2>4
  <2> QED
    BY <2>1, <2>2, <2>3, <2>4
       DEF Next, Run, Signal, SendReturns, Park, WakeUp, Stop, vars
<1> QED BY <1>1, <1>2, PTL DEF Spec

=============================================================================
