------------------------- MODULE MetricsWriterProofs -------------------------
(***************************************************************************)
(* What MetricsWriter keeps for any number of producers and finalizers and *)
(* any channel capacity: no send on the closed channel, no accepted event  *)
(* lost, complete results once Finalize has returned, and no hole in the   *)
(* file whatever the disk does.                                            *)
(***************************************************************************)
EXTENDS MetricsWriter, SequenceTheorems, TLAPS

(* An accepted event joins the channel, the last stage of the pipeline.    *)
LEMMA AppendToSecond ==
  ASSUME NEW s \in Seq(Events), NEW q \in Seq(Events), NEW x \in Events
  PROVE  Append(s \o q, x) = s \o Append(q, x)
<1> DEFINE e == <<x>>
<1>1. e \in Seq(Events) /\ s \o q \in Seq(Events)
  BY ConcatProperties
<1>2. Append(s \o q, x) = (s \o q) \o e /\ Append(q, x) = q \o e
  BY <1>1, AppendIsConcat
<1> HIDE DEF e
<1>3. (s \o q) \o e = s \o (q \o e)
  BY <1>1, ConcatAssociative
<1> QED BY <1>2, <1>3, Zenon

(* The head of the channel moves to the end of the buffer.                 *)
LEMMA HeadMovesOn ==
  ASSUME NEW b \in Seq(Events), NEW q \in Seq(Events), q # << >>
  PROVE  /\ Head(q) \in Events /\ Tail(q) \in Seq(Events)
         /\ Append(b, Head(q)) \in Seq(Events)
         /\ b \o q = Append(b, Head(q)) \o Tail(q)
<1>1. Head(q) \in Events /\ Tail(q) \in Seq(Events) /\ <<Head(q)>> \in Seq(Events)
  BY HeadTailProperties
<1>2. q = <<Head(q)>> \o Tail(q)
  BY <1>1
<1>3. Append(b, Head(q)) = b \o <<Head(q)>>
  BY <1>1, AppendIsConcat
<1>4. (b \o <<Head(q)>>) \o Tail(q) = b \o (<<Head(q)>> \o Tail(q))
  BY <1>1, ConcatAssociative
<1> QED BY <1>1, <1>2, <1>3, <1>4, AppendProperties

-----------------------------------------------------------------------------
LEMMA SendingIsCounted ==
  ASSUME TypeOK, NEW p \in Producers, producer[p] = "sending"
  PROVE  recorded[p] \in 1..MaxEvents
<1>1. recorded[p] \in 0..MaxEvents /\ recorded[p] > 0
  BY DEF TypeOK
<1>2. MaxEvents \in Nat
  BY WriterAssumption
<1> QED BY <1>1, <1>2

LEMMA PartOfBuffer ==
  ASSUME TypeOK, NEW n \in 0..Len(buffer)
  PROVE  file \o SubSeq(buffer, 1, n) \in Seq(Events)
<1>1. file \in Seq(Events) /\ buffer \in Seq(Events)
  BY DEF TypeOK
<1>2. SubSeq(buffer, 1, n) \in Seq(Events)
  BY <1>1
<1> QED BY <1>1, <1>2, ConcatProperties

LEMMA WriteOutType ==
  ASSUME TypeOK, WriteOut
  PROVE  /\ file' \in Seq(Events) /\ buffer' \in Seq(Events)
         /\ err' \in {"nil", "failed"}
<1>1. file \o buffer \in Seq(Events)
  BY ConcatProperties DEF TypeOK
<1>2. CASE \E n \in 0..Len(buffer) : /\ file' = file \o SubSeq(buffer, 1, n)
                                      /\ err' = "failed"
                                      /\ UNCHANGED buffer
  <2>1. PICK n \in 0..Len(buffer) : file' = file \o SubSeq(buffer, 1, n)
    BY <1>2
  <2>2. file' \in Seq(Events)
    BY <2>1, PartOfBuffer
  <2> QED BY <1>2, <2>2 DEF TypeOK
<1>3. CASE file' = file \o buffer /\ buffer' = << >> /\ UNCHANGED err
  BY <1>1, <1>3 DEF TypeOK
<1> QED BY <1>2, <1>3 DEF WriteOut

(* Every variable keeps its type.                                          *)
LEMMA TypeCorrect == Spec => []TypeOK
<1>1. Init => TypeOK
  BY WriterAssumption DEF Init, TypeOK, FinalizerStates
<1>2. TypeOK /\ [Next]_vars => TypeOK'
  <2> SUFFICES ASSUME TypeOK, [Next]_vars PROVE TypeOK'
    OBVIOUS
  <2> USE WriterAssumption
  <2>1. ASSUME NEW p \in Producers, Record(p) PROVE TypeOK'
    BY <2>1 DEF Record, TypeOK
  <2>2. ASSUME NEW p \in Producers, EnterWrite(p) PROVE TypeOK'
    BY <2>2 DEF EnterWrite, TypeOK
  <2>3. ASSUME NEW p \in Producers, Send(p) PROVE TypeOK'
    <3>0. recorded[p] \in 1..MaxEvents
      BY <2>3, SendingIsCounted DEF Send
    <3>1. <<p, recorded[p]>> \in Events
      BY <3>0 DEF Events
    <3>2. /\ Append(events, <<p, recorded[p]>>) \in Seq(Events)
          /\ Append(accepted, <<p, recorded[p]>>) \in Seq(Events)
      BY <3>1, AppendProperties DEF TypeOK
    <3> QED BY <2>3, <3>2 DEF Send, TypeOK
  <2>4. CASE Encode
    <3>1. /\ Tail(events) \in Seq(Events) /\ Head(events) \in Events
          /\ Append(buffer, Head(events)) \in Seq(Events)
      BY <2>4, HeadMovesOn DEF Encode, TypeOK
    <3>2. file \o buffer \in Seq(Events) /\ <<Head(events)>> \in Seq(Events)
      BY <3>1, ConcatProperties DEF TypeOK
    <3>3. file' \in Seq(Events) /\ buffer' \in Seq(Events) /\ err' \in {"nil", "failed"}
      <4>1. CASE err' = "failed" /\ UNCHANGED buffer
                 /\ \E n \in 0..Len(buffer) : file' = file \o SubSeq(buffer, 1, n)
        <5>1. PICK n \in 0..Len(buffer) : file' = file \o SubSeq(buffer, 1, n)
          BY <4>1
        <5>2. file' \in Seq(Events)
          BY <5>1, PartOfBuffer
        <5> QED BY <4>1, <5>2 DEF TypeOK
      <4>2. CASE buffer' = Append(buffer, Head(events)) /\ UNCHANGED <<file, err>>
        BY <3>1, <4>2 DEF TypeOK
      <4>3. CASE file' = file \o buffer /\ buffer' = <<Head(events)>> /\ UNCHANGED err
        BY <3>2, <4>3 DEF TypeOK
      <4>4. CASE UNCHANGED <<buffer, file, err>>
        BY <4>4 DEF TypeOK
      <4> QED BY <2>4, <4>1, <4>2, <4>3, <4>4 DEF Encode
    <3> QED BY <2>4, <3>1, <3>3 DEF Encode, TypeOK
  <2>5. CASE Tick
    BY <2>5, WriteOutType DEF Tick, TypeOK
  <2>6. CASE Finish
    <3>1. /\ file' \in Seq(Events) /\ buffer' \in Seq(Events)
          /\ err' \in {"nil", "failed"}
      BY <2>6, WriteOutType DEF Finish, TypeOK
    <3> QED BY <2>6, <3>1 DEF Finish, TypeOK
  <2>7. ASSUME NEW c \in Finalizers, CallFinalize(c) PROVE TypeOK'
    BY <2>7 DEF CallFinalize, TypeOK, FinalizerStates
  <2>8. ASSUME NEW c \in Finalizers, StoreFinalized(c) PROVE TypeOK'
    BY <2>8 DEF StoreFinalized, TypeOK
  <2>9. ASSUME NEW c \in Finalizers, RequestLock(c) PROVE TypeOK'
    BY <2>9 DEF RequestLock, TypeOK, FinalizerStates
  <2>10. ASSUME NEW c \in Finalizers, CloseEvents(c) PROVE TypeOK'
    BY <2>10 DEF CloseEvents, TypeOK, FinalizerStates
  <2>11. ASSUME NEW c \in Finalizers, FinalizeReturns(c) PROVE TypeOK'
    BY <2>11 DEF FinalizeReturns, TypeOK, FinalizerStates
  <2>12. CASE HandleResults
    BY <2>12 DEF HandleResults, TypeOK
  <2>13. CASE UNCHANGED vars
    BY <2>13 DEF vars, TypeOK
  <2> QED
    BY <2>1, <2>2, <2>3, <2>4, <2>5, <2>6, <2>7, <2>8, <2>9, <2>10, <2>11,
       <2>12, <2>13 DEF Next, Produce, Finalize
<1> QED BY <1>1, <1>2, PTL DEF Spec

-----------------------------------------------------------------------------
(* The order in which a writer shuts: a finalizer has returned only after  *)
(* run is done, and run is done only after the channel was closed.         *)
ShutInOrder ==
  /\ done = "closed" => closed = "yes"
  /\ once = "done" => done = "closed"
  /\ \A c \in Finalizers : finalizer[c] = "returned" => done = "closed"

(* accepted is always spread over the three stages, the last two of which  *)
(* are empty once run is done.                                             *)
Pipeline ==
  err = "nil" => /\ accepted = file \o buffer \o events
                 /\ done = "closed" => buffer = << >> /\ events = << >>

ServedIsFinal ==
  servedLate = "yes" => served = accepted /\ done = "closed"

WriterInv == NeverSendsOnClosed /\ ShutInOrder /\ Pipeline /\ ServedIsFinal

LEMMA WriterInit == Init => WriterInv
BY DEF Init, WriterInv, NeverSendsOnClosed, ShutInOrder, Pipeline, ServedIsFinal

LEMMA WriteOutKeeps ==
  ASSUME TypeOK, Pipeline, WriteOut, err' = "nil", UNCHANGED <<accepted, events>>
  PROVE  accepted' = file' \o buffer' \o events' /\ buffer' = << >>
<1>1. file \in Seq(Events) /\ buffer \in Seq(Events) /\ file \o buffer \in Seq(Events)
  BY ConcatProperties DEF TypeOK
<1>2. err = "nil" /\ file' = file \o buffer /\ buffer' = << >>
  BY DEF WriteOut, TypeOK
<1>3. file' \o << >> = file \o buffer
  BY <1>1, <1>2, ConcatEmptySeq
<1> QED BY <1>2, <1>3 DEF Pipeline

LEMMA WriterStep == TypeOK /\ WriterInv /\ [Next]_vars => WriterInv'
<1> SUFFICES ASSUME TypeOK, WriterInv, [Next]_vars PROVE WriterInv'
  OBVIOUS
<1>i. NeverSendsOnClosed /\ ShutInOrder /\ Pipeline /\ ServedIsFinal
  BY DEF WriterInv
<1> USE DEF NeverSendsOnClosed, ShutInOrder, ServedIsFinal
<1>1. ASSUME NEW p \in Producers, Record(p) PROVE WriterInv'
  BY <1>1, <1>i DEF Record, TypeOK, WriterInv, Pipeline
<1>2. ASSUME NEW p \in Producers, EnterWrite(p) PROVE WriterInv'
  BY <1>2, <1>i DEF EnterWrite, TypeOK, WriterInv, Pipeline
<1>3. ASSUME NEW p \in Producers, Send(p) PROVE WriterInv'
  <2>1. closed # "yes" /\ done # "closed"
    BY <1>3, <1>i DEF Send, TypeOK
  <2>2. Pipeline'
    <3>0. recorded[p] \in 1..MaxEvents
      BY <1>3, SendingIsCounted DEF Send
    <3>1. <<p, recorded[p]>> \in Events
      BY <3>0 DEF Events
    <3>2. Append(file \o buffer \o events, <<p, recorded[p]>>)
            = file \o buffer \o Append(events, <<p, recorded[p]>>)
      <4>1. file \in Seq(Events) /\ buffer \in Seq(Events) /\ events \in Seq(Events)
        BY DEF TypeOK
      <4> DEFINE e == <<p, recorded[p]>>
                 s == file \o buffer
      <4>2. e \in Events /\ s \in Seq(Events)
        BY <3>1, <4>1, ConcatProperties
      <4> HIDE DEF e, s
      <4>3. Append(s \o events, e) = s \o Append(events, e)
        BY <4>1, <4>2, AppendToSecond
      <4> QED BY <4>3 DEF e, s
    <3>3. /\ UNCHANGED <<file, buffer, err, done>>
          /\ events' = Append(events, <<p, recorded[p]>>)
          /\ accepted' = Append(accepted, <<p, recorded[p]>>)
      BY <1>3 DEF Send
    <3> QED BY <1>i, <2>1, <3>2, <3>3 DEF Pipeline
  <2>3. UNCHANGED <<once, closed, finalizer, done, file, served, err, servedLate>>
    BY <1>3 DEF Send
  <2>4. NeverSendsOnClosed'
    BY <2>1, <2>3
  <2>5. ShutInOrder'
    BY <1>i, <2>1, <2>3
  <2>6. ServedIsFinal'
    BY <1>i, <2>1, <2>3
  <2> QED BY <2>2, <2>4, <2>5, <2>6 DEF WriterInv
<1>4. CASE Encode
  <2>1. Pipeline'
    <3> SUFFICES ASSUME err' = "nil"
                 PROVE  accepted' = file' \o buffer' \o events'
      BY <1>4 DEF Encode, Pipeline
    <3>1. /\ file \in Seq(Events) /\ buffer \in Seq(Events) /\ events \in Seq(Events)
          /\ events # << >> /\ file \o buffer \in Seq(Events)
          /\ accepted' = accepted /\ events' = Tail(events)
          /\ err = "nil" /\ accepted = (file \o buffer) \o events
      BY <1>4, <1>i, ConcatProperties DEF Encode, TypeOK, Pipeline
    <3>2. CASE file' = file /\ buffer' = Append(buffer, Head(events))
      <4>1. /\ Append(buffer, Head(events)) \in Seq(Events)
            /\ Tail(events) \in Seq(Events)
            /\ buffer \o events = Append(buffer, Head(events)) \o Tail(events)
        BY <3>1, HeadMovesOn
      <4>2. (file \o buffer) \o events = file \o (buffer \o events)
        BY <3>1, ConcatAssociative
      <4>3. (file \o Append(buffer, Head(events))) \o Tail(events)
              = file \o (Append(buffer, Head(events)) \o Tail(events))
        <5> DEFINE b == Append(buffer, Head(events))
                   q == Tail(events)
        <5>1. b \in Seq(Events) /\ q \in Seq(Events) /\ file \in Seq(Events)
          BY <3>1, <4>1
        <5> HIDE DEF b, q
        <5>2. (file \o b) \o q = file \o (b \o q)
          BY <5>1, ConcatAssociative
        <5> QED BY <5>2 DEF b, q
      <4> QED BY <3>1, <3>2, <4>1, <4>2, <4>3
    <3>3. CASE file' = file \o buffer /\ buffer' = <<Head(events)>>
      <4>1. /\ <<Head(events)>> \in Seq(Events) /\ Tail(events) \in Seq(Events)
            /\ events = <<Head(events)>> \o Tail(events)
        BY <3>1
      <4>2. ((file \o buffer) \o <<Head(events)>>) \o Tail(events)
              = (file \o buffer) \o (<<Head(events)>> \o Tail(events))
        <5> DEFINE s == file \o buffer
                   e == <<Head(events)>>
                   q == Tail(events)
        <5>1. s \in Seq(Events) /\ e \in Seq(Events) /\ q \in Seq(Events)
          BY <3>1, <4>1
        <5> HIDE DEF s, e, q
        <5>2. (s \o e) \o q = s \o (e \o q)
          BY <5>1, ConcatAssociative
        <5> QED BY <5>2 DEF s, e, q
      <4> QED BY <3>1, <3>3, <4>1, <4>2, Zenon
    <3> QED BY <1>4, <3>1, <3>2, <3>3 DEF Encode
  <2> QED BY <1>4, <1>i, <2>1 DEF Encode, WriterInv
<1>5. CASE Tick
  <2>1. Pipeline'
    BY <1>5, <1>i, WriteOutKeeps DEF Tick, Pipeline
  <2> QED BY <1>5, <1>i, <2>1 DEF Tick, WriterInv
<1>6. CASE Finish
  <2>1. Pipeline'
    BY <1>6, <1>i, WriteOutKeeps DEF Finish, Pipeline
  <2> QED BY <1>6, <1>i, <2>1 DEF Finish, WriterInv
<1>7. ASSUME NEW c \in Finalizers, CallFinalize(c) PROVE WriterInv'
  BY <1>7, <1>i DEF CallFinalize, TypeOK, WriterInv, Pipeline
<1>8. ASSUME NEW c \in Finalizers, StoreFinalized(c) PROVE WriterInv'
  BY <1>8, <1>i DEF StoreFinalized, WriterInv, Pipeline
<1>9. ASSUME NEW c \in Finalizers, RequestLock(c) PROVE WriterInv'
  BY <1>9, <1>i DEF RequestLock, TypeOK, WriterInv, Pipeline
<1>10. ASSUME NEW c \in Finalizers, CloseEvents(c) PROVE WriterInv'
  BY <1>10, <1>i DEF CloseEvents, TypeOK, WriterInv, Pipeline
<1>11. ASSUME NEW c \in Finalizers, FinalizeReturns(c) PROVE WriterInv'
  BY <1>11, <1>i DEF FinalizeReturns, TypeOK, WriterInv, Pipeline
<1>12. CASE HandleResults
  <2>1. ASSUME servedLate' = "yes" PROVE served' = accepted' /\ done' = "closed"
    <3>1. err = "nil" /\ done = "closed"
      BY <1>12, <1>i, <2>1 DEF HandleResults
    <3>2. accepted = file \o << >> \o << >>
      BY <1>i, <3>1 DEF Pipeline
    <3>3. accepted = file
      BY <3>2, ConcatEmptySeq DEF TypeOK
    <3> QED BY <1>12, <3>1, <3>3 DEF HandleResults
  <2> QED BY <1>12, <1>i, <2>1 DEF HandleResults, WriterInv, Pipeline
<1>13. CASE UNCHANGED vars
  BY <1>13, <1>i DEF vars, WriterInv, Pipeline
<1> QED
  BY <1>1, <1>2, <1>3, <1>4, <1>5, <1>6, <1>7, <1>8, <1>9, <1>10, <1>11,
     <1>12, <1>13 DEF Next, Produce, Finalize

-----------------------------------------------------------------------------
(* No goroutine ever sends on the closed events channel.                   *)
THEOREM SendIsBeforeClose == Spec => []NeverSendsOnClosed
<1>1. WriterInv => NeverSendsOnClosed
  BY DEF WriterInv
<1> QED BY <1>1, WriterInit, WriterStep, TypeCorrect, PTL DEF Spec

(* Without a disk error every accepted event is kept, once and in order,   *)
(* and is in the file when run is done.                                    *)
THEOREM EventsAreNotLost == Spec => []NothingLost
<1>1. TypeOK /\ WriterInv => NothingLost
  <2> SUFFICES ASSUME TypeOK, WriterInv, err = "nil", done = "closed"
               PROVE  accepted = file
    BY DEF WriterInv, Pipeline, NothingLost
  <2>1. accepted = file \o << >> \o << >>
    BY DEF WriterInv, Pipeline
  <2> QED BY <2>1, ConcatEmptySeq DEF TypeOK
<1> QED BY <1>1, WriterInit, WriterStep, TypeCorrect, PTL DEF Spec

(* What is served after a successful Finalize is all there ever will be.   *)
THEOREM LateResultsAreComplete == Spec => []ResultsAreComplete
<1>1. WriterInv => ResultsAreComplete
  BY DEF WriterInv, ServedIsFinal, ResultsAreComplete
<1> QED BY <1>1, WriterInit, WriterStep, TypeCorrect, PTL DEF Spec

-----------------------------------------------------------------------------
(* Who waits for whom.  While Finalize runs somebody runs its body, and    *)
(* who waits for run to end has closed the channel.                        *)
Closers == {c \in Finalizers : finalizer[c] \in {"storing", "locking", "awaiting"}}

OneCloses ==
  /\ once = "running" => Closers # {}
  /\ \A c \in Finalizers : finalizer[c] = "awaiting" => closed = "yes"

LEMMA OneClosesStep == TypeOK /\ OneCloses /\ [Next]_vars => OneCloses'
<1> SUFFICES ASSUME TypeOK, OneCloses, [Next]_vars PROVE OneCloses'
  OBVIOUS
<1> USE DEF OneCloses, Closers
<1>1. CASE UNCHANGED <<once, finalizer, closed>>
  BY <1>1
<1>2. ASSUME NEW c \in Finalizers, CallFinalize(c) PROVE OneCloses'
  BY <1>2 DEF CallFinalize, TypeOK
<1>3. ASSUME NEW c \in Finalizers, RequestLock(c) PROVE OneCloses'
  BY <1>3 DEF RequestLock, TypeOK
<1>4. ASSUME NEW c \in Finalizers, CloseEvents(c) PROVE OneCloses'
  BY <1>4 DEF CloseEvents, TypeOK
<1>5. ASSUME NEW c \in Finalizers, FinalizeReturns(c) PROVE OneCloses'
  BY <1>5 DEF FinalizeReturns, TypeOK
<1> QED
  BY <1>1, <1>2, <1>3, <1>4, <1>5
     DEF Next, Produce, Finalize, Record, EnterWrite, Send, Encode, Tick, Finish,
         StoreFinalized, HandleResults, vars

(* Some goroutine is not held up: a guard below is that of one action of   *)
(* Produce, Finalize or run.                                               *)
SomebodyCanMove ==
  \/ \E p \in Producers :
       \/ producer[p] = "recording" /\ \A c \in Finalizers : finalizer[c] # "locking"
       \/ producer[p] = "sending" /\ Len(events) < QueueCapacity
  \/ done = "open" /\ (events # << >> \/ closed = "yes")
  \/ \E c \in Finalizers :
       \/ finalizer[c] = "storing"
       \/ finalizer[c] = "locking" /\ \A p \in Producers : producer[p] # "sending"
       \/ finalizer[c] = "awaiting" /\ done = "closed"
       \/ finalizer[c] = "waiting" /\ once = "done"

NeverStuck ==
  (\E p \in Producers : producer[p] # "idle")
    \/ (\E c \in Finalizers : finalizer[c] \notin {"idle", "returned"})
      => SomebodyCanMove

LEMMA SendersAreServed ==
  ASSUME TypeOK, WriterInv, NEW p \in Producers, producer[p] = "sending"
  PROVE  SomebodyCanMove
<1>1. done = "open"
  BY DEF TypeOK, WriterInv, NeverSendsOnClosed, ShutInOrder
<1>2. CASE Len(events) < QueueCapacity
  BY <1>2 DEF SomebodyCanMove
<1>3. CASE ~ (Len(events) < QueueCapacity)
  <2>1. events # << >>
    BY <1>3, WriterAssumption
  <2> QED BY <1>1, <2>1 DEF SomebodyCanMove
<1> QED BY <1>2, <1>3

LEMMA ClosersAreServed ==
  ASSUME TypeOK, WriterInv, OneCloses, NEW c \in Closers
  PROVE  SomebodyCanMove
<1>1. c \in Finalizers /\ finalizer[c] \in {"storing", "locking", "awaiting"}
  BY DEF Closers
<1>2. CASE finalizer[c] = "storing"
  BY <1>1, <1>2 DEF SomebodyCanMove
<1>3. CASE finalizer[c] = "locking"
  BY <1>1, <1>3, SendersAreServed DEF SomebodyCanMove
<1>4. CASE finalizer[c] = "awaiting"
  BY <1>1, <1>4 DEF SomebodyCanMove, OneCloses, TypeOK
<1> QED BY <1>1, <1>2, <1>3, <1>4

(* The read lock, the full channel, the pending Lock, the done channel and *)
(* finalizeOnce never hold each other up in a circle: as long as a Write   *)
(* or a Finalize has not returned, some goroutine can go on, with any      *)
(* number of them, any capacity and any disk.                              *)
THEOREM NobodyIsStuck == Spec => []NeverStuck
<1>1. TypeOK /\ WriterInv /\ OneCloses => NeverStuck
  <2> SUFFICES ASSUME TypeOK, WriterInv, OneCloses PROVE NeverStuck
    OBVIOUS
  <2>1. ASSUME NEW p \in Producers, producer[p] # "idle" PROVE SomebodyCanMove
    <3>1. producer[p] \in {"recording", "sending"}
      BY <2>1 DEF TypeOK
    <3>2. CASE producer[p] = "recording"
      <4>1. CASE \A c \in Finalizers : finalizer[c] # "locking"
        BY <3>2, <4>1 DEF SomebodyCanMove
      <4>2. CASE \E c \in Finalizers : finalizer[c] = "locking"
        BY <4>2, ClosersAreServed DEF Closers
      <4> QED BY <4>1, <4>2
    <3> QED BY <3>1, <3>2, SendersAreServed
  <2>2. ASSUME NEW c \in Finalizers, finalizer[c] \notin {"idle", "returned"}
        PROVE  SomebodyCanMove
    <3>1. finalizer[c] = "waiting" \/ c \in Closers
      BY <2>2 DEF TypeOK, FinalizerStates, Closers
    <3>2. CASE finalizer[c] = "waiting"
      <4>1. once \in {"running", "done"}
        BY <3>2 DEF TypeOK
      <4>2. CASE once = "running"
        BY <4>2, ClosersAreServed DEF OneCloses
      <4>3. CASE once = "done"
        BY <3>2, <4>3 DEF SomebodyCanMove
      <4> QED BY <4>1, <4>2, <4>3
    <3> QED BY <3>1, <3>2, ClosersAreServed
  <2> QED BY <2>1, <2>2 DEF NeverStuck
<1>2. Init => OneCloses
  BY DEF Init, OneCloses
<1> QED BY <1>1, <1>2, OneClosesStep, WriterInit, WriterStep, TypeCorrect, PTL DEF Spec

-----------------------------------------------------------------------------
(* A beginning of what was accepted.                                       *)
Begins(f, a) == \E n \in 0..Len(a) : f = SubSeq(a, 1, n)

(* Two sequences of events joined, place by place.                         *)
LEMMA Joined ==
  ASSUME NEW g \in Seq(Events), NEW q \in Seq(Events)
  PROVE  /\ g \o q \in Seq(Events) /\ Len(g \o q) = Len(g) + Len(q)
         /\ \A i \in 1..(Len(g) + Len(q)) :
              (g \o q)[i] = IF i <= Len(g) THEN g[i] ELSE q[i - Len(g)]
BY ConcatProperties

(* The file and a beginning of the buffer begin the pipeline.              *)
LEMMA PipelineBegins ==
  ASSUME NEW f \in Seq(Events), NEW b \in Seq(Events), NEW q \in Seq(Events),
         NEW n \in 0..Len(b)
  PROVE  Begins(f \o SubSeq(b, 1, n), f \o b \o q)
<1> DEFINE p == SubSeq(b, 1, n)
           a == (f \o b) \o q
           k == Len(f) + n
<1>1. /\ Len(f) \in Nat /\ Len(b) \in Nat /\ Len(q) \in Nat /\ n \in Nat /\ n <= Len(b)
      /\ p \in Seq(Events) /\ Len(p) = n /\ \A i \in 1..n : p[i] = b[i]
  OBVIOUS
<1>2. /\ f \o b \in Seq(Events) /\ Len(f \o b) = Len(f) + Len(b)
      /\ \A i \in 1..(Len(f) + Len(b)) :
           (f \o b)[i] = IF i <= Len(f) THEN f[i] ELSE b[i - Len(f)]
  BY ConcatProperties
<1>3. /\ a \in Seq(Events) /\ Len(a) = Len(f) + Len(b) + Len(q)
      /\ \A i \in 1..(Len(f) + Len(b)) : a[i] = (f \o b)[i]
  <2> DEFINE g == f \o b
  <2>1. g \in Seq(Events) /\ Len(g) = Len(f) + Len(b)
    BY <1>2
  <2> HIDE DEF g
  <2>2. /\ g \o q \in Seq(Events) /\ Len(g \o q) = Len(g) + Len(q)
        /\ \A i \in 1..(Len(g) + Len(q)) :
             (g \o q)[i] = IF i <= Len(g) THEN g[i] ELSE q[i - Len(g)]
    BY <2>1, Joined
  <2>3. \A i \in 1..(Len(f) + Len(b)) : (g \o q)[i] = g[i]
    BY <1>1, <2>1, <2>2
  <2> QED BY <2>1, <2>2, <2>3 DEF g
<1>4. /\ f \o p \in Seq(Events) /\ Len(f \o p) = k
      /\ \A i \in 1..k : (f \o p)[i] = IF i <= Len(f) THEN f[i] ELSE p[i - Len(f)]
  <2> HIDE DEF p
  <2> QED BY <1>1, ConcatProperties
<1> HIDE DEF p, a
<1>5. k \in 0..Len(a)
  BY <1>1, <1>3
<1> DEFINE r == SubSeq(a, 1, k)
<1>6. r \in Seq(Events) /\ Len(r) = k /\ \A i \in 1..k : r[i] = a[i]
  BY <1>3, <1>5
<1>7. \A i \in 1..k : (f \o p)[i] = r[i]
  <2> SUFFICES ASSUME NEW i \in 1..k PROVE (f \o p)[i] = r[i]
    OBVIOUS
  <2>1. r[i] = (f \o b)[i] /\ i \in 1..(Len(f) + Len(b))
    BY <1>1, <1>3, <1>6
  <2>2. CASE i <= Len(f)
    BY <1>2, <1>4, <2>1, <2>2
  <2>3. CASE i > Len(f)
    <3>1. i - Len(f) \in 1..n
      BY <1>1, <2>3
    <3> QED BY <1>1, <1>2, <1>4, <2>1, <2>3, <3>1
  <2> QED BY <1>1, <2>2, <2>3
<1> HIDE DEF r, k
<1>8. f \o p = r
  <2> DEFINE s == f \o p
  <2>1. s \in Seq(Events) /\ r \in Seq(Events) /\ Len(s) = k /\ Len(r) = k
        /\ \A i \in 1..k : s[i] = r[i]
    BY <1>4, <1>6, <1>7
  <2> HIDE DEF s
  <2>2. s = r
    BY <2>1, SeqEqual
  <2> QED BY <2>2 DEF s
<1> QED BY <1>5, <1>8 DEF Begins, r, p, a

(* What begins a sequence still begins it when it has grown.               *)
LEMMA BeginsLonger ==
  ASSUME NEW a \in Seq(Events), NEW x \in Events, NEW f, Begins(f, a)
  PROVE  Begins(f, Append(a, x))
<1>1. PICK n \in 0..Len(a) : f = SubSeq(a, 1, n)
  BY DEF Begins
<1>2. n \in 0..Len(Append(a, x)) /\ SubSeq(Append(a, x), 1, n) = SubSeq(a, 1, n)
  OBVIOUS
<1> QED BY <1>1, <1>2 DEF Begins

LEMMA WholeBuffer ==
  ASSUME TypeOK, Pipeline, err = "nil"
  PROVE  /\ Begins(file \o buffer, accepted)
         /\ \A n \in 0..Len(buffer) : Begins(file \o SubSeq(buffer, 1, n), accepted)
<1>1. file \in Seq(Events) /\ buffer \in Seq(Events) /\ events \in Seq(Events)
  BY DEF TypeOK
<1>2. accepted = file \o buffer \o events
  BY DEF Pipeline
<1>3. \A n \in 0..Len(buffer) : Begins(file \o SubSeq(buffer, 1, n), accepted)
  BY <1>1, <1>2, PipelineBegins
<1>4. SubSeq(buffer, 1, Len(buffer)) = buffer /\ Len(buffer) \in 0..Len(buffer)
  BY <1>1
<1> QED BY <1>3, <1>4

(* What is on disk is always a beginning of what was accepted: a failed    *)
(* write may cut the file short, and nothing is written behind the cut.    *)
THEOREM FileHasNoHoles == Spec => []NoHoles
<1>1. Init => NoHoles
  <2> SUFFICES ASSUME Init PROVE 0 \in 0..Len(accepted) /\ file = SubSeq(accepted, 1, 0)
    BY DEF NoHoles
  <2> QED BY DEF Init
<1>2. TypeOK /\ WriterInv /\ NoHoles /\ [Next]_vars => NoHoles'
  <2> SUFFICES ASSUME TypeOK, Pipeline, Begins(file, accepted), [Next]_vars
               PROVE  Begins(file', accepted')
    BY DEF NoHoles, Begins, WriterInv
  <2>1. ASSUME NEW p \in Producers, Send(p) PROVE Begins(file', accepted')
    <3>1. <<p, recorded[p]>> \in Events
      BY <2>1, SendingIsCounted DEF Send, Events
    <3>2. accepted \in Seq(Events)
      BY DEF TypeOK
    <3> QED BY <2>1, <3>1, <3>2, BeginsLonger DEF Send
  <2>2. CASE WriteOut /\ err = "nil" /\ UNCHANGED accepted
    BY <2>2, WholeBuffer DEF WriteOut
  <2>3. CASE Encode
    BY <2>3, WholeBuffer DEF Encode
  <2>4. CASE Tick \/ Finish
    BY <2>2, <2>4 DEF Tick, Finish
  <2>5. CASE UNCHANGED <<file, accepted>>
    BY <2>5
  <2> QED
    BY <2>1, <2>3, <2>4, <2>5
       DEF Next, Produce, Finalize, Record, EnterWrite, CallFinalize, StoreFinalized,
           RequestLock, CloseEvents, FinalizeReturns, HandleResults, vars
<1> QED BY <1>1, <1>2, WriterInit, WriterStep, TypeCorrect, PTL DEF Spec

=============================================================================
