----------------------- MODULE StreamLifecycleProofs -----------------------
(***************************************************************************)
(* Proofs about streams, for any number of streams, chunks, errors,        *)
(* disconnects and timeouts and any size of the buffer: the lease of a     *)
(* stream outlives its run, its client sees the run's events and is told   *)
(* the truth about its end, and a client that goes away does not stop it.  *)
(*                                                                         *)
(* The actors of one stream do not touch another's state (Alone), so that  *)
(* EndOf, KillOf and PipeAt speak of one stream each and are shown to hold *)
(* of the stream that steps.                                               *)
(***************************************************************************)
EXTENDS StreamLifecycle, TLAPS

(* The control state of the actors has its type. *)
Controls ==
    /\ http \in [Streams -> {"idle", "409", "streaming", "teardown", "over", "closed", "failed"}]
    /\ gen \in [Streams -> {"none", "recv", "leave", "join", "state", "final", "finaljoin",
                            "end", "closed"}]
    /\ prod \in [Streams -> {"none", "start", "next", "send", "drain", "close", "done"}]

(* Where the actors of a stream with a client are, relative to each other, *)
(* and when they rely on the lease.                                        *)
LeaseOf(s) ==
    /\ http[s] \in {"idle", "409"} => gen[s] = "none"
    /\ http[s] \in {"over", "closed", "failed"} => gen[s] = "closed"
    /\ gen[s] = "none" <=> prod[s] = "none"
    /\ gen[s] \in {"end", "closed"} => prod[s] = "done"
    /\ s \in Resume /\ http[s] = "streaming" /\ gen[s] = "none" => lock = s
    /\ s \in Resume /\ Running(s) => lock = s

(* The same of all streams, and that only a client that is gone leaves a  *)
(* thread behind that nobody waits for.                                    *)
LeaseInv ==
    /\ Controls
    /\ orphan \subseteq gone
    /\ sending \subseteq Streams /\ \A s \in sending : gen[s] # "none"
    /\ \A s \in Streams : s \notin gone => LeaseOf(s)

(* At first no stream has a lease or a run. *)
LEMMA LeaseInit ==
    ASSUME Init
    PROVE  LeaseInv
  BY DEF Init, LeaseInv, Controls, LeaseOf, Running

(* Every step keeps the invariant: a lease is released by the producer     *)
(* when its run is over, by the generator once the producer is done, and   *)
(* by the background task, after the generator or after a disconnect.      *)
LEMMA LeaseStep ==
    ASSUME LeaseInv, [Next]_vars
    PROVE  LeaseInv'
<1> USE ResumeStreams, NoneNoStream DEF respVars, genVars, prodVars, pipeVars, gateVars
<1>1. ASSUME NEW s \in Streams, ChatStream(s)
      PROVE  LeaseInv'
  BY <1>1 DEF LeaseInv, Controls, LeaseOf, Running, ChatStream
<1>2. ASSUME NEW s \in Streams, ApproveStream(s)
      PROVE  LeaseInv'
  BY <1>2 DEF LeaseInv, Controls, LeaseOf, Running, ApproveStream
<1>3. ASSUME NEW s \in Streams, Start(s)
      PROVE  LeaseInv'
  BY <1>3 DEF LeaseInv, Controls, LeaseOf, Running, Start, Become
<1>4. ASSUME NEW s \in Streams, NextChunk(s)
      PROVE  LeaseInv'
  BY <1>4 DEF LeaseInv, Controls, LeaseOf, Running, NextChunk, Become, Advance
<1>5. ASSUME NEW s \in Streams, Send(s)
      PROVE  LeaseInv'
  BY <1>5 DEF LeaseInv, Controls, LeaseOf, Running, Send, Become
<1>6. ASSUME NEW s \in Streams, SendBroken(s)
      PROVE  LeaseInv'
  BY <1>6 DEF LeaseInv, Controls, LeaseOf, Running, SendBroken, Become
<1>7. ASSUME NEW s \in Streams, Drain(s)
      PROVE  LeaseInv'
  BY <1>7 DEF LeaseInv, Controls, LeaseOf, Running, Drain, Advance
<1>8. ASSUME NEW s \in Streams, Exhausted(s)
      PROVE  LeaseInv'
  BY <1>8 DEF LeaseInv, Controls, LeaseOf, Running, Exhausted, Become, Cleanup, Release
<1>9. ASSUME NEW s \in Streams, GraphFails(s)
      PROVE  LeaseInv'
  BY <1>9 DEF LeaseInv, Controls, LeaseOf, Running, GraphFails, Become, Cleanup, Release, Raise
<1>10. ASSUME NEW s \in Streams, CloseIterator(s)
      PROVE  LeaseInv'
  BY <1>10 DEF LeaseInv, Controls, LeaseOf, Running, CloseIterator, Become
<1>11. ASSUME NEW s \in Streams, OrphanEnds(s)
      PROVE  LeaseInv'
  BY <1>11 DEF LeaseInv, Controls, LeaseOf, Running, OrphanEnds, Advance
<1>12. ASSUME NEW s \in Streams, GenStart(s)
      PROVE  LeaseInv'
  BY <1>12 DEF LeaseInv, Controls, LeaseOf, Running, GenStart, Become, Yield
<1>13. ASSUME NEW s \in Streams, Receive(s)
      PROVE  LeaseInv'
  BY <1>13 DEF LeaseInv, Controls, LeaseOf, Running, Receive, Yield
<1>14. ASSUME NEW s \in Streams, ReceiveFails(s)
      PROVE  LeaseInv'
  BY <1>14 DEF LeaseInv, Controls, LeaseOf, Running, ReceiveFails, Yield, Raise
<1>15. ASSUME NEW s \in Streams, LeaveLoop(s)
      PROVE  LeaseInv'
  BY <1>15 DEF LeaseInv, Controls, LeaseOf, Running, LeaveLoop, GoTo
<1>16. ASSUME NEW s \in Streams, Join(s)
      PROVE  LeaseInv'
  BY <1>16 DEF LeaseInv, Controls, LeaseOf, Running, Join, Yield, GoTo
<1>17. ASSUME NEW s \in Streams, GetState(s)
      PROVE  LeaseInv'
  BY <1>17 DEF LeaseInv, Controls, LeaseOf, Running, GetState, Yield
<1>18. ASSUME NEW s \in Streams, GetStateFails(s)
      PROVE  LeaseInv'
  BY <1>18 DEF LeaseInv, Controls, LeaseOf, Running, GetStateFails, Yield, Raise
<1>19. ASSUME NEW s \in Streams, Final(s)
      PROVE  LeaseInv'
  BY <1>19 DEF LeaseInv, Controls, LeaseOf, Running, Final, Yield, GoTo, Release
<1>20. ASSUME NEW s \in Streams, FinalJoin(s)
      PROVE  LeaseInv'
  BY <1>20 DEF LeaseInv, Controls, LeaseOf, Running, FinalJoin, Yield, GoTo, Release
<1>21. ASSUME NEW s \in Streams, Written(s)
      PROVE  LeaseInv'
  BY <1>21 DEF LeaseInv, Controls, LeaseOf, Running, Written
<1>22. ASSUME NEW s \in Streams, Finish(s)
      PROVE  LeaseInv'
  BY <1>22 DEF LeaseInv, Controls, LeaseOf, Running, Finish, GoTo
<1>23. ASSUME NEW s \in Streams, Disconnect(s)
      PROVE  LeaseInv'
  BY <1>23 DEF LeaseInv, Controls, LeaseOf, Running, Disconnect, Kill, Cleanup, Release, Become
<1>24. ASSUME NEW s \in Streams, Collect(s)
      PROVE  LeaseInv'
  BY <1>24 DEF LeaseInv, Controls, LeaseOf, Running, Collect, GeneratorExit, Release
<1>25. ASSUME NEW s \in Streams, SendTimeout(s)
      PROVE  LeaseInv'
  <2>1. CASE gen[s] = "end"
    <3>1. gen' = [gen EXCEPT ![s] = "closed"] /\ http' = [http EXCEPT ![s] = "failed"]
      BY <1>25, <2>1 DEF SendTimeout, GeneratorExit, LeaseInv, Controls
    <3> QED
      BY <1>25, <2>1, <3>1 DEF LeaseInv, Controls, LeaseOf, Running, SendTimeout,
         GeneratorExit, Release
  <2>2. CASE gen[s] # "end" /\ prod[s] = "done"
    <3>1. gen' = [gen EXCEPT ![s] = "closed"] /\ http' = [http EXCEPT ![s] = "failed"]
      BY <1>25, <2>2 DEF SendTimeout, GeneratorExit, LeaseInv, Controls
    <3> QED
      BY <1>25, <2>2, <3>1 DEF LeaseInv, Controls, LeaseOf, Running, SendTimeout,
         GeneratorExit, Release
  <2>3. CASE gen[s] # "end" /\ prod[s] # "done"
    <3>1. gen' = [gen EXCEPT ![s] = "finaljoin"] /\ http' = [http EXCEPT ![s] = "teardown"]
      BY <1>25, <2>3 DEF SendTimeout, GeneratorExit, LeaseInv, Controls
    <3> QED
      BY <1>25, <2>3, <3>1 DEF LeaseInv, Controls, LeaseOf, Running, SendTimeout,
         GeneratorExit, Release
  <2> QED
    BY <2>1, <2>2, <2>3
<1>26. ASSUME NEW s \in Streams, Background(s)
      PROVE  LeaseInv'
  BY <1>26 DEF LeaseInv, Controls, LeaseOf, Running, Background, Release
<1>27. CASE UNCHANGED vars
  BY <1>27 DEF LeaseInv, Controls, LeaseOf, Running, vars
<1> QED
  BY <1>1, <1>2, <1>3, <1>4, <1>5, <1>6, <1>7, <1>8, <1>9, <1>10, <1>11, <1>12, <1>13, <1>14,
         <1>15, <1>16, <1>17, <1>18, <1>19, <1>20, <1>21, <1>22, <1>23, <1>24, <1>25, <1>26,
         <1>27 DEF Next, ProducerStep, GeneratorStep, ResponseStep, Fault

(* As long as its client is there, a stream of /approve/stream holds the   *)
(* resume lock while its graph runs: producer, generator and background    *)
(* task release it in any order, but none before the run is over.          *)
THEOREM LeaseCoversRunHolds == Spec => []LeaseCoversRun
<1>1. Init => LeaseInv
  BY LeaseInit
<1>2. LeaseInv /\ [Next]_vars => LeaseInv'
  BY LeaseStep
<1>3. LeaseInv => LeaseCoversRun
  BY ResumeStreams DEF LeaseInv, LeaseOf, LeaseCoversRun
<1> QED
  BY <1>1, <1>2, <1>3, PTL DEF Spec
-----------------------------------------------------------------------------
(* What the generator may yield.                                           *)
Events == {"open", "node", "token", "awaiting_approval", "error", "completed", "done"}

(* The state of every stream has its type; the producer has a chunk while  *)
(* it sends one.                                                           *)
Shapes ==
    /\ Controls /\ killed \subseteq Streams
    /\ out \in [Streams -> Seq(Events)]
    /\ left \in [Streams -> Seq(Chunks)]
    /\ buf \in [Streams -> Seq(Chunks)]
    /\ item \in [Streams -> Chunks \union {None}]
    /\ \A s \in Streams : prod[s] = "send" => item[s] \in Chunks

(* A step of one of the actors of s.                                       *)
StepOf(s) ==
    \/ ChatStream(s) \/ ApproveStream(s)
    \/ ProducerStep(s) \/ GeneratorStep(s) \/ ResponseStep(s)
    \/ Fault(s)

(* A step leaves q as it was, but for the lease.                           *)
Untouched(q) ==
    /\ http'[q] = http[q] /\ gen'[q] = gen[q] /\ prod'[q] = prod[q]
    /\ out'[q] = out[q] /\ left'[q] = left[q] /\ buf'[q] = buf[q] /\ item'[q] = item[q]
    /\ q \in sending' <=> q \in sending
    /\ q \in failed' <=> q \in failed
    /\ q \in killed' <=> q \in killed
    /\ q \in orphan' <=> q \in orphan
    /\ q \in sclosed' <=> q \in sclosed
    /\ q \in rclosed' <=> q \in rclosed
    /\ q \in gone' <=> q \in gone
    /\ q \in slow' <=> q \in slow

(* The actors of one stream do not touch another: streams share nothing    *)
(* but the lease, the pause and the bounds.                                *)
LEMMA Alone ==
    ASSUME Shapes, NEW s \in Streams, StepOf(s), NEW q \in Streams, q # s
    PROVE  Untouched(q)
<1> USE DEF respVars, genVars, prodVars, pipeVars, gateVars, Shapes, Controls, Untouched
<1>1. CASE ChatStream(s)
  BY <1>1 DEF ChatStream
<1>2. CASE ApproveStream(s)
  BY <1>2 DEF ApproveStream
<1>3. CASE Start(s)
  BY <1>3 DEF Start, Become
<1>4. CASE NextChunk(s)
  BY <1>4 DEF NextChunk, Become, Advance
<1>5. CASE Send(s)
  BY <1>5 DEF Send, Become
<1>6. CASE SendBroken(s)
  BY <1>6 DEF SendBroken, Become
<1>7. CASE Drain(s)
  BY <1>7 DEF Drain, Advance
<1>8. CASE Exhausted(s)
  BY <1>8 DEF Exhausted, Become, Cleanup
<1>9. CASE GraphFails(s)
  BY <1>9 DEF GraphFails, Become, Cleanup
<1>10. CASE CloseIterator(s)
  BY <1>10 DEF CloseIterator, Become
<1>11. CASE OrphanEnds(s)
  BY <1>11 DEF OrphanEnds, Advance
<1>12. CASE GenStart(s)
  BY <1>12 DEF GenStart, Become, Yield
<1>13. CASE Receive(s)
  BY <1>13 DEF Receive, Yield
<1>14. CASE ReceiveFails(s)
  BY <1>14 DEF ReceiveFails, Yield
<1>15. CASE LeaveLoop(s)
  BY <1>15 DEF LeaveLoop, GoTo
<1>16. CASE Join(s)
  BY <1>16 DEF Join, Yield, GoTo
<1>17. CASE GetState(s)
  BY <1>17 DEF GetState, Yield
<1>18. CASE GetStateFails(s)
  BY <1>18 DEF GetStateFails, Yield
<1>19. CASE Final(s)
  BY <1>19 DEF Final, Yield, GoTo
<1>20. CASE FinalJoin(s)
  BY <1>20 DEF FinalJoin, Yield, GoTo
<1>21. CASE Written(s)
  BY <1>21 DEF Written
<1>22. CASE Finish(s)
  BY <1>22 DEF Finish, GoTo
<1>23. CASE Disconnect(s)
  BY <1>23 DEF Disconnect, Kill, Cleanup, Become
<1>24. CASE Collect(s)
  BY <1>24 DEF Collect, GeneratorExit
<1>25. CASE SendTimeout(s)
  BY <1>25 DEF SendTimeout, GeneratorExit
<1>26. CASE Background(s)
  BY <1>26 DEF Background
<1> QED
  BY <1>1, <1>2, <1>3, <1>4, <1>5, <1>6, <1>7, <1>8, <1>9, <1>10, <1>11, <1>12, <1>13, <1>14,
     <1>15, <1>16, <1>17, <1>18, <1>19, <1>20, <1>21, <1>22, <1>23, <1>24, <1>25, <1>26
  DEF StepOf, ProducerStep, GeneratorStep, ResponseStep, Fault

(* The ends of a sequence that is not empty.                               *)
LEMMA SequenceEnds ==
    ASSUME NEW S, NEW q \in Seq(S), q # <<>>
    PROVE  Head(q) \in S /\ Tail(q) \in Seq(S)
  OBVIOUS

(* The types hold at first,                                                *)
LEMMA ShapesInit == Init => Shapes
  BY TurnsType DEF Init, Shapes, Controls

(* when the generator yields,                                              *)
LEMMA YieldShape ==
    ASSUME Shapes, NEW s \in Streams, NEW event \in Events, NEW l, Yield(s, event, l)
    PROVE  out' \in [Streams -> Seq(Events)]
  BY DEF Shapes, Yield

(* and after every step.                                                   *)
LEMMA ShapesStep ==
    ASSUME Shapes, LeaseInv, NEW s \in Streams, StepOf(s)
    PROVE  Shapes'
<1> USE DEF respVars, genVars, prodVars, pipeVars, gateVars
<1>0. Controls'
  BY LeaseStep DEF StepOf, Next, LeaseInv
<1>1. CASE ChatStream(s)
  BY <1>0, <1>1 DEF Shapes, Controls, ChatStream
<1>2. CASE ApproveStream(s)
  BY <1>0, <1>2 DEF Shapes, Controls, ApproveStream
<1>3. CASE Start(s)
  BY <1>0, <1>3 DEF Shapes, Controls, Start, Become
<1>4. CASE NextChunk(s)
  BY <1>0, <1>4, SequenceEnds DEF Shapes, Controls, NextChunk, Become, Advance
<1>5. CASE Send(s)
  BY <1>0, <1>5 DEF Shapes, Controls, Send, Become
<1>6. CASE SendBroken(s)
  BY <1>0, <1>6 DEF Shapes, Controls, SendBroken, Become
<1>7. CASE Drain(s)
  BY <1>0, <1>7, SequenceEnds DEF Shapes, Controls, Drain, Advance
<1>8. CASE Exhausted(s)
  BY <1>0, <1>8 DEF Shapes, Controls, Exhausted, Become, Cleanup
<1>9. CASE GraphFails(s)
  BY <1>0, <1>9 DEF Shapes, Controls, GraphFails, Become, Cleanup
<1>10. CASE CloseIterator(s)
  BY <1>0, <1>10 DEF Shapes, Controls, CloseIterator, Become
<1>11. CASE OrphanEnds(s)
  <2>1. CASE left[s] # <<>>
    <3>2. left' = [left EXCEPT ![s] = Tail(left[s])]
      BY <1>11, <2>1 DEF OrphanEnds, Advance
    <3>3. Tail(left[s]) \in Seq(Chunks)
      BY <2>1, SequenceEnds DEF Shapes
    <3>1. left' \in [Streams -> Seq(Chunks)]
      BY <3>2, <3>3 DEF Shapes
    <3> QED
      BY <1>0, <1>11, <3>1 DEF Shapes, OrphanEnds
  <2>2. CASE left[s] = <<>>
    BY <1>0, <1>11, <2>2 DEF Shapes, OrphanEnds
  <2> QED
    BY <2>1, <2>2
<1>12. CASE GenStart(s)
  <2>1. out' \in [Streams -> Seq(Events)]
    BY <1>12, YieldShape DEF GenStart, Shapes, Events
  <2> QED
    BY <1>0, <1>12, <2>1 DEF Shapes, Controls, GenStart, Become
<1>13. CASE Receive(s)
  <2>1. out' \in [Streams -> Seq(Events)]
    BY <1>13, YieldShape DEF Receive, Shapes, Events
  <2> QED
    BY <1>0, <1>13, <2>1, SequenceEnds DEF Shapes, Controls, Receive
<1>14. CASE ReceiveFails(s)
  <2>1. out' \in [Streams -> Seq(Events)]
    BY <1>14, YieldShape DEF ReceiveFails, Shapes, Events
  <2> QED
    BY <1>0, <1>14, <2>1, SequenceEnds DEF Shapes, Controls, ReceiveFails
<1>15. CASE LeaveLoop(s)
  BY <1>0, <1>15 DEF Shapes, Controls, LeaveLoop, GoTo
<1>16. CASE Join(s)
  <2>1. out' \in [Streams -> Seq(Events)]
    BY <1>16, YieldShape DEF Join, Shapes, Events, GoTo
  <2> QED
    BY <1>0, <1>16, <2>1 DEF Shapes, Controls, Join
<1>17. CASE GetState(s)
  <2>1. out' \in [Streams -> Seq(Events)]
    BY <1>17, YieldShape DEF GetState, Shapes, Events
  <2> QED
    BY <1>0, <1>17, <2>1 DEF Shapes, Controls, GetState
<1>18. CASE GetStateFails(s)
  <2>1. out' \in [Streams -> Seq(Events)]
    BY <1>18, YieldShape DEF GetStateFails, Shapes, Events
  <2> QED
    BY <1>0, <1>18, <2>1 DEF Shapes, Controls, GetStateFails
<1>19. CASE Final(s)
  <2>1. out' \in [Streams -> Seq(Events)]
    BY <1>19, YieldShape DEF Final, Shapes, Events, GoTo
  <2> QED
    BY <1>0, <1>19, <2>1 DEF Shapes, Controls, Final
<1>20. CASE FinalJoin(s)
  <2>1. out' \in [Streams -> Seq(Events)]
    BY <1>20, YieldShape DEF FinalJoin, Shapes, Events, GoTo
  <2> QED
    BY <1>0, <1>20, <2>1 DEF Shapes, Controls, FinalJoin
<1>21. CASE Written(s)
  BY <1>0, <1>21 DEF Shapes, Controls, Written
<1>22. CASE Finish(s)
  BY <1>0, <1>22 DEF Shapes, Controls, Finish, GoTo
<1>23. CASE Disconnect(s)
  BY <1>0, <1>23 DEF Shapes, Controls, Disconnect, Kill, Cleanup, Become
<1>24. CASE Collect(s)
  BY <1>0, <1>24 DEF Shapes, Controls, Collect, GeneratorExit
<1>25. CASE SendTimeout(s)
  BY <1>0, <1>25 DEF Shapes, Controls, SendTimeout, GeneratorExit
<1>26. CASE Background(s)
  BY <1>0, <1>26 DEF Shapes, Controls, Background
<1> QED
  BY <1>1, <1>2, <1>3, <1>4, <1>5, <1>6, <1>7, <1>8, <1>9, <1>10, <1>11, <1>12, <1>13, <1>14,
     <1>15, <1>16, <1>17, <1>18, <1>19, <1>20, <1>21, <1>22, <1>23, <1>24, <1>25, <1>26
  DEF StepOf, ProducerStep, GeneratorStep, ResponseStep, Fault
-----------------------------------------------------------------------------
(* The client was told some end of its turn,                               *)
Ended(s) == Told(s, "completed") \/ Told(s, "awaiting_approval") \/ Told(s, "error")

(* and that the stream is over.                                            *)
DoneLast(s) == out[s][Len(out[s])] = "done"

(* What the generator has told its client when it is at each of its        *)
(* places, and what it may conclude there of the producer. A cancelled     *)
(* producer has no generator left that could report on its run.            *)
EndOf(s) ==
    /\ http[s] \in {"idle", "409"} => gen[s] = "none"
    /\ s \in gone => http[s] \in {"over", "closed"}
    /\ prod[s] \in {"close", "done"} => left[s] = <<>> \/ s \in failed \/ s \in killed
    /\ s \in failed => prod[s] \in {"close", "done"}
    /\ s \in killed => gen[s] = "closed" /\ prod[s] \in {"close", "done"}
    /\ s \in orphan => s \in killed
    /\ s \in sending => gen[s] \in {"recv", "leave", "final", "end"}
    /\ gen[s] = "state" => prod[s] = "done" /\ s \notin failed
    /\ Told(s, "completed") => prod[s] = "done" /\ s \notin failed /\ s \notin killed
    /\ gen[s] = "leave" => Told(s, "awaiting_approval")
    /\ gen[s] = "final" => Ended(s)
    /\ gen[s] = "finaljoin" /\ http[s] = "streaming" => Ended(s)
    /\ gen[s] = "end" => Ended(s) /\ DoneLast(s)
    /\ http[s] \in {"over", "closed"} /\ s \notin gone => Ended(s) /\ DoneLast(s)

(* What a yield adds to what the client was told,                          *)
LEMMA YieldTells ==
    ASSUME Shapes, NEW s \in Streams, NEW event \in Events, NEW l, Yield(s, event, l)
    PROVE  /\ \A e : Told(s, e)' <=> Told(s, e) \/ e = event
           /\ event = "done" => DoneLast(s)'
           /\ gen'[s] = l /\ \A q : q \in sending' <=> q \in sending \/ q = s
<1>1. out' = [out EXCEPT ![s] = Append(out[s], event)] /\ out \in [Streams -> Seq(Events)]
  BY DEF Yield, Shapes
<1>2. out'[s] = Append(out[s], event) /\ out[s] \in Seq(Events)
  BY <1>1
<1>3. /\ Len(out'[s]) = Len(out[s]) + 1 /\ out'[s][Len(out[s]) + 1] = event
      /\ \A i \in 1..Len(out[s]) : out'[s][i] = out[s][i]
      /\ DOMAIN out'[s] = 1..(Len(out[s]) + 1) /\ DOMAIN out[s] = 1..Len(out[s]) /\ Len(out[s]) \in Nat
  BY <1>2
<1>4. \A e : Told(s, e)' <=> Told(s, e) \/ e = event
  BY <1>3 DEF Told
<1>5. gen'[s] = l /\ \A q : q \in sending' <=> q \in sending \/ q = s
  BY DEF Yield, Shapes, Controls
<1> QED
  BY <1>3, <1>4, <1>5 DEF DoneLast

(* and that nothing else does.                                             *)
LEMMA SilenceTells ==
    ASSUME NEW q, out'[q] = out[q]
    PROVE  (\A e : Told(q, e)' <=> Told(q, e)) /\ (DoneLast(q)' <=> DoneLast(q))
  BY DEF Told, DoneLast

(* EndOf holds at first,                                                   *)
LEMMA EndInit ==
    ASSUME Init, NEW s \in Streams
    PROVE  EndOf(s)
  BY DEF Init, EndOf, Told, Ended

(* of the streams that do not step,                                        *)
LEMMA EndStays ==
    ASSUME NEW q \in Streams, EndOf(q), Untouched(q)
    PROVE  EndOf(q)'
<1>1. (\A e : Told(q, e)' <=> Told(q, e)) /\ (DoneLast(q)' <=> DoneLast(q))
  BY SilenceTells DEF Untouched
<1> QED
  BY <1>1 DEF EndOf, Untouched, Ended

(* and of the one that does.                                               *)
LEMMA EndStep ==
    ASSUME Shapes, LeaseInv, NEW s \in Streams, EndOf(s), StepOf(s)
    PROVE  EndOf(s)'
<1> USE DEF respVars, genVars, prodVars, pipeVars, gateVars
<1> DEFINE Same == (\A e : Told(s, e)' <=> Told(s, e)) /\ (DoneLast(s)' <=> DoneLast(s))
<1>0. s \notin gone => LeaseOf(s)
  BY DEF LeaseInv
<1>1. CASE ChatStream(s)
  <2>1. Same
    BY <1>1, SilenceTells DEF ChatStream
  <2> QED
    BY <1>0, <1>1, <2>1 DEF EndOf, Ended, LeaseOf, Shapes, Controls, ChatStream
<1>2. CASE ApproveStream(s)
  <2>1. Same
    BY <1>2, SilenceTells DEF ApproveStream
  <2> QED
    BY <1>0, <1>2, <2>1 DEF EndOf, Ended, LeaseOf, Shapes, Controls, ApproveStream
<1>3. CASE Start(s)
  <2>1. Same
    BY <1>3, SilenceTells DEF Start
  <2> QED
    BY <1>0, <1>3, <2>1 DEF EndOf, Ended, LeaseOf, Shapes, Controls, Start, Become
<1>4. CASE NextChunk(s)
  <2>1. Same
    BY <1>4, SilenceTells DEF NextChunk
  <2> QED
    BY <1>0, <1>4, <2>1 DEF EndOf, Ended, LeaseOf, Shapes, Controls, NextChunk, Become, Advance
<1>5. CASE Send(s)
  <2>1. Same
    BY <1>5, SilenceTells DEF Send
  <2> QED
    BY <1>0, <1>5, <2>1 DEF EndOf, Ended, LeaseOf, Shapes, Controls, Send, Become
<1>6. CASE SendBroken(s)
  <2>1. Same
    BY <1>6, SilenceTells DEF SendBroken
  <2> QED
    BY <1>0, <1>6, <2>1 DEF EndOf, Ended, LeaseOf, Shapes, Controls, SendBroken, Become
<1>7. CASE Drain(s)
  <2>1. Same
    BY <1>7, SilenceTells DEF Drain
  <2> QED
    BY <1>0, <1>7, <2>1 DEF EndOf, Ended, LeaseOf, Shapes, Controls, Drain, Advance
<1>8. CASE Exhausted(s)
  <2>1. Same
    BY <1>8, SilenceTells DEF Exhausted
  <2> QED
    BY <1>0, <1>8, <2>1 DEF EndOf, Ended, LeaseOf, Shapes, Controls, Exhausted, Become, Cleanup
<1>9. CASE GraphFails(s)
  <2>1. Same
    BY <1>9, SilenceTells DEF GraphFails
  <2> QED
    BY <1>0, <1>9, <2>1 DEF EndOf, Ended, LeaseOf, Shapes, Controls, GraphFails, Become, Cleanup
<1>10. CASE CloseIterator(s)
  <2>1. Same
    BY <1>10, SilenceTells DEF CloseIterator
  <2> QED
    BY <1>0, <1>10, <2>1 DEF EndOf, Ended, LeaseOf, Shapes, Controls, CloseIterator, Become
<1>11. CASE OrphanEnds(s)
  <2>1. Same
    BY <1>11, SilenceTells DEF OrphanEnds
  <2> QED
    BY <1>0, <1>11, <2>1 DEF EndOf, Ended, LeaseOf, Shapes, Controls, OrphanEnds, Advance
<1>12. CASE GenStart(s)
  <2>1. Yield(s, "open", "recv")
    BY <1>12 DEF GenStart
  <2>2. (\A e : Told(s, e)' <=> Told(s, e) \/ e = "open") /\ gen'[s] = "recv" /\ (s \in sending')
    BY <2>1, YieldTells DEF Events
  <2> QED
    BY <1>0, <1>12, <2>2 DEF EndOf, Ended, LeaseOf, Shapes, Controls, GenStart, Become
<1>13. CASE Receive(s)
  <2>1. CASE UNCHANGED genVars
    BY <1>0, <1>13, <2>1, SilenceTells DEF EndOf, Ended, LeaseOf, Shapes, Controls, Receive
  <2>2. ASSUME NEW event \in {"node", "token"}, Yield(s, event, "recv") PROVE EndOf(s)'
    <3>1. (\A e : Told(s, e)' <=> Told(s, e) \/ e = event) /\ gen'[s] = "recv"
      BY <2>2, YieldTells DEF Events
    <3> QED
      BY <1>0, <1>13, <2>2, <3>1 DEF EndOf, Ended, LeaseOf, Shapes, Controls, Receive
  <2>3. CASE Yield(s, "awaiting_approval", "leave")
    <3>1. (\A e : Told(s, e)' <=> Told(s, e) \/ e = "awaiting_approval") /\ gen'[s] = "leave"
      BY <2>3, YieldTells DEF Events
    <3> QED
      BY <1>0, <1>13, <3>1 DEF EndOf, Ended, LeaseOf, Shapes, Controls, Receive
  <2> QED
    BY <1>13, <2>1, <2>2, <2>3 DEF Receive
<1>14. CASE ReceiveFails(s)
  <2>1. Yield(s, "error", "final")
    BY <1>14 DEF ReceiveFails
  <2>2. (\A e : Told(s, e)' <=> Told(s, e) \/ e = "error") /\ gen'[s] = "final" /\ (s \in sending')
    BY <2>1, YieldTells DEF Events
  <2> QED
    BY <1>0, <1>14, <2>2 DEF EndOf, Ended, LeaseOf, Shapes, Controls, ReceiveFails
<1>15. CASE LeaveLoop(s)
  <2>1. Same
    BY <1>15, SilenceTells DEF LeaveLoop, GoTo
  <2> QED
    BY <1>0, <1>15, <2>1 DEF EndOf, Ended, LeaseOf, Shapes, Controls, LeaveLoop, GoTo
<1>16. CASE Join(s)
  <2>1. CASE s \in failed
    <3>1. Yield(s, "error", "final")
      BY <1>16, <2>1 DEF Join
    <3>2. (\A e : Told(s, e)' <=> Told(s, e) \/ e = "error") /\ gen'[s] = "final"
      BY <3>1, YieldTells DEF Events
    <3> QED
      BY <1>0, <1>16, <2>1, <3>2 DEF EndOf, Ended, LeaseOf, Shapes, Controls, Join
  <2>2. CASE s \notin failed
    <3>1. GoTo(s, IF Awaiting(s) THEN "final" ELSE "state")
      BY <1>16, <2>2 DEF Join
    <3>2. Same
      BY <3>1, SilenceTells DEF GoTo
    <3>3. gen'[s] = IF Told(s, "awaiting_approval") THEN "final" ELSE "state"
      BY <3>1 DEF GoTo, Awaiting, Told, Shapes, Controls
    <3> QED
      BY <1>0, <1>16, <2>2, <3>1, <3>2, <3>3 DEF EndOf, Ended, LeaseOf, Shapes, Controls, Join, GoTo
  <2> QED
    BY <2>1, <2>2
<1>17. CASE GetState(s)
  <2>1. Yield(s, "completed", "final")
    BY <1>17 DEF GetState
  <2>2. (\A e : Told(s, e)' <=> Told(s, e) \/ e = "completed") /\ gen'[s] = "final" /\ (s \in sending')
    BY <2>1, YieldTells DEF Events
  <2> QED
    BY <1>0, <1>17, <2>2 DEF EndOf, Ended, LeaseOf, Shapes, Controls, GetState
<1>18. CASE GetStateFails(s)
  <2>1. Yield(s, "error", "final")
    BY <1>18 DEF GetStateFails
  <2>2. (\A e : Told(s, e)' <=> Told(s, e) \/ e = "error") /\ gen'[s] = "final" /\ (s \in sending')
    BY <2>1, YieldTells DEF Events
  <2> QED
    BY <1>0, <1>18, <2>2 DEF EndOf, Ended, LeaseOf, Shapes, Controls, GetStateFails
<1>19. CASE Final(s)
  <2>1. CASE prod[s] = "done"
    <3>1. Yield(s, "done", "end")
      BY <1>19, <2>1 DEF Final
    <3>2. (\A e : Told(s, e)' <=> Told(s, e) \/ e = "done") /\ gen'[s] = "end" /\ DoneLast(s)'
      BY <3>1, YieldTells DEF Events
    <3> QED
      BY <1>0, <1>19, <2>1, <3>2 DEF EndOf, Ended, LeaseOf, Shapes, Controls, Final
  <2>2. CASE prod[s] # "done"
    <3>1. GoTo(s, "finaljoin")
      BY <1>19, <2>2 DEF Final
    <3>2. Same
      BY <3>1, SilenceTells DEF GoTo
    <3> QED
      BY <1>0, <1>19, <2>2, <3>1, <3>2 DEF EndOf, Ended, LeaseOf, Shapes, Controls, Final, GoTo
  <2> QED
    BY <2>1, <2>2
<1>20. CASE FinalJoin(s)
  <2>1. CASE http[s] = "streaming"
    <3>1. Yield(s, "done", "end")
      BY <1>20, <2>1 DEF FinalJoin
    <3>2. (\A e : Told(s, e)' <=> Told(s, e) \/ e = "done") /\ gen'[s] = "end" /\ DoneLast(s)'
      BY <3>1, YieldTells DEF Events
    <3> QED
      BY <1>0, <1>20, <2>1, <3>2 DEF EndOf, Ended, LeaseOf, Shapes, Controls, FinalJoin
  <2>2. CASE http[s] # "streaming"
    <3>1. GoTo(s, "closed")
      BY <1>20, <2>2 DEF FinalJoin
    <3>2. Same
      BY <3>1, SilenceTells DEF GoTo
    <3>3. http'[s] = (IF http[s] = "teardown" THEN "failed" ELSE http[s]) /\ gen'[s] = "closed"
      BY <1>20, <3>1 DEF FinalJoin, GoTo, Shapes, Controls
    <3> QED
      BY <1>0, <1>20, <2>2, <3>1, <3>2, <3>3 DEF EndOf, Ended, LeaseOf, FinalJoin, GoTo
  <2> QED
    BY <2>1, <2>2
<1>21. CASE Written(s)
  <2>1. Same
    BY <1>21, SilenceTells DEF Written
  <2> QED
    BY <1>0, <1>21, <2>1 DEF EndOf, Ended, LeaseOf, Shapes, Controls, Written
<1>22. CASE Finish(s)
  <2>1. Same
    BY <1>22, SilenceTells DEF Finish, GoTo
  <2> QED
    BY <1>0, <1>22, <2>1 DEF EndOf, Ended, LeaseOf, Shapes, Controls, Finish, GoTo
<1>23. CASE Disconnect(s)
  <2>1. Same
    BY <1>23, SilenceTells DEF Disconnect
  <2> QED
    BY <1>0, <1>23, <2>1 DEF EndOf, Ended, LeaseOf, Shapes, Controls, Disconnect, Kill, Cleanup, Become
<1>24. CASE Collect(s)
  <2>1. Same
    BY <1>24, SilenceTells DEF Collect, GeneratorExit
  <2> QED
    BY <1>0, <1>24, <2>1 DEF EndOf, Ended, LeaseOf, Shapes, Controls, Collect, GeneratorExit
<1>25. CASE SendTimeout(s)
  <2>1. Same
    BY <1>25, SilenceTells DEF SendTimeout, GeneratorExit
  <2> QED
    BY <1>0, <1>25, <2>1 DEF EndOf, Ended, LeaseOf, Shapes, Controls, SendTimeout, GeneratorExit
<1>26. CASE Background(s)
  <2>1. Same
    BY <1>26, SilenceTells DEF Background
  <2> QED
    BY <1>0, <1>26, <2>1 DEF EndOf, Ended, LeaseOf, Shapes, Controls, Background
<1> QED
  BY <1>1, <1>2, <1>3, <1>4, <1>5, <1>6, <1>7, <1>8, <1>9, <1>10, <1>11, <1>12, <1>13, <1>14,
     <1>15, <1>16, <1>17, <1>18, <1>19, <1>20, <1>21, <1>22, <1>23, <1>24, <1>25, <1>26
  DEF StepOf, ProducerStep, GeneratorStep, ResponseStep, Fault

(* How much of the run is left when the generator waits for the producer,  *)
(* the only place where a cancellation of the one reaches the other. A     *)
(* generator waits there because the interrupt has come, the last chunk of *)
(* its run, or because the run is over, or because a write timed out.      *)
KillOf(s) ==
    /\ \A i \in 1..Len(left[s]) : left[s][i] = "interrupt" => i = Len(left[s])
    /\ prod[s] = "send" /\ item[s] = "interrupt" => left[s] = <<>>
    /\ (\E i \in 1..Len(buf[s]) : buf[s][i] = "interrupt") => left[s] = <<>>
    /\ s \in sclosed => prod[s] \in {"close", "done"}
    /\ gen[s] = "leave" => left[s] = <<>>
    /\ gen[s] \in {"join", "state", "final"} => left[s] = <<>> \/ prod[s] \in {"close", "done"}
    /\ gen[s] = "finaljoin" /\ http[s] \in {"streaming", "teardown"}
          => left[s] = <<>> \/ prod[s] \in {"close", "done"} \/ s \in slow
    /\ s \in killed /\ left[s] # <<>> => s \in slow /\ s \in gone

(* KillOf holds at first: an interrupt is the last chunk of a run,         *)
LEMMA KillInit ==
    ASSUME Init, NEW s \in Streams
    PROVE  KillOf(s)
<1>1. left[s] \in TurnsOf[s]
  BY DEF Init
<1> QED
  BY <1>1, InterruptLast DEF Init, KillOf

(* of the streams that do not step,                                        *)
LEMMA KillStays ==
    ASSUME NEW q \in Streams, KillOf(q), Untouched(q)
    PROVE  KillOf(q)'
  BY DEF KillOf, Untouched

(* and of the one that does.                                               *)
LEMMA KillStep ==
    ASSUME Shapes, LeaseInv, NEW s \in Streams, EndOf(s), KillOf(s), StepOf(s)
    PROVE  KillOf(s)'
<1> USE DEF respVars, genVars, prodVars, pipeVars, gateVars
<1>1. CASE ChatStream(s)
  BY <1>1 DEF EndOf, KillOf, Shapes, Controls, ChatStream
<1>2. CASE ApproveStream(s)
  BY <1>2 DEF EndOf, KillOf, Shapes, Controls, ApproveStream
<1>3. CASE Start(s)
  BY <1>3 DEF EndOf, KillOf, Shapes, Controls, Start, Become
<1>4. CASE NextChunk(s)
  BY <1>4 DEF EndOf, KillOf, Shapes, Controls, NextChunk, Become, Advance
<1>5. CASE Send(s)
  BY <1>5 DEF EndOf, KillOf, Shapes, Controls, Send, Become
<1>6. CASE SendBroken(s)
  BY <1>6 DEF EndOf, KillOf, Shapes, Controls, SendBroken, Become
<1>7. CASE Drain(s)
  BY <1>7 DEF EndOf, KillOf, Shapes, Controls, Drain, Advance
<1>8. CASE Exhausted(s)
  BY <1>8 DEF EndOf, KillOf, Shapes, Controls, Exhausted, Become, Cleanup
<1>9. CASE GraphFails(s)
  BY <1>9 DEF EndOf, KillOf, Shapes, Controls, GraphFails, Become, Cleanup
<1>10. CASE CloseIterator(s)
  BY <1>10 DEF EndOf, KillOf, Shapes, Controls, CloseIterator, Become
<1>11. CASE OrphanEnds(s)
  <2>1. CASE left[s] # <<>>
    <3>1. left'[s] = Tail(left[s]) /\ left[s] \in Seq(Chunks)
      BY <1>11, <2>1 DEF OrphanEnds, Advance, Shapes
    <3> QED
      BY <1>11, <2>1, <3>1 DEF KillOf, OrphanEnds
  <2>2. CASE left[s] = <<>>
    BY <1>11, <2>2 DEF KillOf, OrphanEnds
  <2> QED
    BY <2>1, <2>2
<1>12. CASE GenStart(s)
  <2>1. LeaseOf(s)
    BY <1>12 DEF GenStart, EndOf, LeaseInv
  <2> QED
    BY <1>12, <2>1 DEF LeaseOf, KillOf, Shapes, Controls, GenStart, Become, Yield
<1>13. CASE Receive(s)
  BY <1>13 DEF EndOf, KillOf, Shapes, Controls, Receive, Yield
<1>14. CASE ReceiveFails(s)
  BY <1>14 DEF EndOf, KillOf, Shapes, Controls, ReceiveFails, Yield
<1>15. CASE LeaveLoop(s)
  BY <1>15 DEF EndOf, KillOf, Shapes, Controls, LeaveLoop, GoTo
<1>16. CASE Join(s)
  BY <1>16 DEF EndOf, KillOf, Shapes, Controls, Join, Yield, GoTo
<1>17. CASE GetState(s)
  BY <1>17 DEF EndOf, KillOf, Shapes, Controls, GetState, Yield
<1>18. CASE GetStateFails(s)
  BY <1>18 DEF EndOf, KillOf, Shapes, Controls, GetStateFails, Yield
<1>19. CASE Final(s)
  BY <1>19 DEF EndOf, KillOf, Shapes, Controls, Final, Yield, GoTo
<1>20. CASE FinalJoin(s)
  BY <1>20 DEF EndOf, KillOf, Shapes, Controls, FinalJoin, Yield, GoTo
<1>21. CASE Written(s)
  BY <1>21 DEF EndOf, KillOf, Shapes, Controls, Written
<1>22. CASE Finish(s)
  BY <1>22 DEF EndOf, KillOf, Shapes, Controls, Finish, GoTo
<1>23. CASE Disconnect(s)
  BY <1>23 DEF EndOf, KillOf, Shapes, Controls, Disconnect, Kill, Cleanup, Become
<1>24. CASE Collect(s)
  BY <1>24 DEF EndOf, KillOf, Shapes, Controls, Collect, GeneratorExit
<1>25. CASE SendTimeout(s)
  BY <1>25 DEF EndOf, KillOf, Shapes, Controls, SendTimeout, GeneratorExit
<1>26. CASE Background(s)
  BY <1>26 DEF EndOf, KillOf, Shapes, Controls, Background
<1> QED
  BY <1>1, <1>2, <1>3, <1>4, <1>5, <1>6, <1>7, <1>8, <1>9, <1>10, <1>11, <1>12, <1>13, <1>14,
     <1>15, <1>16, <1>17, <1>18, <1>19, <1>20, <1>21, <1>22, <1>23, <1>24, <1>25, <1>26
  DEF StepOf, ProducerStep, GeneratorStep, ResponseStep, Fault

(* The inductive invariant.                                                *)
StreamInv ==
    /\ LeaseInv /\ Shapes
    /\ \A s \in Streams : EndOf(s) /\ KillOf(s)

(* It holds throughout: LeaseInv with what it says of every stream.        *)
LEMMA StreamInvHolds == Spec => []StreamInv
<1>1. Init => StreamInv
  BY LeaseInit, ShapesInit, EndInit, KillInit DEF StreamInv
<1>2. StreamInv /\ [Next]_vars => StreamInv'
  <2> SUFFICES ASSUME StreamInv, [Next]_vars PROVE StreamInv'
    OBVIOUS
  <2>1. LeaseInv'
    BY LeaseStep DEF StreamInv
  <2>2. CASE UNCHANGED vars
    <3>1. Shapes' /\ \A q \in Streams : Untouched(q)
      BY <2>2 DEF StreamInv, Shapes, Controls, Untouched, vars, respVars, genVars, prodVars, pipeVars
    <3> QED
      BY <2>1, <3>1, EndStays, KillStays DEF StreamInv
  <2>3. ASSUME NEW s \in Streams, StepOf(s) PROVE StreamInv'
    <3>1. Shapes'
      BY <2>3, ShapesStep DEF StreamInv
    <3>2. EndOf(s)' /\ KillOf(s)'
      BY <2>3, EndStep, KillStep DEF StreamInv
    <3>3. \A q \in Streams : q # s => EndOf(q)' /\ KillOf(q)'
      BY <2>3, Alone, EndStays, KillStays DEF StreamInv
    <3> QED
      BY <2>1, <3>1, <3>2, <3>3 DEF StreamInv
  <2> QED
    BY <2>2, <2>3 DEF Next, StepOf
<1> QED
  BY <1>1, <1>2, PTL DEF Spec

(* A client is told that its turn is completed only if the run has ended   *)
(* without failing, and a client that stays is told some end and then done *)
(* (_stream_lifecycle): for any number of streams and chunks, any buffer,  *)
(* and whatever fails, leaves or times out on the way.                     *)
THEOREM EndReportedHolds == Spec => []EndReported
<1>1. StreamInv => EndReported
  BY DEF StreamInv, EndOf, EndReported, Ended, DoneLast
<1> QED
  BY <1>1, StreamInvHolds, PTL

(* A client that goes away does not stop its run, unless it let a write    *)
(* time out before: Disconnect cancels the producer with the generator     *)
(* that awaits it, and finds a run that is not over only in that case      *)
(* (_stream_lifecycle, run_graph_stream).                                  *)
THEOREM OnlyTeardownKillsHolds == Spec => []OnlyTeardownKills
<1>1. StreamInv => OnlyTeardownKills
  BY DEF StreamInv, Shapes, KillOf, OnlyTeardownKills
<1> QED
  BY <1>1, StreamInvHolds, PTL
-----------------------------------------------------------------------------
(* What the buffer carries                                                 *)

(* While the generator listens, after n chunks of the run: what it has not *)
(* received is in the buffer, in the producer's hand or still to come, in  *)
(* the order of the run.                                                   *)
Piped(s, n) ==
    /\ s \notin rclosed /\ prod[s] \notin {"drain", "none"}
    /\ n + Len(buf[s]) + (IF prod[s] = "send" THEN 1 ELSE 0) + Len(left[s]) = Len(turn[s])
    /\ \A i \in 1..Len(buf[s]) : buf[s][i] = turn[s][n + i]
    /\ prod[s] = "send" => item[s] = turn[s][n + Len(buf[s]) + 1]
    /\ \A i \in 1..Len(left[s]) : left[s][i] = turn[s][Len(turn[s]) - Len(left[s]) + i]

(* What a client has seen when its generator has taken n chunks, and that  *)
(* these are all once it goes on to report the end of the run.             *)
PipeAt(s, n) ==
    /\ Shows(out[s], turn[s], n)
    /\ Told(s, "completed") \/ Told(s, "awaiting_approval") => n = Len(turn[s])
    /\ gen[s] = "state" => n = Len(turn[s])
    /\ gen[s] = "join" => Told(s, "awaiting_approval") \/ s \in failed \/ n = Len(turn[s])
    /\ gen[s] = "none" =>
          /\ prod[s] = "none" /\ n = 0 /\ s \notin rclosed
          /\ buf[s] = <<>> /\ left[s] = turn[s]
    /\ gen[s] = "recv" => Piped(s, n)

(* A run ends with the chunk that interrupts it.                           *)
Turns ==
    /\ turn \in [Streams -> Seq(Chunks)]
    /\ \A s \in Streams : \A i \in 1..Len(turn[s]) :
          turn[s][i] = "interrupt" => i = Len(turn[s])

(* PipeAt of every stream, for the chunks its generator has taken.         *)
PipeInv == Turns /\ \A s \in Streams : \E n \in 0..Len(turn[s]) : PipeAt(s, n)

(* Nothing is shown of nothing.                                            *)
LEMMA ShowsNothing ==
    ASSUME NEW t \in Seq(Chunks)
    PROVE  Shows(<<>>, t, 0)
<1>1. ShownAt(<<>>) = {} /\ {k \in ShownAt(t) : k <= 0} = {}
  BY DEF ShownAt
<1> DEFINE at == [i \in {} |-> i]
<1>2. at \in [{} -> {}]
  OBVIOUS
<1> HIDE DEF at
<1> QED
  BY <1>1, <1>2 DEF Shows

(* Equal events show the same of equal chunks.                             *)
LEMMA ShowsSame ==
    ASSUME NEW o, NEW t, NEW n, Shows(o, t, n), NEW p, p = o, NEW u, u = t
    PROVE  Shows(p, u, n)
  OBVIOUS

(* The positions of a sequence that grows by one element.                  *)
LEMMA Grown ==
    ASSUME NEW S, NEW o \in Seq(S), NEW e \in S, NEW p, p = Append(o, e)
    PROVE  /\ Len(o) \in Nat /\ Len(p) = Len(o) + 1 /\ p[Len(o) + 1] = e
           /\ DOMAIN o = 1..Len(o) /\ DOMAIN p = 1..(Len(o) + 1)
           /\ \A i \in 1..Len(o) : p[i] = o[i]
  OBVIOUS

(* An event of another kind shows nothing.                                 *)
LEMMA ShowsSilent ==
    ASSUME NEW o \in Seq(Events), NEW e \in Events, e \notin {"node", "token"},
           NEW t \in Seq(Chunks), NEW n \in Nat, Shows(o, t, n),
           NEW p, p = Append(o, e)
    PROVE  Shows(p, t, n)
<1>1. ShownAt(p) = ShownAt(o) /\ \A i \in ShownAt(o) : p[i] = o[i]
  BY Grown DEF ShownAt
<1> DEFINE due == {k \in ShownAt(t) : k <= n}
<1>2. PICK at \in [ShownAt(o) -> due] :
          /\ \A i \in ShownAt(o) : o[i] = t[at[i]]
          /\ \A i, j \in ShownAt(o) : i < j => at[i] < at[j]
          /\ \A k \in due : \E i \in ShownAt(o) : at[i] = k
  BY DEF Shows
<1>3. /\ at \in [ShownAt(p) -> due]
      /\ \A i \in ShownAt(p) : p[i] = t[at[i]]
      /\ \A i, j \in ShownAt(p) : i < j => at[i] < at[j]
      /\ \A k \in due : \E i \in ShownAt(p) : at[i] = k
  BY <1>1, <1>2
<1> QED
  BY <1>3 DEF Shows

(* A chunk of another kind is nothing to show.                             *)
LEMMA ShowsSkip ==
    ASSUME NEW o, NEW t \in Seq(Chunks), NEW n \in Nat, Shows(o, t, n),
           t[n + 1] \notin {"node", "token"}
    PROVE  Shows(o, t, n + 1)
<1>1. \A k \in ShownAt(t) : k <= n + 1 <=> k <= n
  <2>1. DOMAIN t = 1..Len(t) /\ Len(t) \in Nat
    OBVIOUS
  <2> QED
    BY <2>1 DEF ShownAt
<1>2. {k \in ShownAt(t) : k <= n + 1} = {k \in ShownAt(t) : k <= n}
  BY <1>1
<1> QED
  BY <1>2 DEF Shows

(* The next chunk is shown by an event of its name.                        *)
LEMMA ShowsNext ==
    ASSUME NEW o \in Seq(Events), NEW e \in Events, e \in {"node", "token"},
           NEW t \in Seq(Chunks), NEW n \in Nat, Shows(o, t, n),
           n + 1 \in 1..Len(t), t[n + 1] = e,
           NEW p, p = Append(o, e)
    PROVE  Shows(p, t, n + 1)
<1> DEFINE l == Len(o) + 1
           due == {k \in ShownAt(t) : k <= n}
           next == {k \in ShownAt(t) : k <= n + 1}
<1>1. PICK at \in [ShownAt(o) -> due] :
          /\ \A i \in ShownAt(o) : o[i] = t[at[i]]
          /\ \A i, j \in ShownAt(o) : i < j => at[i] < at[j]
          /\ \A k \in due : \E i \in ShownAt(o) : at[i] = k
  BY DEF Shows
<1>2. /\ l \in Nat /\ p[l] = e /\ l \notin ShownAt(o)
      /\ ShownAt(p) = ShownAt(o) \union {l}
      /\ \A i \in ShownAt(o) : p[i] = o[i] /\ i \in Nat /\ i < l
  BY Grown DEF ShownAt
<1>3. /\ next = due \union {n + 1} /\ n + 1 \notin due
      /\ \A k \in due : k \in Nat /\ k < n + 1
  BY DEF ShownAt
<1> HIDE DEF l, due, next
<1> DEFINE to == [i \in ShownAt(p) |-> IF i = l THEN n + 1 ELSE at[i]]
<1>4. to[l] = n + 1 /\ \A i \in ShownAt(o) : to[i] = at[i]
  BY <1>2
<1>5. to \in [ShownAt(p) -> next]
  BY <1>1, <1>2, <1>3
<1> HIDE DEF to
<1>6. \A i \in ShownAt(p) : p[i] = t[to[i]]
  BY <1>1, <1>2, <1>4
<1>7. \A i, j \in ShownAt(p) : i < j => to[i] < to[j]
  <2> SUFFICES ASSUME NEW i \in ShownAt(p), NEW j \in ShownAt(p), i < j
               PROVE  to[i] < to[j]
    OBVIOUS
  <2>1. i \in ShownAt(o)
    BY <1>2
  <2>2. CASE j = l
    BY <2>1, <2>2, <1>1, <1>3, <1>4
  <2>3. CASE j # l
    BY <2>1, <2>3, <1>1, <1>2, <1>4
  <2> QED
    BY <2>2, <2>3
<1>8. \A k \in next : \E i \in ShownAt(p) : to[i] = k
  <2> SUFFICES ASSUME NEW k \in next PROVE \E i \in ShownAt(p) : to[i] = k
    OBVIOUS
  <2>1. CASE k = n + 1
    BY <2>1, <1>2, <1>4
  <2>2. CASE k \in due
    <3>1. PICK i \in ShownAt(o) : at[i] = k
      BY <2>2, <1>1
    <3> QED
      BY <3>1, <1>2, <1>4
  <2> QED
    BY <2>1, <2>2, <1>3
<1> QED
  BY <1>5, <1>6, <1>7, <1>8 DEF Shows, next

(* Head and tail by position.                                              *)
LEMMA Shifted ==
    ASSUME NEW S, NEW q \in Seq(S), q # <<>>
    PROVE  /\ Len(q) \in Nat \ {0} /\ Head(q) = q[1] /\ Head(q) \in S
           /\ Tail(q) \in Seq(S) /\ Len(Tail(q)) = Len(q) - 1
           /\ \A i \in 1..(Len(q) - 1) : Tail(q)[i] = q[i + 1]
  OBVIOUS

(* A run is fixed when the stream starts.                                  *)
LEMMA TurnStays ==
    ASSUME NEW s \in Streams, StepOf(s)
    PROVE  turn' = turn
<1> USE DEF prodVars
<1>1. ProducerStep(s) => turn' = turn
  BY DEF ProducerStep, Start, NextChunk, Send, SendBroken, Drain, Exhausted, CloseIterator, OrphanEnds
<1>2. GeneratorStep(s) => turn' = turn
  BY DEF GeneratorStep, GenStart, Receive, LeaveLoop, Join, GetState, Final, FinalJoin, Collect
<1>3. ResponseStep(s) \/ ChatStream(s) \/ ApproveStream(s) => turn' = turn
  BY DEF ResponseStep, Written, Finish, Background, ChatStream, ApproveStream
<1>4. Fault(s) => turn' = turn
  BY DEF Fault, GraphFails, ReceiveFails, GetStateFails, Disconnect, SendTimeout
<1> QED
  BY <1>1, <1>2, <1>3, <1>4 DEF StepOf

(* PipeAt holds at first of no chunk,                                      *)
LEMMA PipeInit ==
    ASSUME Init
    PROVE  PipeInv
<1>1. turn \in [Streams -> Seq(Chunks)]
  <2>1. turn \in [Streams -> UNION {TurnsOf[s] : s \in Streams}] /\ \A s \in Streams : turn[s] \in TurnsOf[s]
    BY DEF Init
  <2>2. \A s \in Streams : turn[s] \in Seq(Chunks)
    BY <2>1, TurnsType
  <2> QED
    BY <2>1, <2>2
<1>2. Turns
  BY <1>1, InterruptLast DEF Init, Turns
<1>3. ASSUME NEW s \in Streams
      PROVE  0 \in 0..Len(turn[s]) /\ PipeAt(s, 0)
  <2>1. Shows(out[s], turn[s], 0)
    BY <1>1, ShowsNothing DEF Init
  <2>2. ~Told(s, "completed") /\ ~Told(s, "awaiting_approval")
    BY DEF Init, Told
  <2>3. Len(turn[s]) \in Nat
    BY <1>1
  <2> QED
    BY <2>1, <2>2, <2>3 DEF Init, PipeAt
<1> QED
  BY <1>2, <1>3 DEF PipeInv

(* of the streams that do not step,                                        *)
LEMMA PipeStays ==
    ASSUME NEW q \in Streams, NEW n, PipeAt(q, n), Untouched(q), turn'[q] = turn[q]
    PROVE  PipeAt(q, n)'
<1>1. \A e : Told(q, e)' <=> Told(q, e)
  BY SilenceTells DEF Untouched
<1> QED
  BY <1>1 DEF PipeAt, Piped, Untouched

(* when the generator says nothing,                                        *)
LEMMA PipeQuiet ==
    ASSUME NEW s \in Streams, NEW n, PipeAt(s, n), turn' = turn, out'[s] = out[s],
           gen'[s] = "state" => n = Len(turn[s]),
           gen'[s] = "join" =>
              Told(s, "awaiting_approval") \/ s \in failed' \/ n = Len(turn[s]),
           gen'[s] = "recv" => Piped(s, n)',
           gen'[s] # "none"
    PROVE  PipeAt(s, n)'
<1>1. \A e : Told(s, e)' <=> Told(s, e)
  BY SilenceTells
<1> QED
  BY <1>1 DEF PipeAt

(* and when it yields something else than a chunk.                         *)
LEMMA PipeSaid ==
    ASSUME StreamInv, Turns, NEW s \in Streams, NEW n \in 0..Len(turn[s]), PipeAt(s, n),
           turn' = turn,
           NEW event \in {"open", "error", "completed", "done"},
           event = "completed" => n = Len(turn[s]),
           NEW l \in {"recv", "final", "end"}, Yield(s, event, l),
           l = "recv" => Piped(s, n)'
    PROVE  PipeAt(s, n)'
<1>1. event \in Events /\ event \notin {"node", "token"} /\ event # "awaiting_approval"
  BY DEF Events
<1>2. gen'[s] = l /\ \A e : Told(s, e)' <=> Told(s, e) \/ e = event
  BY <1>1, YieldTells DEF StreamInv
<1>3. out'[s] = Append(out[s], event) /\ out[s] \in Seq(Events) /\ turn[s] \in Seq(Chunks) /\ n \in Nat
  BY DEF Yield, StreamInv, Shapes, Turns
<1>4. Shows(out'[s], turn[s], n)
  BY <1>1, <1>3, ShowsSilent DEF PipeAt
<1> QED
  BY <1>1, <1>2, <1>4 DEF PipeAt

(* A step of the producer, whose generator stays where it is.              *)
LEMMA PipeOn ==
    ASSUME NEW s \in Streams, NEW n, PipeAt(s, n), turn' = turn, out'[s] = out[s],
           gen'[s] = gen[s], gen[s] # "none", s \in failed => s \in failed',
           gen[s] = "recv" => Piped(s, n)'
    PROVE  PipeAt(s, n)'
<1>1. /\ gen[s] = "state" => n = Len(turn[s])
      /\ gen[s] = "join" => Told(s, "awaiting_approval") \/ s \in failed \/ n = Len(turn[s])
  BY DEF PipeAt
<1> QED
  BY <1>1, PipeQuiet

(* The producer of a listening generator: a chunk moves from the graph to  *)
(* its hand, or from there into the buffer, or none moves.                 *)
LEMMA PipeProducer ==
    ASSUME StreamInv, Turns, NEW s \in Streams, NEW n \in 0..Len(turn[s]), PipeAt(s, n),
           turn' = turn, ProducerStep(s) \/ GraphFails(s)
    PROVE  PipeAt(s, n)'
<1> USE DEF respVars, genVars, prodVars, pipeVars, gateVars
<1>0. /\ Shapes /\ EndOf(s) /\ KillOf(s) /\ n \in Nat
      /\ left[s] \in Seq(Chunks) /\ buf[s] \in Seq(Chunks) /\ turn[s] \in Seq(Chunks)
      /\ Len(left[s]) \in Nat /\ Len(buf[s]) \in Nat /\ Len(turn[s]) \in Nat
  BY DEF StreamInv, Shapes, Turns
<1>1. CASE Start(s)
  <2>1. gen[s] = "recv" => Piped(s, n)'
    BY <1>0, <1>1 DEF Start, Become, Shapes, Controls, PipeAt, Piped
  <2> QED
    BY <1>1, <2>1, PipeOn DEF Start, PipeAt
<1>2. CASE NextChunk(s)
  <2>1. ASSUME gen[s] = "recv" PROVE Piped(s, n)'
    <3>1. /\ prod[s] = "next" /\ prod'[s] = "send" /\ rclosed' = rclosed /\ buf' = buf
          /\ left[s] # <<>> /\ left'[s] = Tail(left[s]) /\ item'[s] = Head(left[s])
      BY <1>0, <1>2 DEF NextChunk, Become, Advance, Shapes, Controls
    <3>2. Piped(s, n)
      BY <2>1 DEF PipeAt
    <3> DEFINE a == Len(left[s])
               b == Len(buf[s])
               c == Len(turn[s])
    <3>3. a \in Nat \ {0} /\ b \in Nat /\ c \in Nat /\ n + b + a = c
      <4>1. a \in Nat \ {0}
        BY <1>0, <3>1, Shifted
      <4>2. n + b + 0 + a = c
        BY <3>1, <3>2 DEF Piped
      <4>3. b \in Nat /\ c \in Nat /\ n \in Nat
        BY <1>0
      <4> HIDE DEF a, b, c
      <4> QED
        BY <4>1, <4>2, <4>3
    <3>4. Len(left'[s]) = a - 1 /\ \A i \in 1..(a - 1) : left'[s][i] = left[s][i + 1]
      BY <1>0, <3>1, Shifted
    <3>5. item'[s] = left[s][1]
      BY <1>0, <3>1, Shifted
    <3>6. \A i \in 1..a : left[s][i] = turn[s][c - a + i]
      BY <3>2 DEF Piped
    <3> HIDE DEF a, b, c
    <3>7. item'[s] = turn[s][n + b + 1]
      <4>1. 1 \in 1..a /\ c - a + 1 = n + b + 1
        BY <3>3
      <4> QED
        BY <4>1, <3>5, <3>6
    <3>8. \A i \in 1..(a - 1) : left'[s][i] = turn[s][c - (a - 1) + i]
      <4> SUFFICES ASSUME NEW i \in 1..(a - 1) PROVE left'[s][i] = turn[s][c - (a - 1) + i]
        OBVIOUS
      <4>1. i + 1 \in 1..a /\ c - a + (i + 1) = c - (a - 1) + i
        BY <3>3
      <4> QED
        BY <4>1, <3>4, <3>6
    <3>9. n + b + 1 + (a - 1) = c
      BY <3>3
    <3> QED
      BY <3>1, <3>2, <3>4, <3>7, <3>8, <3>9 DEF Piped, a, b, c
  <2> QED
    BY <1>2, <2>1, PipeOn DEF NextChunk, PipeAt
<1>3. CASE Send(s)
  <2>1. ASSUME gen[s] = "recv" PROVE Piped(s, n)'
    <3>1. /\ prod[s] = "send" /\ prod'[s] = "next" /\ rclosed' = rclosed /\ left' = left
          /\ buf'[s] = Append(buf[s], item[s]) /\ item[s] \in Chunks
      BY <1>0, <1>3 DEF Send, Become, Shapes, Controls
    <3>2. Piped(s, n)
      BY <2>1 DEF PipeAt
    <3> DEFINE b == Len(buf[s])
    <3>3. /\ b \in Nat /\ Len(buf'[s]) = b + 1 /\ buf'[s][b + 1] = item[s]
          /\ \A i \in 1..b : buf'[s][i] = buf[s][i]
      BY <1>0, <3>1, Grown
    <3>4. /\ \A i \in 1..b : buf[s][i] = turn[s][n + i]
          /\ item[s] = turn[s][n + b + 1]
          /\ n + b + 1 + Len(left[s]) = Len(turn[s])
      BY <3>1, <3>2 DEF Piped
    <3> HIDE DEF b
    <3>5. n + (b + 1) + 0 + Len(left[s]) = Len(turn[s])
      BY <1>0, <3>3, <3>4
    <3>6. \A i \in 1..(b + 1) : buf'[s][i] = turn[s][n + i]
      <4> SUFFICES ASSUME NEW i \in 1..(b + 1) PROVE buf'[s][i] = turn[s][n + i]
        OBVIOUS
      <4>1. CASE i = b + 1
        <5>1. n + i = n + b + 1
          BY <1>0, <3>3, <4>1
        <5> QED
          BY <5>1, <4>1, <3>3, <3>4
      <4>2. CASE i # b + 1
        BY <4>2, <3>3, <3>4
      <4> QED
        BY <4>1, <4>2
    <3> QED
      BY <3>1, <3>2, <3>3, <3>5, <3>6 DEF Piped
  <2> QED
    BY <1>3, <2>1, PipeOn DEF Send, PipeAt
<1>4. CASE SendBroken(s)
  BY <1>4, PipeOn DEF SendBroken, PipeAt, Piped
<1>5. CASE Drain(s)
  BY <1>5, PipeOn DEF Drain, PipeAt, Piped
<1>6. CASE Exhausted(s)
  <2>1. gen[s] = "recv" => Piped(s, n)'
    BY <1>0, <1>6 DEF Exhausted, Cleanup, Become, Shapes, Controls, PipeAt, Piped
  <2> QED
    BY <1>6, <2>1, PipeOn DEF Exhausted, PipeAt
<1>7. CASE GraphFails(s)
  <2>1. gen[s] = "recv" => Piped(s, n)'
    BY <1>0, <1>7 DEF GraphFails, Cleanup, Become, Shapes, Controls, PipeAt, Piped
  <2> QED
    BY <1>7, <2>1, PipeOn DEF GraphFails, PipeAt
<1>8. CASE CloseIterator(s)
  <2>1. gen[s] = "recv" => Piped(s, n)'
    BY <1>0, <1>8 DEF CloseIterator, Become, Shapes, Controls, PipeAt, Piped
  <2> QED
    BY <1>8, <2>1, PipeOn DEF CloseIterator, PipeAt
<1>9. CASE OrphanEnds(s)
  <2>1. gen[s] = "closed"
    BY <1>0, <1>9 DEF OrphanEnds, EndOf
  <2> QED
    BY <1>9, <2>1, PipeOn DEF OrphanEnds
<1> QED
  BY <1>1, <1>2, <1>3, <1>4, <1>5, <1>6, <1>7, <1>8, <1>9 DEF ProducerStep

(* The pipe after its receiver took the next chunk of the run.             *)
LEMMA Taken ==
    ASSUME StreamInv, Turns, NEW s \in Streams, NEW n \in 0..Len(turn[s]), Piped(s, n),
           buf[s] # <<>>, buf'[s] = Tail(buf[s]), turn' = turn
    PROVE  /\ n + 1 \in 1..Len(turn[s]) /\ n + 1 \in 0..Len(turn[s])
           /\ Head(buf[s]) = turn[s][n + 1]
           /\ Head(buf[s]) = "interrupt" => n + 1 = Len(turn[s])
           /\ rclosed' = rclosed /\ prod' = prod /\ item' = item /\ left' = left
                 => Piped(s, n + 1)'
<1> DEFINE b == Len(buf[s])
           c == Len(turn[s])
           a == Len(left[s])
           h == IF prod[s] = "send" THEN 1 ELSE 0
<1>1. /\ buf[s] \in Seq(Chunks) /\ turn[s] \in Seq(Chunks) /\ left[s] \in Seq(Chunks)
      /\ n \in Nat /\ a \in Nat /\ c \in Nat /\ h \in Nat
  BY DEF StreamInv, Shapes, Turns
<1>2. /\ b \in Nat \ {0} /\ Head(buf[s]) = buf[s][1] /\ Len(buf'[s]) = b - 1
      /\ \A i \in 1..(b - 1) : buf'[s][i] = buf[s][i + 1]
  BY <1>1, Shifted
<1>3. /\ n + b + h + a = c
      /\ \A i \in 1..b : buf[s][i] = turn[s][n + i]
      /\ prod[s] = "send" => item[s] = turn[s][n + b + 1]
  BY DEF Piped
<1> HIDE DEF a, b, c, h
<1>4. n + 1 \in 1..c /\ n + 1 \in 0..c /\ 1 \in 1..b /\ (n + 1) + (b - 1) + h + a = c
  BY <1>1, <1>2, <1>3
<1>5. Head(buf[s]) = turn[s][n + 1]
  BY <1>2, <1>3, <1>4
<1>6. Head(buf[s]) = "interrupt" => n + 1 = c
  BY <1>4, <1>5 DEF Turns, c
<1>7. \A i \in 1..(b - 1) : buf'[s][i] = turn[s][(n + 1) + i]
  <2> SUFFICES ASSUME NEW i \in 1..(b - 1) PROVE buf'[s][i] = turn[s][(n + 1) + i]
    OBVIOUS
  <2>1. i + 1 \in 1..b /\ n + (i + 1) = (n + 1) + i
    BY <1>1, <1>2
  <2> QED
    BY <2>1, <1>2, <1>3
<1>8. (n + 1) + (b - 1) + 1 = n + b + 1
  BY <1>1, <1>2
<1>9. ASSUME rclosed' = rclosed /\ prod' = prod /\ item' = item /\ left' = left
      PROVE  Piped(s, n + 1)'
  <2>1. s \notin rclosed' /\ prod'[s] \notin {"drain", "none"}
    BY <1>9 DEF Piped
  <2>2. (n + 1) + Len(buf'[s]) + (IF prod'[s] = "send" THEN 1 ELSE 0) + Len(left'[s]) = Len(turn'[s])
    BY <1>2, <1>4, <1>9 DEF h, a, c
  <2>3. prod'[s] = "send" => item'[s] = turn'[s][(n + 1) + Len(buf'[s]) + 1]
    BY <1>2, <1>3, <1>8, <1>9
  <2>4. \A i \in 1..Len(left'[s]) : left'[s][i] = turn'[s][Len(turn'[s]) - Len(left'[s]) + i]
    BY <1>9 DEF Piped
  <2>5. \A i \in 1..Len(buf'[s]) : buf'[s][i] = turn'[s][(n + 1) + i]
    BY <1>2, <1>7
  <2> QED
    BY <2>1, <2>2, <2>3, <2>4, <2>5 DEF Piped
<1> QED
  BY <1>4, <1>5, <1>6, <1>9 DEF c

(* The generator takes one chunk more: it shows an event of its name, asks *)
(* for the approval after the last, or shows nothing.                      *)
LEMMA PipeReceive ==
    ASSUME StreamInv, Turns, NEW s \in Streams, NEW n \in 0..Len(turn[s]), PipeAt(s, n),
           turn' = turn, Receive(s)
    PROVE  n + 1 \in 0..Len(turn[s]) /\ PipeAt(s, n + 1)'
<1> USE DEF genVars, prodVars
<1>1. /\ Piped(s, n) /\ Shows(out[s], turn[s], n)
      /\ Told(s, "completed") \/ Told(s, "awaiting_approval") => n = Len(turn[s])
  BY DEF Receive, PipeAt
<1>2. /\ buf[s] # <<>> /\ buf'[s] = Tail(buf[s])
      /\ rclosed' = rclosed /\ prod' = prod /\ item' = item /\ left' = left
  BY DEF Receive, StreamInv, Shapes
<1>3. /\ n + 1 \in 1..Len(turn[s]) /\ n + 1 \in 0..Len(turn[s])
      /\ Head(buf[s]) = turn[s][n + 1]
      /\ Head(buf[s]) = "interrupt" => n + 1 = Len(turn[s])
      /\ Piped(s, n + 1)'
  BY <1>1, <1>2, Taken
<1>4. n \in Nat /\ turn[s] \in Seq(Chunks) /\ out[s] \in Seq(Events) /\ Len(turn[s]) \in Nat
  BY DEF StreamInv, Shapes, Turns
<1>5. n # Len(turn[s]) /\ ~Told(s, "completed") /\ ~Told(s, "awaiting_approval")
  BY <1>1, <1>3, <1>4
<1>6. CASE Head(buf[s]) = "delta" /\ UNCHANGED genVars
  <2>4. turn[s][n + 1] \notin {"node", "token"}
    BY <1>3, <1>6
  <2>5. Shows(out[s], turn[s], n + 1)
    BY <2>4, <1>1, <1>4, ShowsSkip
  <2>6. out'[s] = out[s] /\ turn'[s] = turn[s]
    BY <1>6
  <2>1. Shows(out'[s], turn'[s], n + 1)
    BY <2>5, <2>6, ShowsSame
  <2>2. \A e : Told(s, e)' <=> Told(s, e)
    BY <1>6, SilenceTells
  <2>3. gen'[s] = "recv"
    BY <1>6 DEF Receive
  <2> QED
    BY <2>1, <2>2, <2>3, <1>3, <1>5 DEF PipeAt
<1>7. CASE Head(buf[s]) \in {"node", "token"} /\ Yield(s, Head(buf[s]), "recv")
  <2> DEFINE e == Head(buf[s])
  <2>1. e \in {"node", "token"} /\ e \in Events /\ Yield(s, e, "recv") /\ e = turn[s][n + 1]
    BY <1>3, <1>7 DEF Events
  <2> HIDE DEF e
  <2>2. out'[s] = Append(out[s], e)
    BY <2>1 DEF Yield, StreamInv, Shapes
  <2>3. Shows(out'[s], turn'[s], n + 1)
    BY <2>1, <2>2, <1>1, <1>3, <1>4, ShowsNext
  <2>4. gen'[s] = "recv" /\ \A d : Told(s, d)' <=> Told(s, d) \/ d = e
    BY <2>1, YieldTells DEF StreamInv
  <2>5. ~Told(s, "completed")' /\ ~Told(s, "awaiting_approval")'
    BY <2>1, <2>4, <1>5
  <2> QED
    BY <2>3, <2>4, <2>5, <1>3 DEF PipeAt
<1>8. CASE Head(buf[s]) = "interrupt" /\ Yield(s, "awaiting_approval", "leave")
  <2>1. "awaiting_approval" \in Events /\ "awaiting_approval" \notin {"node", "token"}
    BY DEF Events
  <2>2. out'[s] = Append(out[s], "awaiting_approval")
    BY <1>8 DEF Yield, StreamInv, Shapes
  <2>3. Shows(out[s], turn[s], n + 1)
    BY <1>8, <1>1, <1>3, <1>4, ShowsSkip
  <2> DEFINE m == n + 1
  <2>6. m \in Nat /\ Shows(out[s], turn[s], m)
    BY <2>3, <1>4
  <2> HIDE DEF m
  <2>7. Shows(out'[s], turn[s], m)
    BY <2>1, <2>2, <2>6, <1>4, ShowsSilent
  <2>4. Shows(out'[s], turn'[s], n + 1)
    BY <2>7 DEF m
  <2>5. gen'[s] = "leave"
    BY <2>1, <1>8, YieldTells DEF StreamInv
  <2> QED
    BY <2>4, <2>5, <1>3, <1>8 DEF PipeAt
<1> QED
  BY <1>3, <1>6, <1>7, <1>8 DEF Receive

(* The steps that report the end: all chunks are there once the producer   *)
(* has closed its end, did not fail and the buffer is empty.               *)
LEMMA PipeGenerator ==
    ASSUME StreamInv, Turns, NEW s \in Streams, NEW n \in 0..Len(turn[s]), PipeAt(s, n),
           turn' = turn, GeneratorStep(s), ~Receive(s)
    PROVE  PipeAt(s, n)'
<1> USE DEF respVars, genVars, prodVars, pipeVars, gateVars
<1>0. /\ Shapes /\ Controls /\ EndOf(s) /\ KillOf(s) /\ n \in Nat
      /\ turn[s] \in Seq(Chunks) /\ Len(turn[s]) \in Nat
      /\ left[s] \in Seq(Chunks) /\ buf[s] \in Seq(Chunks)
  BY DEF StreamInv, Shapes, Turns
<1>1. CASE GenStart(s)
  <2>1. Yield(s, "open", "recv") /\ gen[s] = "none"
    BY <1>1 DEF GenStart
  <2>2. n = 0 /\ s \notin rclosed /\ buf[s] = <<>> /\ left[s] = turn[s]
    BY <2>1 DEF PipeAt
  <2>3. rclosed' = rclosed /\ buf' = buf /\ left' = left /\ prod'[s] = "start"
    BY <1>0, <1>1 DEF GenStart, Become, Controls
  <2>4. Piped(s, n)'
    <3> DEFINE c == Len(turn[s])
    <3>1. Len(buf'[s]) = 0 /\ Len(left'[s]) = c /\ Len(turn'[s]) = c /\ c \in Nat
      BY <1>0, <2>2, <2>3
    <3>2. \A i \in 1..c : left'[s][i] = turn'[s][i]
      BY <2>2, <2>3
    <3> HIDE DEF c
    <3>3. n + 0 + 0 + c = c /\ \A i \in 1..c : c - c + i = i
      BY <2>2, <3>1
    <3> QED
      <4>1. prod'[s] \notin {"send", "drain", "none"} /\ s \notin rclosed'
        BY <2>2, <2>3
      <4>2. n + Len(buf'[s]) + 0 + Len(left'[s]) = Len(turn'[s])
        BY <2>2, <3>1, <3>3
      <4>3. \A i \in 1..Len(buf'[s]) : buf'[s][i] = turn'[s][n + i]
        BY <3>1
      <4>4. \A i \in 1..Len(left'[s]) : left'[s][i] = turn'[s][Len(turn'[s]) - Len(left'[s]) + i]
        BY <3>1, <3>2, <3>3
      <4> QED
        BY <4>1, <4>2, <4>3, <4>4 DEF Piped
  <2> QED
    BY <2>1, <2>4, PipeSaid
<1>2. CASE LeaveLoop(s)
  <2>1. /\ gen'[s] = "join" /\ out' = out /\ failed' = failed
        /\ gen[s] = "leave" \/ (gen[s] = "recv" /\ buf[s] = <<>> /\ s \in sclosed)
    BY <1>0, <1>2 DEF LeaveLoop, GoTo, Controls
  <2>2. CASE gen[s] = "leave"
    BY <1>0, <2>1, <2>2, PipeQuiet DEF EndOf
  <2>3. CASE gen[s] = "recv" /\ buf[s] = <<>> /\ s \in sclosed
    <3>1. prod[s] \in {"close", "done"} /\ (left[s] = <<>> \/ s \in failed)
      BY <1>0, <2>3 DEF KillOf, EndOf
    <3>2. CASE s \in failed
      BY <2>1, <3>2, PipeQuiet
    <3>3. CASE left[s] = <<>>
      <4>1. Len(left[s]) = 0 /\ Len(buf[s]) = 0
        BY <2>3, <3>3
      <4>2. n + Len(buf[s]) + 0 + Len(left[s]) = Len(turn[s])
        BY <2>3, <3>1 DEF PipeAt, Piped
      <4>3. n = Len(turn[s])
        BY <1>0, <4>1, <4>2
      <4> QED
        BY <2>1, <4>3, PipeQuiet
    <3> QED
      BY <3>1, <3>2, <3>3
  <2> QED
    BY <2>1, <2>2, <2>3
<1>3. CASE Join(s)
  <2>1. CASE s \in failed
    BY <1>3, <2>1, PipeSaid DEF Join
  <2>2. CASE s \notin failed
    <3>1. GoTo(s, IF Awaiting(s) THEN "final" ELSE "state") /\ gen[s] = "join" /\ failed' = failed
      BY <1>3, <2>2 DEF Join
    <3>2. out' = out /\ (IF Awaiting(s) THEN gen'[s] = "final" ELSE gen'[s] = "state")
      BY <1>0, <3>1 DEF GoTo, Controls
    <3>3. n = Len(turn[s])
      BY <2>2, <3>1 DEF PipeAt
    <3> QED
      BY <3>2, <3>3, PipeQuiet
  <2> QED
    BY <2>1, <2>2
<1>4. CASE GetState(s)
  <2>1. n = Len(turn[s]) /\ Yield(s, "completed", "final")
    BY <1>4 DEF GetState, PipeAt
  <2> QED
    BY <2>1, PipeSaid
<1>5. CASE Final(s)
  <2>1. CASE prod[s] = "done"
    <3>1. Yield(s, "done", "end")
      BY <1>5, <2>1 DEF Final
    <3> QED
      BY <3>1, PipeSaid
  <2>2. CASE prod[s] # "done"
    <3>1. out' = out /\ gen'[s] = "finaljoin"
      BY <1>0, <1>5, <2>2 DEF Final, GoTo, Controls
    <3> QED
      BY <3>1, PipeQuiet
  <2> QED
    BY <2>1, <2>2
<1>6. CASE FinalJoin(s)
  <2>1. CASE http[s] = "streaming"
    <3>1. Yield(s, "done", "end")
      BY <1>6, <2>1 DEF FinalJoin
    <3> QED
      BY <3>1, PipeSaid
  <2>2. CASE http[s] # "streaming"
    <3>1. out' = out /\ gen'[s] = "closed"
      BY <1>0, <1>6, <2>2 DEF FinalJoin, GoTo, Controls
    <3> QED
      BY <3>1, PipeQuiet
  <2> QED
    BY <2>1, <2>2
<1>7. CASE Collect(s)
  <2>1. out' = out /\ gen'[s] \in {"closed", "finaljoin"}
    BY <1>0, <1>7 DEF Collect, GeneratorExit, Controls
  <2> QED
    BY <2>1, PipeQuiet
<1> QED
  BY <1>1, <1>2, <1>3, <1>4, <1>5, <1>6, <1>7 DEF GeneratorStep

(* What the response does, and its client: a write that ends tells the     *)
(* generator nothing, and a generator that is closed listens no more.      *)
LEMMA PipeResponse ==
    ASSUME StreamInv, Turns, NEW s \in Streams, NEW n \in 0..Len(turn[s]), PipeAt(s, n),
           turn' = turn,
           \/ ChatStream(s) \/ ApproveStream(s) \/ ResponseStep(s)
           \/ ReceiveFails(s) \/ GetStateFails(s) \/ Disconnect(s) \/ SendTimeout(s)
    PROVE  PipeAt(s, n)'
<1> USE DEF respVars, genVars, prodVars, pipeVars, gateVars
<1> DEFINE Still ==
        /\ gen' = gen /\ out' = out /\ failed' = failed
        /\ prod' = prod /\ rclosed' = rclosed /\ buf' = buf /\ left' = left /\ item' = item
<1>0. Shapes /\ Controls /\ EndOf(s) /\ KillOf(s)
  BY DEF StreamInv, Shapes
<1>1. CASE Still
  <2>1. \A e : Told(s, e)' <=> Told(s, e)
    BY <1>1, SilenceTells
  <2> QED
    BY <1>1, <2>1 DEF PipeAt, Piped
<1>2. CASE ChatStream(s) \/ ApproveStream(s) \/ Written(s) \/ Background(s)
  <2>1. Still
    BY <1>2 DEF ChatStream, ApproveStream, Written, Background
  <2> QED
    BY <1>1, <2>1
<1>3. CASE Finish(s)
  <2>1. out' = out /\ gen'[s] = "closed"
    BY <1>0, <1>3 DEF Finish, GoTo, Controls
  <2> QED
    BY <2>1, PipeQuiet
<1>4. CASE ReceiveFails(s)
  BY <1>4, PipeSaid DEF ReceiveFails
<1>5. CASE GetStateFails(s)
  BY <1>5, PipeSaid DEF GetStateFails
<1>6. CASE Disconnect(s)
  <2>1. CASE s \in sending \/ gen[s] = "none"
    <3>1. Still
      BY <1>0, <1>6, <2>1 DEF Disconnect, EndOf
    <3> QED
      BY <1>1, <3>1
  <2>2. CASE ~(s \in sending \/ gen[s] = "none")
    <3>1. out' = out /\ gen'[s] = "closed"
      BY <1>0, <1>6, <2>2 DEF Disconnect, Controls
    <3> QED
      BY <3>1, PipeQuiet
  <2> QED
    BY <2>1, <2>2
<1>7. CASE SendTimeout(s)
  <2>1. out' = out /\ gen'[s] \in {"closed", "finaljoin"}
    BY <1>0, <1>7 DEF SendTimeout, GeneratorExit, Controls
  <2> QED
    BY <2>1, PipeQuiet
<1> QED
  BY <1>2, <1>3, <1>4, <1>5, <1>6, <1>7 DEF ResponseStep

(* PipeInv holds throughout.                                               *)
LEMMA PipeStep ==
    ASSUME StreamInv, PipeInv, [Next]_vars
    PROVE  PipeInv'
<1>1. CASE UNCHANGED vars
  <2>1. turn' = turn /\ \A q \in Streams : Untouched(q)
    BY <1>1 DEF Untouched, vars, respVars, genVars, prodVars, pipeVars
  <2>2. \A q \in Streams : \A n : PipeAt(q, n) => PipeAt(q, n)'
    BY <2>1, PipeStays
  <2> QED
    BY <2>1, <2>2 DEF PipeInv, Turns
<1>2. ASSUME NEW s \in Streams, StepOf(s) PROVE PipeInv'
  <2>1. turn' = turn
    BY <1>2, TurnStays
  <2>2. ASSUME NEW q \in Streams, q # s
        PROVE  \E n \in 0..Len(turn[q]) : PipeAt(q, n)'
    <3>1. PICK n \in 0..Len(turn[q]) : PipeAt(q, n)
      BY DEF PipeInv
    <3>2. Untouched(q)
      BY <1>2, <2>2, Alone DEF StreamInv
    <3> QED
      BY <3>1, <3>2, <2>1, PipeStays
  <2>3. \E n \in 0..Len(turn[s]) : PipeAt(s, n)'
    <3>1. PICK n \in 0..Len(turn[s]) : PipeAt(s, n)
      BY DEF PipeInv
    <3>2. Turns
      BY DEF PipeInv
    <3>3. CASE Receive(s)
      BY <3>1, <3>2, <3>3, <2>1, PipeReceive
    <3>4. CASE ~Receive(s)
      BY <3>1, <3>2, <3>4, <2>1, <1>2, PipeProducer, PipeGenerator, PipeResponse DEF StepOf, Fault
    <3> QED
      BY <3>3, <3>4
  <2> QED
    BY <2>1, <2>2, <2>3 DEF PipeInv, Turns
<1> QED
  BY <1>1, <1>2 DEF Next, StepOf

(* The client of a stream sees the chunks of its run as the run produced   *)
(* them, in order, none twice and none left out, and has seen all of them  *)
(* when it is told that the turn is completed or waits for an approval     *)
(* (run_graph_stream, _stream_lifecycle): for every run, every size of the *)
(* buffer, and whatever fails, leaves or times out on the way.             *)
THEOREM EventsFaithfulHolds == Spec => []EventsFaithful
<1>1. PipeInv => EventsFaithful
  BY DEF PipeInv, PipeAt, EventsFaithful
<1> QED
  BY <1>1, PipeInit, PipeStep, StreamInvHolds, PTL DEF Spec
=============================================================================
