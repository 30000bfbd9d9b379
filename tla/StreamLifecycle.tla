-------------------------- MODULE StreamLifecycle --------------------------
(***************************************************************************)
(* The streaming routes: POST /chat/stream and POST /approve/stream.  Each *)
(* stream is served by four actors on one event loop: the HTTP response    *)
(* that iterates over the events, the generator _stream_lifecycle, the     *)
(* producer task run_graph_stream that advances the blocking graph in a    *)
(* worker thread, and the background task of the response.  Producer and   *)
(* generator meet in a bounded buffer; /approve/stream also shares a       *)
(* resume lease among producer, generator and background task.             *)
(*                                                                         *)
(* A coroutine runs undisturbed between two awaits, so what it does there  *)
(* is one step.  All resuming streams are for one conversation thread;     *)
(* chat streams have threads of their own.                                 *)
(***************************************************************************)
EXTENDS Integers, Sequences, FiniteSets

CONSTANTS Streams,        \* streaming requests served by one process
          Resume,         \* those of /approve/stream
          TurnsOf,        \* per stream: the chunks its graph run may yield
          BufferSize,     \* max_buffer_size of the memory object stream
          MaxErrors,      \* bound: exceptions of graph, checkpointer or shaping
          MaxDisconnects, \* bound: clients that go away
          MaxTimeouts,    \* bound: writes that exceed SSE_SEND_TIMEOUT_SECONDS
          None            \* nobody

(* An updates chunk of a node, one that carries an interrupt, a token of   *)
(* the responder, and a message chunk of another node.                     *)
Chunks == {"node", "interrupt", "token", "delta"}

ASSUME ResumeStreams == Resume \subseteq Streams
ASSUME NoneNoStream  == None \notin Streams
ASSUME TurnsType     == TurnsOf \in [Streams -> SUBSET Seq(Chunks)]
(* graph.stream ends with the step that interrupts it (LangGraph).         *)
ASSUME InterruptLast == \A s \in Streams : \A t \in TurnsOf[s] : \A i \in 1..Len(t) :
                            t[i] = "interrupt" => i = Len(t)
ASSUME BufferPos     == BufferSize \in Nat \ {0}
ASSUME FaultBounds   == MaxErrors \in Nat /\ MaxDisconnects \in Nat /\ MaxTimeouts \in Nat

VARIABLES http,      \* per stream: the response
          gen,       \* per stream: where the generator is
          sending,   \* streams whose generator is suspended at a yield
          out,       \* per stream: the events it yielded
          prod,      \* per stream: where the producer task is
          item,      \* per stream: the chunk the producer is sending
          turn,      \* per stream: the chunks of its run
          left,      \* per stream: the chunks the graph has not produced yet
          failed,    \* streams whose graph run raised
          killed,    \* streams whose producer task was cancelled
          orphan,    \* streams with a worker thread nobody waits for
          buf,       \* per stream: the buffer
          rclosed,   \* streams whose receiving end is closed
          sclosed,   \* streams whose sending end is closed
          lock,      \* the stream whose lease is not released
          paused,    \* the thread is awaiting approval
          gone,      \* streams whose client went away
          slow,      \* streams with a write that timed out
          errors     \* how much of MaxErrors is used

respVars == <<http, gone, slow>>
genVars  == <<gen, sending, out>>
prodVars == <<prod, item, turn, left, failed, killed, orphan>>
pipeVars == <<buf, rclosed, sclosed>>
gateVars == <<lock, paused>>
vars     == <<respVars, genVars, prodVars, pipeVars, gateVars, errors>>

Init ==
    /\ http    = [s \in Streams |-> "idle"]
    /\ gen     = [s \in Streams |-> "none"]
    /\ sending = {}
    /\ out     = [s \in Streams |-> <<>>]
    /\ prod    = [s \in Streams |-> "none"]
    /\ item    = [s \in Streams |-> None]
    /\ turn    \in {t \in [Streams -> UNION {TurnsOf[s] : s \in Streams}] :
                       \A s \in Streams : t[s] \in TurnsOf[s]}
    /\ left    = turn
    /\ buf     = [s \in Streams |-> <<>>]
    /\ failed  = {} /\ killed = {} /\ orphan = {}
    /\ rclosed = {} /\ sclosed = {} /\ gone = {} /\ slow = {}
    /\ lock    = None
    /\ paused  = TRUE
    /\ errors  = 0

-----------------------------------------------------------------------------
(* Steps shared by the actors                                              *)

(* ResumeLease.release: only the first call has an effect. *)
Release(s) == lock' = IF lock = s THEN None ELSE lock

(* The generator yields an event and will go on at l. *)
Yield(s, event, l) ==
    /\ out'     = [out EXCEPT ![s] = Append(@, event)]
    /\ sending' = sending \union {s}
    /\ gen'     = [gen EXCEPT ![s] = l]

GoTo(s, l) == gen' = [gen EXCEPT ![s] = l] /\ UNCHANGED <<out, sending>>

Become(s, l) == prod' = [prod EXCEPT ![s] = l]

Raise == errors < MaxErrors /\ errors' = errors + 1

-----------------------------------------------------------------------------
(* The routes                                                              *)

(* chat_stream: a fresh thread, no lease. *)
ChatStream(s) ==
    /\ http[s] = "idle"
    /\ s \notin Resume
    /\ http' = [http EXCEPT ![s] = "streaming"]
    /\ UNCHANGED <<gone, slow, genVars, prodVars, pipeVars, gateVars, errors>>

(* approve_stream: gate_resume takes the lock and lets the stream pass, or *)
(* answers 409 and gives the lock back.                                    *)
ApproveStream(s) ==
    /\ http[s] = "idle"
    /\ s \in Resume
    /\ lock = None
    /\ http' = [http EXCEPT ![s] = IF paused THEN "streaming" ELSE "409"]
    /\ lock' = IF paused THEN s ELSE None
    /\ UNCHANGED <<paused, gone, slow, genVars, prodVars, pipeVars, errors>>

-----------------------------------------------------------------------------
(* run_graph_stream                                                        *)

(* Fault: the lease is only held until the iterator exists. *)
StartAndRelease(s) ==
    /\ prod[s] = "start"
    /\ Become(s, "next")
    /\ Release(s)
    /\ UNCHANGED <<respVars, genVars, item, turn, left, failed, killed, orphan, pipeVars, paused, errors>>

(* iter(graph.stream(...)) in a worker thread. *)
Start(s) ==
    /\ prod[s] = "start"
    /\ Become(s, "next")
    /\ UNCHANGED <<respVars, genVars, item, turn, left, failed, killed, orphan, pipeVars, gateVars, errors>>

(* The graph runs on to its next chunk.  The first one of a resumed thread *)
(* comes with the checkpoint that ends the pause.                          *)
Advance(s) ==
    /\ left[s] # <<>>
    /\ left'   = [left EXCEPT ![s] = Tail(@)]
    /\ paused' = (paused /\ s \notin Resume)

NextChunk(s) ==
    /\ prod[s] = "next"
    /\ Advance(s)
    /\ item' = [item EXCEPT ![s] = Head(left[s])]
    /\ Become(s, "send")
    /\ UNCHANGED <<respVars, genVars, turn, failed, killed, orphan, pipeVars, lock, errors>>

(* send_stream.send waits for room in the buffer. *)
Send(s) ==
    /\ prod[s] = "send"
    /\ s \notin rclosed
    /\ Len(buf[s]) < BufferSize
    /\ buf'  = [buf EXCEPT ![s] = Append(@, item[s])]
    /\ item' = [item EXCEPT ![s] = None]
    /\ Become(s, "next")
    /\ UNCHANGED <<respVars, genVars, turn, left, failed, killed, orphan, rclosed, sclosed, gateVars, errors>>

(* Fault: the producer stops when its consumer is gone. *)
SendBrokenStops(s) ==
    /\ prod[s] = "send"
    /\ s \in rclosed
    /\ item' = [item EXCEPT ![s] = None]
    /\ Become(s, "close")
    /\ sclosed' = sclosed \union {s}
    /\ Release(s)
    /\ UNCHANGED <<respVars, genVars, turn, left, failed, killed, orphan, buf, rclosed, paused, errors>>

(* BrokenResourceError: the consumer is gone, the rest is drained. *)
SendBroken(s) ==
    /\ prod[s] = "send"
    /\ s \in rclosed
    /\ item' = [item EXCEPT ![s] = None]
    /\ Become(s, "drain")
    /\ UNCHANGED <<respVars, genVars, turn, left, failed, killed, orphan, pipeVars, gateVars, errors>>

Drain(s) ==
    /\ prod[s] = "drain"
    /\ Advance(s)
    /\ UNCHANGED <<respVars, genVars, prod, item, turn, failed, killed, orphan, pipeVars, lock, errors>>

(* The finally block: release the lease, close the sending end. *)
Cleanup(s) == Release(s) /\ Become(s, "close") /\ sclosed' = sclosed \union {s}

(* StopIteration. *)
Exhausted(s) ==
    /\ prod[s] \in {"next", "drain"}
    /\ left[s] = <<>>
    /\ Cleanup(s)
    /\ UNCHANGED <<respVars, genVars, item, turn, left, failed, killed, orphan, buf, rclosed, paused, errors>>

(* The graph raises, at its start or in a node. *)
GraphFails(s) ==
    /\ prod[s] \in {"start", "next", "drain"}
    /\ Raise
    /\ failed' = failed \union {s}
    /\ Cleanup(s)
    /\ UNCHANGED <<respVars, genVars, item, turn, left, killed, orphan, buf, rclosed, paused>>

(* iterator.close(), shielded from cancellation, its errors swallowed. *)
CloseIterator(s) ==
    /\ prod[s] = "close"
    /\ Become(s, "done")
    /\ UNCHANGED <<respVars, genVars, item, turn, left, failed, killed, orphan, pipeVars, gateVars, errors>>

(* A worker thread that nobody waits for finishes its node. *)
OrphanEnds(s) ==
    /\ s \in orphan
    /\ orphan' = orphan \ {s}
    /\ IF left[s] # <<>> THEN Advance(s) ELSE UNCHANGED <<left, paused>>
    /\ UNCHANGED <<respVars, genVars, prod, item, turn, failed, killed, pipeVars, lock, errors>>

-----------------------------------------------------------------------------
(* _stream_lifecycle                                                       *)

(* The first next of the response: the producer task is created. *)
GenStart(s) ==
    /\ http[s] = "streaming"
    /\ gen[s] = "none"
    /\ Become(s, "start")
    /\ Yield(s, "open", "recv")
    /\ UNCHANGED <<respVars, item, turn, left, failed, killed, orphan, pipeVars, gateVars, errors>>

(* One chunk: tokens of the responder and node names are forwarded, other  *)
(* messages are not, an interrupt ends the loop.                           *)
Receive(s) ==
    /\ gen[s] = "recv" /\ s \notin sending
    /\ buf[s] # <<>>
    /\ buf' = [buf EXCEPT ![s] = Tail(@)]
    /\ \/ Head(buf[s]) = "delta" /\ UNCHANGED genVars
       \/ Head(buf[s]) \in {"node", "token"} /\ Yield(s, Head(buf[s]), "recv")
       \/ Head(buf[s]) = "interrupt" /\ Yield(s, "awaiting_approval", "leave")
    /\ UNCHANGED <<respVars, prodVars, rclosed, sclosed, gateVars, errors>>

(* Shaping the interrupt for the client raises. *)
ReceiveFails(s) ==
    /\ gen[s] = "recv" /\ s \notin sending
    /\ buf[s] # <<>> /\ Head(buf[s]) = "interrupt"
    /\ Raise
    /\ buf' = [buf EXCEPT ![s] = Tail(@)]
    /\ rclosed' = rclosed \union {s}
    /\ Yield(s, "error", "final")
    /\ UNCHANGED <<respVars, prodVars, sclosed, gateVars>>

(* Fault: the loop ends as soon as the sender is closed. *)
LeaveLoopEarly(s) ==
    /\ s \notin sending
    /\ gen[s] = "leave" \/ (gen[s] = "recv" /\ s \in sclosed)
    /\ rclosed' = rclosed \union {s}
    /\ GoTo(s, "join")
    /\ UNCHANGED <<respVars, prodVars, buf, sclosed, gateVars, errors>>

(* The loop ends after an interrupt, or when the sender is closed and the  *)
(* buffer is empty; leaving it closes the receiver.                        *)
LeaveLoop(s) ==
    /\ s \notin sending
    /\ gen[s] = "leave" \/ (gen[s] = "recv" /\ buf[s] = <<>> /\ s \in sclosed)
    /\ rclosed' = rclosed \union {s}
    /\ GoTo(s, "join")
    /\ UNCHANGED <<respVars, prodVars, buf, sclosed, gateVars, errors>>

Awaiting(s) == \E i \in DOMAIN out[s] : out[s][i] = "awaiting_approval"

(* Fault: the producer's result is not looked at. *)
JoinUnchecked(s) ==
    /\ gen[s] = "join"
    /\ prod[s] = "done"
    /\ GoTo(s, IF Awaiting(s) THEN "final" ELSE "state")
    /\ UNCHANGED <<respVars, prodVars, pipeVars, gateVars, errors>>

(* await producer_task, which raises what the producer raised. *)
Join(s) ==
    /\ gen[s] = "join"
    /\ prod[s] = "done"
    /\ IF s \in failed THEN Yield(s, "error", "final")
                       ELSE GoTo(s, IF Awaiting(s) THEN "final" ELSE "state")
    /\ UNCHANGED <<respVars, prodVars, pipeVars, gateVars, errors>>

(* The final snapshot is read and reported. *)
GetState(s) ==
    /\ gen[s] = "state"
    /\ Yield(s, "completed", "final")
    /\ UNCHANGED <<respVars, prodVars, pipeVars, gateVars, errors>>

GetStateFails(s) ==
    /\ gen[s] = "state"
    /\ Raise
    /\ Yield(s, "error", "final")
    /\ UNCHANGED <<respVars, prodVars, pipeVars, gateVars>>

(* The finally block and what follows it: close the receiver, wait for the *)
(* producer, release the lease, yield done.                                *)
Final(s) ==
    /\ gen[s] = "final" /\ s \notin sending
    /\ rclosed' = rclosed \union {s}
    /\ IF prod[s] = "done" THEN Release(s) /\ Yield(s, "done", "end")
                           ELSE GoTo(s, "finaljoin") /\ UNCHANGED lock
    /\ UNCHANGED <<respVars, prodVars, buf, sclosed, paused, errors>>

(* The same after a wait for the producer.  A generator that is being      *)
(* closed yields nothing any more; if a write timed out, the response ends *)
(* with that error and runs no background task.                            *)
FinalJoin(s) ==
    /\ gen[s] = "finaljoin"
    /\ prod[s] = "done"
    /\ Release(s)
    /\ IF http[s] = "streaming" THEN Yield(s, "done", "end") ELSE GoTo(s, "closed")
    /\ http' = [http EXCEPT ![s] = IF @ = "teardown" THEN "failed" ELSE @]
    /\ UNCHANGED <<gone, slow, prodVars, pipeVars, paused, errors>>

(* GeneratorExit at a yield: the finally block, unless it is over. *)
GeneratorExit(s) ==
    /\ sending' = sending \ {s}
    /\ UNCHANGED out
    /\ \/ /\ gen[s] = "end"
          /\ gen' = [gen EXCEPT ![s] = "closed"]
          /\ UNCHANGED <<rclosed, lock>>
       \/ /\ gen[s] # "end"
          /\ rclosed' = rclosed \union {s}
          /\ IF prod[s] = "done" THEN Release(s) ELSE UNCHANGED lock
          /\ gen' = [gen EXCEPT ![s] = IF prod[s] = "done" THEN "closed" ELSE "finaljoin"]

-----------------------------------------------------------------------------
(* The response                                                            *)

(* The client took the event. *)
Written(s) ==
    /\ http[s] = "streaming"
    /\ s \in sending
    /\ sending' = sending \ {s}
    /\ UNCHANGED <<respVars, gen, out, prodVars, pipeVars, gateVars, errors>>

(* The generator is exhausted. *)
Finish(s) ==
    /\ http[s] = "streaming"
    /\ gen[s] = "end" /\ s \notin sending
    /\ GoTo(s, "closed")
    /\ http' = [http EXCEPT ![s] = "over"]
    /\ UNCHANGED <<gone, slow, prodVars, pipeVars, gateVars, errors>>

(* Cancelling a task that awaits a task cancels the latter.  The worker    *)
(* thread it waited for runs on; its chunk is lost.                        *)
Kill(s) ==
    IF prod[s] \in {"start", "next", "send", "drain"}
    THEN /\ killed' = killed \union {s}
         /\ orphan' = IF prod[s] = "send" THEN orphan ELSE orphan \union {s}
         /\ Cleanup(s)
    ELSE UNCHANGED <<prod, killed, orphan, sclosed, lock>>

(* Fault: the producer is cancelled together with the response. *)
DisconnectKills(s) ==
    /\ Cardinality(gone) < MaxDisconnects
    /\ http[s] = "streaming"
    /\ gone' = gone \union {s}
    /\ http' = [http EXCEPT ![s] = "over"]
    /\ gen'  = [gen EXCEPT ![s] = "closed"]
    /\ sending' = sending \ {s}
    /\ rclosed' = rclosed \union {s}
    /\ Kill(s)
    /\ UNCHANGED <<slow, out, item, turn, left, failed, buf, paused, errors>>

(* The client goes away and the response is cancelled.  A generator that   *)
(* waits is cancelled there, and again at the first await of its finally   *)
(* block, right after the receiver is closed: the rest of the block is     *)
(* skipped.  One that is suspended at a yield, or has not started, does    *)
(* not notice.                                                             *)
Disconnect(s) ==
    /\ Cardinality(gone) < MaxDisconnects
    /\ http[s] \in {"streaming", "teardown"}
    /\ gone' = gone \union {s}
    /\ http' = [http EXCEPT ![s] = "over"]
    /\ \/ /\ s \in sending \/ gen[s] = "none"
          /\ UNCHANGED <<gen, rclosed, prod, killed, orphan, sclosed, lock>>
       \/ /\ s \notin sending /\ gen[s] # "none"
          /\ gen' = [gen EXCEPT ![s] = "closed"]
          /\ rclosed' = rclosed \union {s}
          /\ IF gen[s] \in {"join", "finaljoin"} THEN Kill(s)
             ELSE UNCHANGED <<prod, killed, orphan, sclosed, lock>>
    /\ UNCHANGED <<slow, sending, out, item, turn, left, failed, buf, paused, errors>>

(* The suspended generator of a cancelled response is garbage and closed   *)
(* by a task of its own.                                                   *)
Collect(s) ==
    /\ http[s] \in {"over", "closed"}
    /\ s \in sending
    /\ GeneratorExit(s)
    /\ UNCHANGED <<respVars, prodVars, buf, sclosed, paused, errors>>

(* A write takes longer than SSE_SEND_TIMEOUT_SECONDS: the response closes *)
(* the generator, waits for that and fails.                                *)
SendTimeout(s) ==
    /\ Cardinality(slow) < MaxTimeouts
    /\ http[s] = "streaming"
    /\ s \in sending
    /\ slow' = slow \union {s}
    /\ GeneratorExit(s)
    /\ http' = [http EXCEPT ![s] = IF gen'[s] = "closed" THEN "failed" ELSE "teardown"]
    /\ UNCHANGED <<gone, prodVars, buf, sclosed, paused, errors>>

(* BackgroundTask(lease.release), whatever ended the response. *)
Background(s) ==
    /\ http[s] = "over"
    /\ http' = [http EXCEPT ![s] = "closed"]
    /\ Release(s)
    /\ UNCHANGED <<gone, slow, genVars, prodVars, pipeVars, paused, errors>>

-----------------------------------------------------------------------------
ProducerStep(s) ==
    \/ Start(s)     \/ NextChunk(s)     \/ Send(s) \/ SendBroken(s) \/ Drain(s)
    \/ Exhausted(s) \/ CloseIterator(s) \/ OrphanEnds(s)

GeneratorStep(s) ==
    \/ GenStart(s) \/ Receive(s) \/ LeaveLoop(s) \/ Join(s) \/ GetState(s)
    \/ Final(s)    \/ FinalJoin(s) \/ Collect(s)

ResponseStep(s) == Written(s) \/ Finish(s) \/ Background(s)

Fault(s) ==
    \/ GraphFails(s) \/ ReceiveFails(s) \/ GetStateFails(s)
    \/ Disconnect(s) \/ SendTimeout(s)

Next ==
    \E s \in Streams :
        \/ ChatStream(s) \/ ApproveStream(s)
        \/ ProducerStep(s) \/ GeneratorStep(s) \/ ResponseStep(s)
        \/ Fault(s)

Spec == Init /\ [][Next]_vars

(* The event loop runs every task that can run, a node ends, and a write   *)
(* ends: if the client does not take it, the timeout does.                 *)
Fairness ==
    \A s \in Streams :
        /\ WF_vars(ProducerStep(s)) /\ WF_vars(GeneratorStep(s)) /\ WF_vars(ResponseStep(s))

FairSpec == Spec /\ Fairness

-----------------------------------------------------------------------------
(* Properties                                                              *)

(* The graph run of a stream is under way. *)
Running(s) == prod[s] \in {"start", "next", "send", "drain"} \/ s \in orphan

(* The lease outlives the run: as long as its client is there, slow or     *)
(* not, a stream holds the resume lock while its graph runs, whichever of  *)
(* the three cleanup paths comes first.                                    *)
LeaseCoversRun ==
    \A s \in Resume : Running(s) /\ s \notin gone => lock = s

(* The events and chunks that a client is shown.                           *)
ShownAt(q) == {i \in DOMAIN q : q[i] \in {"node", "token"}}

(* The events o show what there is to show among the first n chunks of t:  *)
(* each in its order, nothing left out and nothing twice.                  *)
Shows(o, t, n) ==
    LET due == {k \in ShownAt(t) : k <= n}
    IN  \E at \in [ShownAt(o) -> due] :
            /\ \A i \in ShownAt(o) : o[i] = t[at[i]]
            /\ \A i, j \in ShownAt(o) : i < j => at[i] < at[j]
            /\ \A k \in due : \E i \in ShownAt(o) : at[i] = k

Told(s, event) == \E i \in DOMAIN out[s] : out[s][i] = event

(* What goes through the buffer arrives: the client sees the run's events  *)
(* in the run's order, and all of them before it is told how it ended.     *)
EventsFaithful ==
    \A s \in Streams :
        \E n \in 0..Len(turn[s]) :
            /\ Shows(out[s], turn[s], n)
            /\ Told(s, "completed") \/ Told(s, "awaiting_approval") => n = Len(turn[s])

(* The client is told the truth about the end of its turn: completed only  *)
(* if the run has ended and did not fail, and a client that stays is told  *)
(* some end of its turn and then that the stream is over.                  *)
EndReported ==
    /\ \A s \in Streams : Told(s, "completed") => left[s] = <<>> /\ s \notin failed
    /\ \A s \in Streams :
        http[s] = "closed" /\ s \notin gone =>
            /\ out[s][Len(out[s])] = "done"
            /\ Told(s, "completed") \/ Told(s, "awaiting_approval") \/ Told(s, "error")

(* A client that goes away does not stop its run.  The one exception is a  *)
(* client that first let a write time out and then left while the response *)
(* was waiting for the producer.                                           *)
OnlyTeardownKills ==
    \A s \in killed : left[s] # <<>> => s \in slow /\ s \in gone

(* Everything a stream sets going comes to its end: its run, drained even  *)
(* if nobody listens, its hold on the lease, however the stream ends, and  *)
(* the response, which never waits for an event, a producer or a buffer    *)
(* that does not come.                                                     *)
RunDrains ==
    \A s \in Streams : prod[s] = "start" ~> left[s] = <<>> \/ s \in failed \union killed

LeaseFreed ==
    \A s \in Resume : lock = s ~> lock # s

ResponseEnds ==
    \A s \in Streams : http[s] = "streaming" ~> http[s] \in {"closed", "failed"}

StreamEnds == RunDrains /\ LeaseFreed /\ ResponseEnds

(* "the lock stays held for the full stream so a concurrent resume cannot  *)
(* pass the awaiting-approval gate until this run finishes"                *)
(* (interface/sse.py).                                                     *)
OneRun ==
    \A s, q \in Resume : Running(s) /\ Running(q) => s = q
=============================================================================
