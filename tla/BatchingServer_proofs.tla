----------------------- MODULE BatchingServer_proofs -----------------------
(***************************************************************************)
(* Proofs about the serving loop and its handler threads, for every set of *)
(* requests, of which any may stream, be speculative, or be given up at    *)
(* any moment: no cancel is lost, no request is orphaned, an answer does   *)
(* not change once it is there, and every step is one that RequestStream   *)
(* allows.  The scheduler's invariant carries over, since what the loop    *)
(* does with its scheduler are steps it was proved for.                    *)
(***************************************************************************)
EXTENDS ServingRefinement, Scheduler_proofs

USE EngineAssumption, SchedulerAssumption, PrefixCapacityAssumption, ServerAssumption

----------------------------------------------------------------------------
(* The inductive invariant. *)

\* What the loop thread knows of its locals.
Loops ==
    /\ binding # NoRequest <=> loop \in {"bind", "flag"}
    /\ tick # "idle" => loop = "tick"
    /\ Distinct(pending)

\* The handler of r has not queued it.
Unqueued(r) == handler[r] \in {"new", "refused", "put"}

\* Nothing has happened to r in the engine, and nothing was sent for it.
Untouched(r) ==
    /\ r \notin submitted /\ Unborn(r)
    /\ r \notin bound
    /\ tokens[r] = <<>> /\ received[r] = <<>> /\ emitted[r] = 0

\* A handle is unqueued, in _pending, being bound, tracked or done: in one of them.
Staged(r) ==
    /\ Unqueued(r) \/ InSeq(r, pending) \/ binding = r \/ r \in tracked \/ r \in done
    /\ Unqueued(r) => ~InSeq(r, pending)
    /\ Unqueued(r) \/ InSeq(r, pending) =>
         binding # r /\ r \notin tracked /\ r \notin done /\ Untouched(r)
    /\ binding = r =>
         /\ r \notin tracked /\ r \notin done /\ InScheduler(r)
         /\ r \in bound <=> loop = "flag"
         /\ tokens[r] = <<>> /\ received[r] = <<>> /\ emitted[r] = 0
    /\ r \in tracked => r \notin done /\ r \in bound /\ r \in submitted

\* A queue of tokens without its end marker.
Body(queue) ==
    IF queue # <<>> /\ queue[Len(queue)] = End
    THEN SubSeq(queue, 1, Len(queue) - 1)
    ELSE queue

\* While a handle is tracked, what its handler has and what waits for it is what _pump
\* emitted.  Only a done one has an end marker, at the end.
Sent(r) ==
    /\ tokens[r] \in Seq(Token)
         \/ (r \in done /\ Body(tokens[r]) \in Seq(Token)
               /\ tokens[r] = Append(Body(tokens[r]), End))
    /\ r \in tracked =>
         /\ tokens[r] \in Seq(Token)
         /\ emitted[r] \in 0 .. Len(gen[r])
         /\ received[r] \o tokens[r] = SubSeq(gen[r], 1, emitted[r])

\* How far a cancel has come.
Cancels(r) ==
    /\ r \in flagged <=> handler[r] \in {"read", "cancel", "finish", "gone"}
    /\ handler[r] \in {"cancel", "finish"} => r \in bound
    /\ handler[r] = "finish" => cancelled[r]
    /\ cancelled[r] => r \in bound /\ r \in flagged
    /\ handler[r] = "gone" /\ r \in bound /\ binding # r => finished[r]

\* The scheduler and the loop agree on which requests are running.
Owned(r) ==
    /\ r \in tracked => InScheduler(r) \/ (loop \in {"tick", "pump"} /\ finished[r])
    /\ InScheduler(r) /\ loop # "ended" => r \in tracked \/ cancelled[r] \/ binding = r
    /\ r \in done => r \notin active /\ (InScheduler(r) => finished[r] \/ loop = "ended")

Handles == \A r \in Request : Staged(r) /\ Sent(r) /\ Cancels(r) /\ Owned(r)

ServerInv ==
    /\ Inv /\ EndsInv
    /\ ServerTypeOK
    /\ Loops
    /\ Handles

----------------------------------------------------------------------------
(* The engine and its scheduler. *)

\* A speculative answer is one that decoding could have given.
LEMMA AnswerFacts ==
    ASSUME NEW r \in Request, NEW answer \in SpecAnswers(r)
    PROVE  /\ answer \in Seq(Token) /\ Len(answer) <= MaxNew[r]
           /\ r \in StopsAtEos => \A i \in 1 .. Len(answer) - 1 : answer[i] # Eos
           /\ \/ Len(answer) = MaxNew[r]
              \/ r \in StopsAtEos /\ answer # <<>> /\ answer[Len(answer)] = Eos
<1>1. PICK n \in 0 .. MaxNew[r] : answer \in [1 .. n -> Token]
  BY DEF SpecAnswers
<1>2. n \in Nat /\ MaxNew[r] \in Nat
  OBVIOUS
<1>3. answer \in Seq(Token) /\ Len(answer) = n
  BY <1>1, <1>2
<1> QED
  BY <1>2, <1>3 DEF SpecAnswers

\* A speculative call writes the whole answer of a request the scheduler never sees.
LEMMA SpeculativeCore ==
    ASSUME Inv, EndsInv, NEW r \in Request, r \notin submitted, NEW answer \in SpecAnswers(r),
           gen' = [gen EXCEPT ![r] = answer], finished' = [finished EXCEPT ![r] = TRUE],
           UNCHANGED <<prefilled, kv, versions, logits, cancelled, weights, prefixCache,
                       schedulerVars>>
    PROVE  Inv' /\ EndsInv'
<1>0. /\ EngineTypeOK /\ SchedulerTypeOK /\ ~InScheduler(r)
      /\ gen \in [Request -> Seq(Token)] /\ finished \in [Request -> BOOLEAN]
  BY InMeansSubmitted DEF Inv, TypeInv, EngineTypeOK
<1>1. UNCHANGED <<tick, prefillQueue, stillPrefilling, chunking, decodeQueue, active, cohort,
                  nextDecode, submitted, retired>>
  BY DEF schedulerVars, queueVars
<1>2. /\ answer \in Seq(Token) /\ Len(answer) <= MaxNew[r] /\ Len(answer) \in Nat
      /\ r \in StopsAtEos => \A i \in 1 .. Len(answer) - 1 : answer[i] # Eos
      /\ \/ Len(answer) = MaxNew[r]
         \/ r \in StopsAtEos /\ answer # <<>> /\ answer[Len(answer)] = Eos
  BY AnswerFacts
<1>3. /\ gen'[r] = answer /\ finished'[r]
      /\ \A q \in Request \ {r} : gen'[q] = gen[q] /\ finished'[q] = finished[q]
  BY <1>0
<1>4. \A q \in Request : (Prefilling(q)' <=> Prefilling(q)) /\ (Decoding(q)' <=> Decoding(q))
  BY <1>1 DEF Prefilling, Decoding
<1>5. TypeInv' /\ Phases'
  BY <1>0, <1>1, <1>2 DEF Inv, TypeInv, EngineTypeOK, SchedulerTypeOK, Phases
<1>6. Places'
  BY <1>1, <1>4 DEF Inv, Places, Placed
<1>7. PrefixCacheExact'
  BY DEF Inv, PrefixCacheExact
<1>8. ASSUME NEW q \in Request PROVE KVOf(q)' /\ BoundsOf(q)' /\ EndsOf(q)'
  <2>0. KVOf(q) /\ BoundsOf(q) /\ EndsOf(q)
    BY DEF Inv, KVInv, BoundInv, EndsInv
  <2>1. CASE q = r
    <3>1. ~Prefilling(q)' /\ ~Decoding(q)' /\ q \notin active' /\ q \notin cohort'
      BY <1>0, <1>1, <1>4, <2>1 DEF InScheduler, Decoding
    <3>2. KVOf(q)'
      BY <1>1, <2>0, <2>1, <3>1 DEF KVOf
    <3>3. kv[q] = <<>> /\ Len(<<>>) = 0 /\ Len(Prompt[q]) \in Nat
      BY <2>0, <2>1, WholePrompt DEF KVOf
    <3>4. BoundsOf(q)'
      BY <1>1, <1>2, <1>3, <2>1, <3>1, <3>3 DEF BoundsOf
    <3>5. EndsOf(q)'
      BY <1>2, <1>3, <2>1, <3>1 DEF EndsOf, AtEnd, InScheduler
    <3> QED
      BY <3>2, <3>4, <3>5
  <2>2. CASE q # r
    <3>1. KVOf(q)'
      BY <1>1, <1>3, <1>4, <2>0, <2>2 DEF KVOf, Whole, InCohort, Short
    <3>2. BoundsOf(q)'
      BY <1>1, <1>3, <1>4, <2>0, <2>2 DEF BoundsOf, Admissible, Open
    <3>3. EndsOf(q)'
      BY <1>1, <1>3, <1>4, <2>0, <2>2 DEF EndsOf, AtEnd, InScheduler
    <3> QED
      BY <3>1, <3>2, <3>3
  <2> QED
    BY <2>1, <2>2
<1> QED
  BY <1>5, <1>6, <1>7, <1>8 DEF Inv, KVInv, BoundInv, EndsInv

\* Nothing of r in the engine and its scheduler changes.
SameEngine(r) ==
    /\ gen'[r] = gen[r] /\ versions'[r] = versions[r]
    /\ finished'[r] = finished[r] /\ cancelled'[r] = cancelled[r]
    /\ r \in submitted' <=> r \in submitted
    /\ r \in active' <=> r \in active
    /\ InScheduler(r)' <=> InScheduler(r)

LEMMA StillEngine ==
    ASSUME UNCHANGED <<requestVars, schedulerVars>>
    PROVE  \A r \in Request : SameEngine(r)
<1>1. /\ UNCHANGED <<gen, versions, finished, cancelled>>
      /\ UNCHANGED <<tick, prefillQueue, stillPrefilling, chunking, decodeQueue, active, cohort,
                     nextDecode, submitted>>
  BY DEF requestVars, schedulerVars, queueVars
<1>2. \A r \in Request : InScheduler(r)' <=> InScheduler(r)
  BY <1>1 DEF InScheduler, Prefilling, Decoding
<1> QED
  BY <1>1, <1>2 DEF SameEngine

LEMMA SubmitSame ==
    ASSUME Inv, NEW r \in Request, FirstSubmit(r), NEW q \in Request, q # r
    PROVE  SameEngine(q)
<1>1. /\ Submit(r) /\ NewRequest(r) /\ versions \in [Request -> SUBSET Nat]
      /\ UNCHANGED <<gen, finished, cancelled>>
  BY DEF FirstSubmit, Submit, NewRequest, Inv, TypeInv, EngineTypeOK
<1>2. versions'[q] = versions[q]
  BY <1>1 DEF NewRequest
<1>3. InScheduler(q)' <=> InScheduler(q)
  BY SubmitMoves, SubmitEnters DEF InScheduler
<1> QED
  BY <1>1, <1>2, <1>3 DEF SameEngine, Submit

\* What a tick may do to a request.
LEMMA TickMoves ==
    ASSUME Inv, DecodeScan \/ TickStep, NEW q \in Request
    PROVE  /\ submitted' = submitted
           /\ cancelled' = cancelled
           /\ finished[q] => finished'[q]
           /\ q \in active' => q \in active \/ (tick = "idle" /\ InScheduler(q) /\ ~finished[q])
           /\ gen'[q] # gen[q] => q \in active
           /\ InScheduler(q)' => InScheduler(q)
           /\ InScheduler(q) /\ ~InScheduler(q)' => finished'[q]
           /\ ~InScheduler(q) => SameEngine(q)
<1>0. /\ EngineTypeOK /\ SchedulerTypeOK /\ Phases /\ finished \in [Request -> BOOLEAN]
  BY DEF Inv, TypeInv, EngineTypeOK
<1>1. submitted' = submitted /\ cancelled' = cancelled
  BY DEF DecodeScan, TickStep, AdvanceGroup, AdvanceAlone, Feed, Settle, DecodeEnd, PrefillPop,
         PrefillRun, PrefillEnd, Retire, DecodeGroupBatched, DecodeSample, DecodeForward, Sample,
         PrefillAndCommit, engineVars, requestVars
<1>2. finished[q] => finished'[q]
  <2>1. ASSUME NEW gone, Retire(gone) PROVE finished[q] => finished'[q]
    BY <2>1, Zenon DEF Retire
  <2>2. ASSUME NEW S, NEW token, Sample(S, token) PROVE finished[q] => finished'[q]
    BY <2>2, Zenon DEF Sample
  <2>3. CASE DecodeScan \/ Settle \/ PrefillPop
    BY <2>1, <2>3 DEF DecodeScan, Settle, PrefillPop, engineVars, requestVars
  <2>4. CASE \E r \in Request : AdvanceGroup(r) \/ AdvanceAlone(r)
    BY <2>2, <2>4 DEF AdvanceGroup, AdvanceAlone, DecodeGroupBatched, DecodeSample, engineVars,
                      requestVars
  <2>5. CASE Feed \/ DecodeEnd \/ PrefillRun \/ PrefillEnd
    BY <2>5 DEF Feed, DecodeEnd, PrefillRun, PrefillEnd, DecodeForward, PrefillAndCommit,
                engineVars, requestVars
  <2> QED
    BY <2>3, <2>4, <2>5 DEF TickStep
<1>3. q \in active' => q \in active \/ (tick = "idle" /\ InScheduler(q) /\ ~finished[q])
  <2>1. CASE DecodeScan
    BY <1>0, <2>1 DEF DecodeScan, Done, InScheduler, Decoding
  <2>2. CASE TickStep
    BY <1>0, <2>2 DEF TickStep, AdvanceGroup, AdvanceAlone, Feed, Settle, DecodeEnd, PrefillPop,
                      PrefillRun, PrefillEnd, queueVars
  <2> QED
    BY <2>1, <2>2
<1>4. gen'[q] # gen[q] => q \in active
  <2>1. ASSUME NEW S, NEW token, Sample(S, token), q \notin S PROVE gen'[q] = gen[q]
    BY <2>1 DEF Sample
  <2>2. ASSUME NEW r \in Request, AdvanceGroup(r), q \notin active PROVE gen'[q] = gen[q]
    BY <2>1, <2>2 DEF AdvanceGroup, DecodeGroupBatched, Cohort
  <2>3. ASSUME NEW r \in Request, AdvanceAlone(r), q \notin active PROVE gen'[q] = gen[q]
    BY <2>1, <2>3 DEF AdvanceAlone, DecodeSample, engineVars, requestVars
  <2>4. CASE DecodeScan \/ Settle \/ PrefillPop \/ Feed \/ DecodeEnd \/ PrefillRun \/ PrefillEnd
    BY <2>4 DEF DecodeScan, Settle, PrefillPop, Retire, Feed, DecodeEnd, PrefillRun, PrefillEnd,
                DecodeForward, PrefillAndCommit, engineVars, requestVars
  <2> QED
    BY <2>2, <2>3, <2>4 DEF TickStep
<1>5. ~InScheduler(q) => SameEngine(q)
  <2>1. SUFFICES ASSUME ~InScheduler(q) PROVE SameEngine(q)
    OBVIOUS
  <2>2. q \notin active /\ q \notin active'
    BY <1>3, <2>1 DEF InScheduler, Decoding
  <2> QED
    BY <1>1, <2>1, <2>2, OutsideFrame DEF SameEngine
<1>6. InScheduler(q)' => InScheduler(q)
  BY OutsideFrame
<1>7. InScheduler(q) /\ ~InScheduler(q)' => finished'[q]
  BY LeavesRetired
<1> QED
  BY <1>1, <1>2, <1>3, <1>4, <1>5, <1>6, <1>7


\* The head of the queue of submissions.
LEMMA PendingHead ==
    ASSUME ServerInv, NEW r \in Request, TakePending, r = Head(pending)
    PROVE  /\ InSeq(r, pending) /\ Untouched(r) /\ tick = "idle"
           /\ pending' \in Seq(Request) /\ Distinct(pending')
           /\ \A q : InSeq(q, pending) <=> q = r \/ InSeq(q, pending')
           /\ ~InSeq(r, pending')
           /\ ~Unqueued(r) /\ binding # r /\ r \notin tracked /\ r \notin done
           /\ binding = NoRequest
<1>1. /\ pending \in Seq(Request) /\ pending # <<>> /\ pending' = Tail(pending)
      /\ loop = "drain" /\ Distinct(pending)
  BY DEF TakePending, ServerInv, ServerTypeOK, Loops
<1>2. /\ InSeq(r, pending) /\ pending' \in Seq(Request) /\ Distinct(pending')
      /\ \A q : InSeq(q, pending) <=> q = r \/ InSeq(q, pending')
      /\ ~InSeq(r, pending')
  BY <1>1, TailFacts
<1>3. Staged(r)
  BY DEF ServerInv, Handles
<1> QED
  BY <1>1, <1>2, <1>3 DEF Staged, ServerInv, Loops

LEMMA SubmitIsFirst ==
    ASSUME ServerInv, NEW r \in Request, DrainSubmit(r)
    PROVE  FirstSubmit(r)
BY PendingHead DEF DrainSubmit, FirstSubmit, Untouched

\* A step of the server is, for the scheduler, one that it was proved for.
LEMMA ServerCore == ServerInv /\ [ServerNext]_allVars => Inv' /\ EndsInv'
<1> SUFFICES ASSUME ServerInv, [ServerNext]_allVars PROVE Inv' /\ EndsInv'
  OBVIOUS
<1>0. Inv /\ EndsInv /\ ServerTypeOK /\ EngineTypeOK /\ weights \in Nat /\ Handles
  BY DEF ServerInv, ServerTypeOK, EngineTypeOK
<1>a. ASSUME CoreStep PROVE Inv' /\ EndsInv'
  BY <1>0, <1>a, CoreInv, EndsStep
<1>b. ASSUME UNCHANGED vars PROVE Inv' /\ EndsInv'
  BY <1>0, <1>b, WeightsInv DEF vars, engineVars
<1>1. CASE \E r \in Request : HandlerNext(r)
  <2>1. PICK r \in Request : HandlerNext(r)
    BY <1>1
  <2>2. CASE CancelState(r) \/ CancelFinish(r)
    <3>1. Cancels(r)
      BY <1>0 DEF Handles
    <3>2. UNCHANGED schedulerVars /\ (SetCancelled(r) \/ (cancelled[r] /\ SetFinished(r)))
      BY <2>2, <3>1 DEF CancelState, CancelFinish, Cancels
    <3> QED
      BY <1>0, <1>a, <3>2, CancelIsFlag DEF CoreStep
  <2>3. CASE ~(CancelState(r) \/ CancelFinish(r))
    <3>1. UNCHANGED vars
      BY <2>1, <2>3 DEF HandlerNext, HandlerStep, HandlerCheck, HandlerPut, HandlerWake,
                        CancelFlag, CancelRead, NextToken, GiveUp, TokenTimeout, Result
    <3> QED
      BY <1>b, <3>1
  <2> QED
    BY <2>2, <2>3
<1>2. CASE \E c \in Control : SyncNext(c)
  BY <1>b, <1>2 DEF SyncNext, SyncPut, SyncWake, SyncReply, SyncUnlink
<1>3. CASE Stop \/ StopWake \/ IdleTimeout \/ UNCHANGED allVars
  BY <1>b, <1>3 DEF Stop, StopWake, IdleTimeout, allVars
<1>4. CASE \/ LoopTop \/ ControlsDrained \/ (\E r \in Request : DrainFail(r)) \/ Bind
           \/ PendingDrained \/ Pump \/ Idle \/ WakeUp \/ ClearWake \/ Shutdown
  BY <1>b, <1>4 DEF LoopTop, ControlsDrained, DrainFail, Bind, PendingDrained, Pump, Idle,
                    WakeUp, ClearWake, Shutdown
<1>5. CASE RunControl
  <2>1. /\ UNCHANGED <<requestVars, schedulerVars>>
        /\ weights' = weights \/ weights' = weights + 1
        /\ prefixCache' = prefixCache \/ prefixCache' = <<>>
    BY <1>5 DEF RunControl, SyncWeights, engineVars
  <2>2. weights' \in Nat
    BY <1>0, <2>1
  <2> QED
    BY <1>0, <2>1, <2>2, WeightsInv
<1>6. ASSUME NEW r \in Request, DrainSubmit(r) PROVE Inv' /\ EndsInv'
  BY <1>a, <1>6, SubmitIsFirst DEF CoreStep
<1>7. ASSUME NEW r \in Request, DrainSpeculative(r) PROVE Inv' /\ EndsInv'
  <2>1. r \notin submitted
    BY <1>7, PendingHead DEF DrainSpeculative, Untouched
  <2>2. PICK answer \in SpecAnswers(r) : gen' = [gen EXCEPT ![r] = answer]
    BY <1>7 DEF DrainSpeculative
  <2>3. /\ finished' = [finished EXCEPT ![r] = TRUE]
        /\ UNCHANGED <<prefilled, kv, versions, logits, cancelled, weights, prefixCache,
                       schedulerVars>>
    BY <1>7 DEF DrainSpeculative
  <2> QED
    BY <1>0, <2>1, <2>2, <2>3, SpeculativeCore
<1>8. CASE Track
  <2>1. Flag
    <3>1. cancelled' \in [Request -> BOOLEAN] /\ finished' \in [Request -> BOOLEAN]
      BY <1>8 DEF Track
    <3>2. ASSUME NEW q \in Request
          PROVE  /\ cancelled[q] => cancelled'[q]
                 /\ finished[q] => finished'[q]
                 /\ finished'[q] => finished[q] \/ cancelled'[q]
      BY <1>8, Zenon DEF Track
    <3> QED
      BY <1>8, <3>1, <3>2 DEF Track, Flag
  <2> QED
    BY <1>a, <2>1 DEF CoreStep
<1>9. CASE BeginTick \/ RunTick
  BY <1>a, <1>9 DEF BeginTick, RunTick, CoreStep
<1> QED
  BY <1>1, <1>2, <1>3, <1>4, <1>5, <1>6, <1>7, <1>8, <1>9 DEF ServerNext, LoopStep

----------------------------------------------------------------------------
(* Types, and what the loop knows of its locals. *)

LEMMA HandlerTypes ==
    ASSUME ServerTypeOK, EngineTypeOK', SchedulerTypeOK', NEW r \in Request, HandlerNext(r)
    PROVE  ServerTypeOK'
<1> DEFINE Points == {"new", "refused", "put", "wake", "stream", "result", "answered",
                      "timedout", "flag", "read", "cancel", "finish", "gone"}
<1>1. handler \in [Request -> Points]
  BY DEF ServerTypeOK
<1>2. handler' \in [Request -> Points]
  <2>1. handler' = handler \/ \E place \in Points : Goto(r, place)
    BY DEF HandlerNext, HandlerStep, HandlerCheck, HandlerPut, HandlerWake, CancelFlag,
           CancelRead, CancelState, CancelFinish, NextToken, GiveUp, TokenTimeout, Result
  <2> HIDE DEF Points
  <2> QED
    BY <1>1, <2>1 DEF Goto
<1>3. /\ UNCHANGED <<loop, binding, drained, controls, running, tracked, bound, emitted, failed,
                     done, sync, applied, files, stopper>>
      /\ flagged' \subseteq Request /\ wake' \in BOOLEAN
  BY DEF HandlerNext, HandlerStep, HandlerCheck, HandlerPut, HandlerWake, CancelFlag, CancelRead,
         CancelState, CancelFinish, NextToken, GiveUp, TokenTimeout, Result, loopVars,
         handleVars, handlerVars, syncVars, ServerTypeOK
<1>4. pending' \in Seq(Request)
  <2>1. pending' = pending \/ pending' = Append(pending, r)
    BY DEF HandlerNext, HandlerStep, HandlerCheck, HandlerPut, HandlerWake, CancelFlag,
           CancelRead, CancelState, CancelFinish, NextToken, GiveUp, TokenTimeout, Result
  <2>2. pending \in Seq(Request)
    BY DEF ServerTypeOK
  <2>3. Append(pending, r) \in Seq(Request)
    BY <2>2
  <2> QED
    BY <2>1, <2>2, <2>3, Zenon
<1>5. tokens' \in [Request -> Seq(Token \cup {End})] /\ received' \in [Request -> Seq(Token)]
  <2>0. /\ tokens \in [Request -> Seq(Token \cup {End})] /\ received \in [Request -> Seq(Token)]
    BY DEF ServerTypeOK
  <2>1. CASE NextToken(r)
    <3>1. tokens[r] \in Seq(Token \cup {End}) /\ tokens[r] # <<>>
      BY <2>0, <2>1 DEF NextToken
    <3>2. Tail(tokens[r]) \in Seq(Token \cup {End}) /\ Head(tokens[r]) \in Token \cup {End}
      BY <3>1
    <3>3. tokens' = [tokens EXCEPT ![r] = Tail(@)]
      BY <2>1 DEF NextToken
    <3>4. \/ received' = received
          \/ /\ Head(tokens[r]) # End
             /\ received' = [received EXCEPT ![r] = Append(@, Head(tokens[r]))]
      BY <2>1 DEF NextToken
    <3>5. Head(tokens[r]) # End => Append(received[r], Head(tokens[r])) \in Seq(Token)
      BY <2>0, <3>2
    <3> QED
      BY <2>0, <3>2, <3>3, <3>4, <3>5, ZenonT(60)
  <2>2. CASE ~NextToken(r)
    BY <2>0, <2>2 DEF HandlerNext, HandlerStep, HandlerCheck, HandlerPut, HandlerWake,
                      CancelFlag, CancelRead, CancelState, CancelFinish, GiveUp, TokenTimeout,
                      Result, handleVars
  <2> QED
    BY <2>1, <2>2
<1> QED
  BY <1>2, <1>3, <1>4, <1>5 DEF ServerTypeOK

LEMMA SyncTypes ==
    ASSUME ServerTypeOK, EngineTypeOK', SchedulerTypeOK', NEW c \in Control, SyncNext(c)
    PROVE  ServerTypeOK'
<1>1. UNCHANGED <<loop, binding, drained, pending, running, tracked, bound, flagged, tokens,
                  emitted, failed, done, handler, received, applied, stopper>>
  BY DEF SyncNext, SyncPut, SyncWake, SyncReply, SyncUnlink, loopVars, handleVars, handlerVars
<1>2. files' \subseteq Control /\ wake' \in BOOLEAN
  BY DEF SyncNext, SyncPut, SyncWake, SyncReply, SyncUnlink, ServerTypeOK
<1>3. controls' \in Seq(Control)
  <2>1. controls' = controls \/ controls' = Append(controls, c)
    BY DEF SyncNext, SyncPut, SyncWake, SyncReply, SyncUnlink
  <2>2. controls \in Seq(Control)
    BY DEF ServerTypeOK
  <2>3. Append(controls, c) \in Seq(Control)
    BY <2>2
  <2> QED
    BY <2>1, <2>2, <2>3, Zenon
<1>4. sync' \in [Control -> {"new", "wake", "wait", "loaded", "failed", "timedout"}]
  <2>1. applied[c] \in {"no", "ok", "error"}
    BY DEF ServerTypeOK
  <2>2. \/ sync' = sync
        \/ \E place \in {"wake", "wait", "loaded", "failed", "timedout"} : SyncGoto(c, place)
    BY <2>1 DEF SyncNext, SyncPut, SyncWake, SyncReply, SyncUnlink
  <2> QED
    BY <2>2 DEF SyncGoto, ServerTypeOK
<1> QED
  BY <1>1, <1>2, <1>3, <1>4 DEF ServerTypeOK


\* The steps of the loop change what the loop knows of its locals in the order it does things.
LEMMA LoopTypes ==
    ASSUME ServerInv, EngineTypeOK', SchedulerTypeOK', LoopStep
    PROVE  ServerTypeOK'
<1>0. ServerTypeOK /\ EngineTypeOK /\ gen \in [Request -> Seq(Token)]
  BY DEF ServerInv, ServerTypeOK, EngineTypeOK
<1>1. UNCHANGED <<running, flagged, handler, received, sync, files, stopper>>
  BY DEF LoopStep, LoopTop, RunControl, ControlsDrained, DrainSubmit, DrainFail,
         DrainSpeculative, TakePending, Bind, Track, PendingDrained, BeginTick, RunTick, Pump,
         Idle, WakeUp, ClearWake, Shutdown, handlerVars, syncVars
<1>2. /\ wake' \in BOOLEAN /\ drained' \in BOOLEAN
      /\ loop' \in {"top", "control", "drain", "bind", "flag", "work", "tick", "pump", "wait",
                    "clear", "shutdown", "ended"}
  BY <1>0 DEF LoopStep, LoopTop, RunControl, ControlsDrained, DrainSubmit, DrainFail,
         DrainSpeculative, TakePending, Bind, Track, PendingDrained, BeginTick, RunTick, Pump,
         Idle, WakeUp, ClearWake, Shutdown, loopVars, ServerTypeOK
<1>3. controls' \in Seq(Control) /\ applied' \in [Control -> {"no", "ok", "error"}]
  <2>0. controls \in Seq(Control) /\ applied \in [Control -> {"no", "ok", "error"}]
    BY <1>0 DEF ServerTypeOK
  <2>1. CASE RunControl
    <3>1. controls' = Tail(controls) /\ controls # <<>>
      BY <2>1 DEF RunControl
    <3>2. controls' \in Seq(Control)
      BY <2>0, <3>1
    <3>3. applied' \in [Control -> {"no", "ok", "error"}]
      BY <2>0, <2>1 DEF RunControl
    <3> QED
      BY <3>2, <3>3
  <2>2. CASE ~RunControl
    BY <2>0, <2>2 DEF LoopStep, LoopTop, ControlsDrained, DrainSubmit, DrainFail,
         DrainSpeculative, TakePending, Bind, Track, PendingDrained, BeginTick, RunTick, Pump,
         Idle, WakeUp, ClearWake, Shutdown, syncVars
  <2> QED
    BY <2>1, <2>2
<1>4. pending' \in Seq(Request)
  <2>0. pending \in Seq(Request)
    BY <1>0 DEF ServerTypeOK
  <2>1. CASE TakePending
    <3>1. pending # <<>> /\ pending' = Tail(pending)
      BY <2>1 DEF TakePending
    <3> QED
      BY <2>0, <3>1
  <2>2. CASE ~TakePending
    BY <2>0, <2>2 DEF LoopStep, LoopTop, RunControl, ControlsDrained, DrainSubmit, DrainFail,
         DrainSpeculative, Bind, Track, PendingDrained, BeginTick, RunTick, Pump, Idle, WakeUp,
         ClearWake, Shutdown
  <2> QED
    BY <2>1, <2>2
<1>5. /\ binding' \in Request \cup {NoRequest}
      /\ tracked' \subseteq Request /\ bound' \subseteq Request
      /\ failed' \subseteq Request /\ done' \subseteq Request
  <2>0. /\ binding \in Request \cup {NoRequest} /\ tracked \subseteq Request
        /\ bound \subseteq Request /\ failed \subseteq Request /\ done \subseteq Request
        /\ loop \in {"bind", "flag"} => binding # NoRequest
    BY <1>0 DEF ServerTypeOK, ServerInv, Loops
  <2>1. CASE Bind \/ Track
    BY <2>0, <2>1 DEF Bind, Track
  <2>2. CASE ~(Bind \/ Track)
    BY <2>0, <2>2 DEF LoopStep, LoopTop, RunControl, ControlsDrained, DrainSubmit, DrainFail,
         DrainSpeculative, PendingDrained, BeginTick, RunTick, Pump, Over, Idle, WakeUp,
         ClearWake, Shutdown, loopVars, handleVars
  <2> QED
    BY <2>1, <2>2
<1>6. tokens' \in [Request -> Seq(Token \cup {End})] /\ emitted' \in [Request -> Nat]
  <2>0. tokens \in [Request -> Seq(Token \cup {End})] /\ emitted \in [Request -> Nat]
    BY <1>0 DEF ServerTypeOK
  <2>a. \A s \in Seq(Token \cup {End}) : Append(s, End) \in Seq(Token \cup {End})
    OBVIOUS
  <2>1. ASSUME NEW r \in Request, DrainFail(r)
        PROVE  tokens' \in [Request -> Seq(Token \cup {End})] /\ emitted' \in [Request -> Nat]
    BY <2>0, <2>1, <2>a DEF DrainFail
  <2>2. ASSUME NEW r \in Request, DrainSpeculative(r)
        PROVE  tokens' \in [Request -> Seq(Token \cup {End})] /\ emitted' \in [Request -> Nat]
    <3>1. PICK answer \in SpecAnswers(r) :
               /\ tokens' = [tokens EXCEPT ![r] = @ \o Append(answer, End)]
               /\ emitted' = [emitted EXCEPT ![r] = Len(answer)]
      BY <2>2 DEF DrainSpeculative
    <3>2. answer \in Seq(Token) /\ Len(answer) \in Nat
      BY AnswerFacts
    <3>3. Append(answer, End) \in Seq(Token \cup {End})
      BY <3>2
    <3>4. tokens[r] \o Append(answer, End) \in Seq(Token \cup {End})
      BY <2>0, <3>3
    <3> QED
      BY <2>0, <3>1, <3>2, <3>4
  <2>3. CASE Pump
    <3>1. \A r \in Request : Unsent(r) \in Seq(Token) /\ Len(gen[r]) \in Nat
      <4> TAKE r \in Request
      <4>1. gen[r] \in Seq(Token) /\ emitted[r] + 1 \in 1 .. (emitted[r] + 1)
        BY <1>0, <2>0
      <4>2. emitted[r] + 1 > 0 /\ Len(gen[r]) \in Nat
        BY <2>0, <4>1
      <4> QED
        BY <2>0, <4>1, <4>2 DEF Unsent
    <3>2. \A r \in Request : tokens[r] \o Unsent(r) \in Seq(Token \cup {End})
      <4> TAKE r \in Request
      <4>1. Unsent(r) \in Seq(Token \cup {End})
        BY <3>1
      <4> QED
        BY <2>0, <4>1
    <3>3. \A r \in Request : tokens'[r] \in Seq(Token \cup {End})
      BY <2>0, <2>3, <2>a, <3>2 DEF Pump
    <3> QED
      BY <2>0, <2>3, <3>1, <3>3 DEF Pump
  <2>4. CASE Shutdown
    BY <2>0, <2>4, <2>a DEF Shutdown
  <2>5. CASE \/ LoopTop \/ RunControl \/ ControlsDrained
             \/ (\E r \in Request : DrainSubmit(r)) \/ Bind \/ Track \/ PendingDrained
             \/ BeginTick \/ RunTick \/ Idle \/ WakeUp \/ ClearWake
    BY <2>0, <2>5 DEF LoopTop, RunControl, ControlsDrained, DrainSubmit, Bind, Track,
         PendingDrained, BeginTick, RunTick, Idle, WakeUp, ClearWake, handleVars
  <2> QED
    BY <2>1, <2>2, <2>3, <2>4, <2>5 DEF LoopStep
<1> QED
  BY <1>0, <1>1, <1>2, <1>3, <1>4, <1>5, <1>6 DEF ServerTypeOK

LEMMA ServerTypes == ServerInv /\ [ServerNext]_allVars => ServerTypeOK'
<1> SUFFICES ASSUME ServerInv, [ServerNext]_allVars PROVE ServerTypeOK'
  OBVIOUS
<1>0. ServerTypeOK
  BY DEF ServerInv
<1>1. EngineTypeOK' /\ SchedulerTypeOK'
  BY ServerCore DEF Inv, TypeInv
<1>2. CASE Stop \/ StopWake \/ IdleTimeout
  BY <1>0, <1>1, <1>2, ZenonT(60) DEF Stop, StopWake, IdleTimeout, ServerTypeOK, loopVars, handleVars,
                          handlerVars, syncVars
<1>3. CASE UNCHANGED allVars
  BY <1>0, <1>1, <1>3 DEF allVars, serverVars, ServerTypeOK, loopVars, handleVars, handlerVars,
                          syncVars
<1> QED
  BY <1>0, <1>1, <1>2, <1>3, HandlerTypes, SyncTypes, LoopTypes DEF ServerNext

LEMMA ServerLoops == ServerInv /\ [ServerNext]_allVars => Loops'
<1> SUFFICES ASSUME ServerInv, [ServerNext]_allVars PROVE Loops'
  OBVIOUS
<1>0. /\ Loops /\ ServerTypeOK /\ binding \in Request \cup {NoRequest}
      /\ pending \in Seq(Request)
  BY DEF ServerInv, ServerTypeOK
<1>1. Distinct(pending')
  <2>1. CASE TakePending
    <3>1. pending # <<>> /\ pending' = Tail(pending) /\ Distinct(pending)
      BY <1>0, <2>1 DEF TakePending, Loops
    <3> QED
      BY <1>0, <3>1, TailFacts
  <2>2. ASSUME NEW r \in Request, HandlerPut(r) PROVE Distinct(pending')
    <3>1. ~InSeq(r, pending) /\ pending' = Append(pending, r)
      BY <2>2 DEF HandlerPut, ServerInv, Handles, Staged, Unqueued
    <3> QED
      BY <1>0, <3>1, AppendFacts DEF Loops
  <2>3. CASE UNCHANGED pending
    BY <1>0, <2>3 DEF Loops
  <2>4. TakePending \/ (\E r \in Request : HandlerPut(r)) \/ UNCHANGED pending
    BY DEF ServerNext, LoopStep, LoopTop, RunControl, ControlsDrained, DrainSubmit, DrainFail,
         DrainSpeculative, Bind, Track, PendingDrained, BeginTick, RunTick, Pump, Idle, WakeUp,
         ClearWake, Shutdown, IdleTimeout, HandlerNext, HandlerStep, HandlerCheck, HandlerWake,
         CancelFlag, CancelRead, CancelState, CancelFinish, NextToken, GiveUp, TokenTimeout,
         Result, SyncNext, SyncPut, SyncWake, SyncReply, SyncUnlink, Stop, StopWake, allVars,
         serverVars
  <2> QED
    BY <2>1, <2>2, <2>3, <2>4
<1>2. /\ binding' # NoRequest <=> loop' \in {"bind", "flag"}
      /\ tick' # "idle" => loop' = "tick"
  <2>1. CASE LoopStep
    <3>1. CASE BeginTick \/ RunTick
      BY <1>0, <3>1 DEF BeginTick, RunTick, Loops
    <3>2. ASSUME NEW r \in Request, DrainSubmit(r)
          PROVE  binding' = r /\ loop' = "bind" /\ tick' = "idle"
      <4>1. tick = "idle"
        BY <1>0, <3>2 DEF DrainSubmit, TakePending, Loops
      <4> QED
        BY <3>2, <4>1 DEF DrainSubmit, Submit
    <3>3. CASE ~(BeginTick \/ RunTick \/ \E r \in Request : DrainSubmit(r))
      BY <1>0, <2>1, <3>3 DEF Loops, LoopStep, LoopTop, RunControl, ControlsDrained, DrainFail,
         DrainSpeculative, TakePending, Bind, Track, PendingDrained, Pump, Idle, WakeUp,
         ClearWake, Shutdown, loopVars, vars, schedulerVars
    <3> QED
      BY <3>1, <3>2, <3>3
  <2>2. CASE ~LoopStep
    <3>1. UNCHANGED <<binding, loop, tick>> \/ IdleTimeout
      BY <2>2 DEF ServerNext, HandlerNext, HandlerStep, HandlerCheck, HandlerPut, HandlerWake,
         CancelFlag, CancelRead, CancelState, CancelFinish, NextToken, GiveUp, TokenTimeout,
         Result, SyncNext, SyncPut, SyncWake, SyncReply, SyncUnlink, Stop, StopWake, allVars,
         serverVars, loopVars, vars, schedulerVars
    <3> QED
      BY <1>0, <3>1 DEF Loops, IdleTimeout, vars, schedulerVars
  <2> QED
    BY <2>1, <2>2
<1> QED
  BY <1>1, <1>2 DEF Loops

----------------------------------------------------------------------------
(***************************************************************************)
(* Handles.  A step changes the handle of one request, but for the ticks,  *)
(* the pump and the shutdown; the others stay as they are.                 *)
(***************************************************************************)

Handle(r) == Staged(r) /\ Sent(r) /\ Cancels(r) /\ Owned(r)

SameHandle(r) ==
    /\ handler'[r] = handler[r] /\ tokens'[r] = tokens[r] /\ received'[r] = received[r]
    /\ emitted'[r] = emitted[r]
    /\ r \in tracked' <=> r \in tracked
    /\ r \in bound' <=> r \in bound
    /\ r \in done' <=> r \in done
    /\ r \in flagged' <=> r \in flagged
    /\ InSeq(r, pending') <=> InSeq(r, pending)
    /\ binding' = r <=> binding = r

\* The loop has not moved in a way that matters to r.
SameLoop(r) ==
    /\ binding = r => (loop' = "flag" <=> loop = "flag")
    /\ loop \in {"tick", "pump"} => loop' \in {"tick", "pump"}
    /\ loop' = "ended" <=> loop = "ended"

LEMMA HandleStays ==
    ASSUME NEW q \in Request, Handle(q), SameEngine(q), SameHandle(q), SameLoop(q)
    PROVE  Handle(q)'
<1>1. Staged(q)'
  BY DEF Handle, Staged, Unqueued, Untouched, Unborn, SameEngine, SameHandle, SameLoop
<1>2. Sent(q)'
  BY DEF Handle, Sent, SameEngine, SameHandle
<1>3. Cancels(q)'
  BY DEF Handle, Cancels, SameEngine, SameHandle
<1>4. Owned(q)'
  BY DEF Handle, Owned, SameEngine, SameHandle, SameLoop
<1> QED
  BY <1>1, <1>2, <1>3, <1>4 DEF Handle

LEMMA SomeHandle == ASSUME ServerInv, NEW q \in Request PROVE Handle(q)
BY DEF ServerInv, Handles, Handle

\* The steps that touch no handle.
LEMMA QuietHandles ==
    ASSUME ServerInv, NEW q \in Request,
           \/ \E c \in Control : SyncNext(c)
           \/ Stop \/ StopWake \/ IdleTimeout \/ UNCHANGED allVars
           \/ LoopTop \/ RunControl \/ ControlsDrained \/ PendingDrained \/ Idle \/ WakeUp
           \/ ClearWake
    PROVE  Handle(q)'
<1>1. UNCHANGED <<requestVars, schedulerVars>>
  BY DEF SyncNext, SyncPut, SyncWake, SyncReply, SyncUnlink, Stop, StopWake, IdleTimeout,
         LoopTop, RunControl, SyncWeights, ControlsDrained, PendingDrained, Idle, WakeUp,
         ClearWake, allVars, vars, engineVars
<1>2. UNCHANGED <<binding, pending, tracked, bound, tokens, emitted, done, handler, received,
                  flagged>>
  BY DEF SyncNext, SyncPut, SyncWake, SyncReply, SyncUnlink, Stop, StopWake, IdleTimeout,
         LoopTop, RunControl, ControlsDrained, PendingDrained, Idle, WakeUp, ClearWake,
         allVars, serverVars, loopVars, handleVars, handlerVars
<1>3. \/ loop' = loop
      \/ {loop, loop'} \cap {"bind", "flag", "tick", "pump", "ended"} = {}
  BY DEF SyncNext, SyncPut, SyncWake, SyncReply, SyncUnlink, Stop, StopWake, IdleTimeout,
         LoopTop, RunControl, ControlsDrained, PendingDrained, Idle, WakeUp, ClearWake,
         allVars, serverVars, loopVars
<1>4. SameEngine(q) /\ SameHandle(q) /\ SameLoop(q)
  BY <1>1, <1>2, <1>3, StillEngine DEF SameHandle, SameLoop
<1> QED
  BY <1>4, SomeHandle, HandleStays

\* The steps of a handler that only move it, or set the flags of a cancel.
LEMMA HandlerHandles ==
    ASSUME ServerInv, NEW r \in Request,
           \/ HandlerCheck(r) \/ HandlerWake(r) \/ GiveUp(r) \/ TokenTimeout(r) \/ Result(r)
           \/ CancelFlag(r) \/ CancelRead(r)
           \/ CancelState(r) \/ CancelFinish(r),
           NEW q \in Request
    PROVE  Handle(q)'
<1>0. /\ Handle(q) /\ Handle(r) /\ flagged \subseteq Request
      /\ DOMAIN handler = Request
      /\ cancelled \in [Request -> BOOLEAN] /\ finished \in [Request -> BOOLEAN]
  BY SomeHandle DEF ServerInv, ServerTypeOK, EngineTypeOK
<1>1. /\ UNCHANGED <<loop, binding, pending, tracked, bound, tokens, emitted, done, received>>
      /\ \E place : Goto(r, place)
  BY DEF HandlerCheck, HandlerWake, GiveUp, TokenTimeout, Result, CancelFlag, CancelRead,
         CancelState, CancelFinish, loopVars, handleVars
<1>2. q # r => handler'[q] = handler[q]
  BY <1>0, <1>1 DEF Goto
<1>3. flagged' = flagged \/ (CancelFlag(r) /\ flagged' = flagged \cup {r})
  BY DEF HandlerCheck, HandlerWake, GiveUp, TokenTimeout, Result, CancelFlag, CancelRead,
         CancelState, CancelFinish
<1>4. ~(CancelState(r) \/ CancelFinish(r)) => SameEngine(q)
  <2>1. ~(CancelState(r) \/ CancelFinish(r)) => UNCHANGED vars
    BY DEF HandlerCheck, HandlerWake, GiveUp, TokenTimeout, Result, CancelFlag, CancelRead
  <2> QED
    BY <2>1, StillEngine DEF vars, engineVars
<1>5. /\ UNCHANGED <<gen, versions, schedulerVars>>
      /\ InScheduler(q)' <=> InScheduler(q)
      /\ q \in submitted' <=> q \in submitted
      /\ q \in active' <=> q \in active
  <2>1. UNCHANGED <<gen, versions, schedulerVars>>
    BY DEF HandlerCheck, HandlerWake, GiveUp, TokenTimeout, Result, CancelFlag, CancelRead,
           CancelState, CancelFinish, SetCancelled, SetFinished, vars, engineVars, requestVars
  <2> QED
    BY <2>1 DEF InScheduler, Prefilling, Decoding, schedulerVars, queueVars
<1>6. CASE q # r
  <2>1. SameEngine(q)
    <3>1. CASE CancelState(r) \/ CancelFinish(r)
      BY <1>0, <1>5, <1>6, <3>1
      DEF CancelState, CancelFinish, SetCancelled, SetFinished, SameEngine
    <3> QED
      BY <1>4, <3>1
  <2>2. SameHandle(q) /\ SameLoop(q)
    BY <1>1, <1>2, <1>3, <1>6 DEF SameHandle, SameLoop
  <2> QED
    BY <1>0, <2>1, <2>2, HandleStays
<1>7. CASE q = r
  <2>1. Sent(q)'
    BY <1>0, <1>1, <1>5 DEF Handle, Sent
  <2>2. Owned(q)'
    <3>1. /\ finished[q] => finished'[q]
          /\ cancelled[q] => cancelled'[q]
      <4>1. CASE CancelState(r) \/ CancelFinish(r)
        BY <1>0, <1>7, <4>1 DEF CancelState, CancelFinish, SetCancelled, SetFinished
      <4> QED
        BY <1>4, <4>1 DEF SameEngine
    <3> QED
      BY <1>0, <1>1, <1>5, <3>1 DEF Handle, Owned
  <2>3. CASE HandlerCheck(r)
    <3>1. handler[r] = "new" /\ handler'[r] \in {"put", "refused"} /\ flagged' = flagged
      BY <1>0, <2>3 DEF HandlerCheck, Goto
    <3>2. SameEngine(q)
      BY <1>4, <2>3 DEF HandlerCheck, CancelState, CancelFinish
    <3>3. Staged(q)'
      BY <1>0, <1>1, <1>7, <3>1, <3>2
      DEF Handle, Staged, Unqueued, Untouched, Unborn, SameEngine
    <3>4. Cancels(q)'
      BY <1>0, <1>1, <1>7, <3>1, <3>2 DEF Handle, Cancels, SameEngine
    <3> QED
      BY <2>1, <2>2, <3>3, <3>4 DEF Handle
  <2>4. CASE HandlerWake(r) \/ GiveUp(r) \/ TokenTimeout(r) \/ Result(r)
    <3>1. /\ handler[r] \in {"wake", "stream", "answered", "result"}
          /\ handler'[r] \in {"stream", "result", "flag", "answered", "timedout"}
          /\ flagged' = flagged
      BY <1>0, <2>4 DEF HandlerWake, GiveUp, TokenTimeout, Result, Goto
    <3>2. SameEngine(q)
      BY <1>4, <3>1 DEF CancelState, CancelFinish
    <3>3. Staged(q)'
      BY <1>0, <1>1, <1>7, <3>1, <3>2
      DEF Handle, Staged, Unqueued, Untouched, Unborn, SameEngine
    <3>4. Cancels(q)'
      BY <1>0, <1>1, <1>7, <3>1, <3>2 DEF Handle, Cancels, SameEngine
    <3> QED
      BY <2>1, <2>2, <3>3, <3>4 DEF Handle
  <2>5. CASE CancelFlag(r) \/ CancelRead(r)
    <3>1. \/ /\ handler[r] = "flag" /\ handler'[r] = "read" /\ flagged' = flagged \cup {r}
          \/ /\ handler[r] = "read" /\ flagged' = flagged
             /\ handler'[r] = IF r \in bound THEN "cancel" ELSE "gone"
      BY <1>0, <2>5 DEF CancelFlag, CancelRead, Goto
    <3>2. SameEngine(q)
      BY <1>4, <3>1 DEF CancelState, CancelFinish
    <3>3. Staged(q)'
      BY <1>0, <1>1, <1>7, <3>1, <3>2
      DEF Handle, Staged, Unqueued, Untouched, Unborn, SameEngine
    <3>4. Cancels(q)'
      BY <1>0, <1>1, <1>7, <3>1, <3>2 DEF Handle, Cancels, SameEngine
    <3> QED
      BY <2>1, <2>2, <3>3, <3>4 DEF Handle
  <2>6. CASE CancelState(r) \/ CancelFinish(r)
    <3>1. /\ flagged' = flagged /\ r \in bound
          /\ \/ handler[r] = "cancel" /\ handler'[r] = "finish"
             \/ handler[r] = "finish" /\ handler'[r] = "gone"
          /\ handler'[r] = "finish" => cancelled'[r]
          /\ handler'[r] = "gone" => finished'[r]
      BY <1>0, <2>6
      DEF CancelState, CancelFinish, SetCancelled, SetFinished, Goto, Handle, Cancels
    <3>2. Staged(q)'
      BY <1>0, <1>1, <1>5, <1>7, <3>1 DEF Handle, Staged, Unqueued, Untouched
    <3>3. Cancels(q)'
      BY <1>0, <1>1, <1>5, <1>7, <3>1 DEF Handle, Cancels
    <3> QED
      BY <2>1, <2>2, <3>2, <3>3 DEF Handle
  <2> QED
    BY <2>3, <2>4, <2>5, <2>6
<1> QED
  BY <1>6, <1>7

LEMMA PutHandles ==
    ASSUME ServerInv, NEW r \in Request, HandlerPut(r), NEW q \in Request
    PROVE  Handle(q)'
<1>0. Handle(q) /\ DOMAIN handler = Request /\ pending \in Seq(Request)
  BY SomeHandle DEF ServerInv, ServerTypeOK
<1>1. /\ UNCHANGED <<vars, loop, binding, tracked, bound, tokens, emitted, done, received,
                     flagged>>
      /\ handler[r] = "put" /\ Goto(r, "wake") /\ pending' = Append(pending, r)
  BY DEF HandlerPut, loopVars, handleVars
<1>2. SameEngine(q)
  BY <1>1, StillEngine DEF vars, engineVars
<1>3. InSeq(q, pending') <=> InSeq(q, pending) \/ q = r
  BY <1>0, <1>1, AppendFacts
<1>4. CASE q # r
  <2>1. SameHandle(q) /\ SameLoop(q)
    BY <1>0, <1>1, <1>3, <1>4 DEF Goto, SameHandle, SameLoop
  <2> QED
    BY <1>0, <1>2, <2>1, HandleStays
<1>5. CASE q = r
  <2>1. handler'[q] = "wake" /\ handler[q] = "put" /\ InSeq(q, pending')
    BY <1>0, <1>1, <1>3, <1>5 DEF Goto
  <2>2. Staged(q)'
    BY <1>0, <1>1, <1>2, <2>1 DEF Handle, Staged, Unqueued, Untouched, Unborn, SameEngine
  <2>3. Sent(q)'
    BY <1>0, <1>1, <1>2 DEF Handle, Sent, SameEngine
  <2>4. Cancels(q)'
    BY <1>0, <1>1, <1>2, <2>1 DEF Handle, Cancels, SameEngine
  <2>5. Owned(q)'
    BY <1>0, <1>1, <1>2 DEF Handle, Owned, SameEngine
  <2> QED
    BY <2>2, <2>3, <2>4, <2>5 DEF Handle
<1> QED
  BY <1>4, <1>5

----------------------------------------------------------------------------
(* Queues of tokens, with and without their end marker. *)

LEMMA BodyFacts ==
    ASSUME NEW b \in Seq(Token)
    PROVE  /\ Body(b) = b
           /\ Body(Append(b, End)) = b
           /\ Append(b, End) # <<>>
           /\ Append(b, End) \notin Seq(Token)
<1>1. End \notin Token
  BY DEF ServerAssumption
<1>2. Body(b) = b
  <2>1. b # <<>> => b[Len(b)] \in Token
    OBVIOUS
  <2> QED
    BY <1>1, <2>1 DEF Body
<1> DEFINE c == Append(b, End)
<1>3. /\ c \in Seq(Token \cup {End}) /\ Len(c) = Len(b) + 1 /\ Len(b) \in Nat
      /\ c[Len(b) + 1] = End
      /\ \A i \in 1 .. Len(b) : c[i] = b[i]
  <2>1. b \in Seq(Token \cup {End})
    OBVIOUS
  <2> QED
    BY <2>1
<1> HIDE DEF c
<1>4. c # <<>> /\ c[Len(c)] = End
  BY <1>3
<1>5. SubSeq(c, 1, Len(c) - 1) = b
  <2> DEFINE d == SubSeq(c, 1, Len(c) - 1)
  <2>1. d \in Seq(Token \cup {End}) /\ Len(d) = Len(b) /\ \A i \in 1 .. Len(b) : d[i] = c[i]
    BY <1>3
  <2>2. \A i \in 1 .. Len(b) : d[i] = b[i]
    BY <1>3, <2>1
  <2>3. b \in Seq(Token \cup {End})
    OBVIOUS
  <2> HIDE DEF d
  <2>4. d = b
    BY <2>1, <2>2, <2>3
  <2> QED
    BY <2>4 DEF d
<1>6. c \notin Seq(Token)
  <2>1. ASSUME c \in Seq(Token) PROVE FALSE
    <3>1. c[Len(c)] \in Token
      BY <1>3, <2>1
    <3> QED
      BY <1>1, <1>4, <3>1
  <2> QED
    BY <2>1
<1>7. Body(c) = b
  BY <1>4, <1>5 DEF Body
<1> QED
  BY <1>2, <1>4, <1>6, <1>7 DEF c

LEMMA TakeOne ==
    ASSUME NEW S, NEW s \in Seq(S), NEW t \in Seq(S), t # <<>>
    PROVE  /\ Head(t) \in S /\ Tail(t) \in Seq(S)
           /\ Append(s, Head(t)) \o Tail(t) = s \o t
<1> DEFINE a == Append(s, Head(t))
           u == Tail(t)
           m == s \o t
<1>1. /\ Len(s) \in Nat /\ Len(t) \in Nat /\ Len(t) >= 1
      /\ Head(t) = t[1] /\ t[1] \in S /\ u \in Seq(S)
      /\ Len(u) = Len(t) - 1
      /\ \A i \in 1 .. Len(t) - 1 : u[i] = t[i + 1]
  OBVIOUS
<1>2. /\ a \in Seq(S) /\ Len(a) = Len(s) + 1
      /\ \A i \in 1 .. Len(s) : a[i] = s[i]
      /\ a[Len(s) + 1] = t[1]
  BY <1>1
<1>3. /\ m \in Seq(S) /\ Len(m) = Len(s) + Len(t)
      /\ \A i \in 1 .. Len(s) : m[i] = s[i]
      /\ \A i \in 1 .. Len(t) : m[Len(s) + i] = t[i]
  BY ConcatFacts
<1> HIDE DEF a, u, m
<1>4. ASSUME NEW i \in 1 .. Len(a) PROVE m[i] = a[i]
  <2>1. CASE i = Len(a)
    <3>1. m[Len(s) + 1] = t[1]
      BY <1>1, <1>3
    <3> QED
      BY <1>2, <2>1, <3>1
  <2>2. CASE i \in 1 .. Len(s)
    BY <1>2, <1>3, <2>2
  <2> QED
    BY <1>1, <1>2, <2>1, <2>2
<1>5. ASSUME NEW i \in 1 .. Len(u) PROVE m[Len(a) + i] = u[i]
  <2>1. i + 1 \in 1 .. Len(t) /\ Len(a) + i = Len(s) + (i + 1) /\ i \in 1 .. Len(t) - 1
    BY <1>1, <1>2
  <2> QED
    BY <1>1, <1>3, <2>1
<1>6. a \o u = m
  <2>1. Len(m) = Len(a) + Len(u)
    BY <1>1, <1>2, <1>3
  <2> QED
    BY <1>1, <1>2, <1>3, <1>4, <1>5, <2>1, SameConcat, ZenonT(60)
<1> QED
  BY <1>1, <1>6 DEF a, u, m

\* Taking the head of a queue that has its end marker.
LEMMA TakeEnded ==
    ASSUME NEW b \in Seq(Token)
    PROVE  /\ b = <<>> => Head(Append(b, End)) = End /\ Tail(Append(b, End)) = <<>>
           /\ b # <<>> => /\ Head(Append(b, End)) = Head(b) /\ Head(b) \in Token
                          /\ Tail(b) \in Seq(Token)
                          /\ Tail(Append(b, End)) = Append(Tail(b), End)
<1> DEFINE T == Token \cup {End}
           c == Append(b, End)
<1>1. /\ b \in Seq(T) /\ End \in T
  OBVIOUS
<1>2. /\ c \in Seq(T) /\ Len(c) = Len(b) + 1 /\ Len(b) \in Nat
      /\ c[Len(b) + 1] = End
      /\ \A i \in 1 .. Len(b) : c[i] = b[i]
      /\ Head(c) = c[1] /\ Tail(c) \in Seq(T) /\ Len(Tail(c)) = Len(b)
      /\ \A i \in 1 .. Len(b) : Tail(c)[i] = c[i + 1]
  BY <1>1, SMTT(30)
<1>3. CASE b = <<>>
  <2>1. Len(b) = 0
    BY <1>3
  <2>2. Tail(c) = <<>> /\ Head(c) = End
    BY <1>2, <2>1
  <2> QED
    BY <1>3, <2>2
<1>4. CASE b # <<>>
  <2>1. /\ Len(b) >= 1 /\ Head(b) = b[1] /\ b[1] \in Token
        /\ Tail(b) \in Seq(Token) /\ Len(Tail(b)) = Len(b) - 1
        /\ \A i \in 1 .. Len(b) - 1 : Tail(b)[i] = b[i + 1]
    BY <1>2, <1>4
  <2>2. Head(c) = Head(b)
    BY <1>2, <2>1
  <2> DEFINE d == Append(Tail(b), End)
  <2>3. /\ d \in Seq(T) /\ Len(d) = Len(b)
        /\ \A i \in 1 .. Len(b) - 1 : d[i] = Tail(b)[i]
        /\ d[Len(b)] = End
    <3>1. Tail(b) \in Seq(T)
      BY <2>1
    <3> QED
      BY <1>2, <2>1, <3>1
  <2>4. ASSUME NEW i \in 1 .. Len(b) PROVE Tail(c)[i] = d[i]
    <3>1. CASE i = Len(b)
      BY <1>2, <2>1, <2>3, <3>1
    <3>2. CASE i \in 1 .. Len(b) - 1
      <4>1. i + 1 \in 1 .. Len(b)
        BY <1>2, <2>1, <3>2
      <4>2. Tail(c)[i] = c[i + 1] /\ c[i + 1] = b[i + 1]
        BY <1>2, <4>1
      <4> HIDE DEF c, d
      <4> QED
        BY <2>1, <2>3, <3>2, <4>2
    <3> QED
      BY <1>2, <3>1, <3>2
  <2>5. Tail(c) = d
    <3> HIDE DEF d, T
    <3> DEFINE e == Tail(c)
    <3>1. e \in Seq(T) /\ Len(e) = Len(b) /\ d \in Seq(T) /\ Len(d) = Len(b)
          /\ \A i \in 1 .. Len(b) : e[i] = d[i]
      BY <1>2, <2>3, <2>4
    <3> HIDE DEF e
    <3>2. e = d
      BY <1>2, <3>1
    <3> QED
      BY <3>2 DEF e
  <2> QED
    BY <1>4, <2>1, <2>2, <2>5
<1> QED
  BY <1>3, <1>4

----------------------------------------------------------------------------
(* A handler takes a token, or the end marker. *)

LEMMA TakeSent ==
    ASSUME ServerTypeOK, NEW r \in Request, NextToken(r), Sent(r)
    PROVE  /\ Sent(r)'
           /\ Body(tokens[r]) \in Seq(Token)
           /\ received'[r] \in Seq(Token)
           /\ \/ /\ received' = received
                 /\ Body(tokens'[r]) = Body(tokens[r])
              \/ /\ Body(tokens[r]) # <<>>
                 /\ received'[r] = Append(received[r], Head(Body(tokens[r])))
                 /\ Body(tokens'[r]) = Tail(Body(tokens[r]))
<1>0. /\ received[r] \in Seq(Token) /\ DOMAIN received = Request /\ DOMAIN tokens = Request
      /\ tokens'[r] = Tail(tokens[r]) /\ tokens[r] # <<>>
      /\ UNCHANGED <<gen, tracked, emitted, done>>
      /\ End \notin Token
  BY DEF ServerTypeOK, NextToken, vars, engineVars, requestVars, ServerAssumption
<1>1. CASE tokens[r] \in Seq(Token)
  <2> DEFINE t == tokens[r]
             s == received[r]
  <2>1. Head(t) \in Token /\ Tail(t) \in Seq(Token) /\ Append(s, Head(t)) \o Tail(t) = s \o t
    BY <1>0, <1>1, TakeOne
  <2>2. Head(t) # End
    BY <1>0, <2>1
  <2>3. received'[r] = Append(s, Head(t))
    BY <1>0, <2>2 DEF NextToken
  <2>4. Append(s, Head(t)) \in Seq(Token)
    BY <1>0, <2>1
  <2>5. received'[r] \o tokens'[r] = s \o t
    BY <1>0, <2>1, <2>3
  <2>6. Sent(r)'
    BY <1>0, <1>1, <2>1, <2>5 DEF Sent
  <2>7. Body(t) = t /\ Body(tokens'[r]) = Tail(t)
    BY <1>0, <1>1, <2>1, BodyFacts
  <2> QED
    BY <1>0, <1>1, <2>3, <2>4, <2>6, <2>7
<1>2. CASE tokens[r] \notin Seq(Token)
  <2> DEFINE b == Body(tokens[r])
  <2>0. r \in done /\ r \notin tracked /\ b \in Seq(Token) /\ tokens[r] = Append(b, End)
    BY <1>2 DEF Sent
  <2> HIDE DEF b
  <2>1. CASE b = <<>>
    <3>1. Head(tokens[r]) = End /\ tokens'[r] = <<>>
      BY <1>0, <2>0, <2>1, TakeEnded
    <3>2. received' = received
      BY <3>1 DEF NextToken
    <3>3. tokens'[r] \in Seq(Token)
      BY <3>1
    <3>4. Body(tokens'[r]) = <<>>
      BY <3>1, <3>3, BodyFacts
    <3>5. Sent(r)'
      BY <1>0, <2>0, <3>3 DEF Sent
    <3> QED
      BY <1>0, <2>0, <2>1, <3>2, <3>4, <3>5 DEF b
  <2>2. CASE b # <<>>
    <3>1. /\ Head(tokens[r]) = Head(b) /\ Head(b) \in Token
          /\ Tail(b) \in Seq(Token) /\ tokens'[r] = Append(Tail(b), End)
      BY <1>0, <2>0, <2>2, TakeEnded
    <3>2. received'[r] = Append(received[r], Head(b))
      BY <1>0, <3>1 DEF NextToken
    <3>3. Body(tokens'[r]) = Tail(b)
      BY <3>1, BodyFacts
    <3>4. Append(received[r], Head(b)) \in Seq(Token)
      BY <1>0, <3>1
    <3>5. Sent(r)'
      BY <1>0, <2>0, <3>1, <3>3 DEF Sent
    <3> QED
      BY <2>0, <2>2, <3>2, <3>3, <3>4, <3>5 DEF b
  <2> QED
    BY <2>1, <2>2
<1> QED
  BY <1>1, <1>2

LEMMA TakeHandles ==
    ASSUME ServerInv, NEW r \in Request, NextToken(r), NEW q \in Request
    PROVE  Handle(q)'
<1>0. /\ Handle(q) /\ ServerTypeOK /\ DOMAIN handler = Request /\ DOMAIN tokens = Request
      /\ DOMAIN received = Request
  BY SomeHandle DEF ServerInv, ServerTypeOK
<1>1. /\ UNCHANGED <<vars, loop, binding, pending, tracked, bound, emitted, done, flagged>>
      /\ handler[r] = "stream" /\ handler'[r] \in {"stream", "result"}
      /\ tokens[r] # <<>>
      /\ q # r => tokens'[q] = tokens[q] /\ received'[q] = received[q]
                    /\ handler'[q] = handler[q]
  BY <1>0 DEF NextToken, loopVars, Goto
<1>2. SameEngine(q)
  BY <1>1, StillEngine DEF vars, engineVars
<1>3. CASE q # r
  <2>1. SameHandle(q) /\ SameLoop(q)
    BY <1>1, <1>3 DEF SameHandle, SameLoop
  <2> QED
    BY <1>0, <1>2, <2>1, HandleStays
<1>4. CASE q = r
  <2>2. Staged(q)'
    BY <1>0, <1>1, <1>2, <1>4 DEF Handle, Staged, Unqueued, Untouched, Unborn, SameEngine
  <2>3. Sent(q)'
    BY <1>0, <1>4, TakeSent DEF Handle
  <2>4. Cancels(q)'
    BY <1>0, <1>1, <1>2, <1>4 DEF Handle, Cancels, SameEngine
  <2>5. Owned(q)'
    BY <1>0, <1>1, <1>2 DEF Handle, Owned, SameEngine
  <2> QED
    BY <2>2, <2>3, <2>4, <2>5 DEF Handle
<1> QED
  BY <1>3, <1>4

----------------------------------------------------------------------------
(* The loop takes a handle from _pending. *)

LEMMA SubmitHandles ==
    ASSUME ServerInv, NEW r \in Request, DrainSubmit(r), NEW q \in Request
    PROVE  Handle(q)'
<1>0. Handle(q) /\ Handle(r) /\ Inv /\ FirstSubmit(r)
  BY SomeHandle, SubmitIsFirst DEF ServerInv
<1>1. /\ UNCHANGED <<handler, received, flagged, tracked, bound, tokens, emitted, done>>
      /\ TakePending /\ r = Head(pending) /\ loop = "drain" /\ loop' = "bind" /\ binding' = r
  BY DEF DrainSubmit, TakePending, handlerVars, handleVars
<1>2. /\ InSeq(q, pending) <=> q = r \/ InSeq(q, pending')
      /\ InSeq(r, pending) /\ ~InSeq(r, pending') /\ Untouched(r)
      /\ ~Unqueued(r) /\ r \notin tracked /\ r \notin done /\ binding = NoRequest
  BY <1>1, PendingHead
<1>3. NoRequest \notin Request
  BY DEF SchedulerAssumption
<1>4. CASE q # r
  <2>1. SameHandle(q) /\ SameLoop(q)
    BY <1>1, <1>2, <1>3, <1>4 DEF SameHandle, SameLoop
  <2>2. SameEngine(q)
    BY <1>0, <1>4, SubmitSame
  <2> QED
    BY <1>0, <2>1, <2>2, HandleStays
<1>5. CASE q = r
  <2>1. InScheduler(q)'
    BY <1>0, <1>5, SubmitEnters
  <2>2. /\ UNCHANGED <<gen, finished, cancelled, active>>
        /\ tokens[q] = <<>> /\ received[q] = <<>> /\ emitted[q] = 0 /\ q \notin bound
        /\ ~cancelled[q]
    BY <1>0, <1>2, <1>5 DEF FirstSubmit, Submit, NewRequest, Untouched, Unborn
  <2>3. Staged(q)'
    BY <1>1, <1>2, <1>5, <2>1, <2>2 DEF Staged, Unqueued
  <2>4. Sent(q)'
    BY <1>1, <1>2, <1>5, <2>2 DEF Sent
  <2>5. Cancels(q)'
    BY <1>0, <1>1, <1>5, <2>2 DEF Handle, Cancels
  <2>6. Owned(q)'
    BY <1>1, <1>2, <1>5, <2>2 DEF Owned
  <2> QED
    BY <2>3, <2>4, <2>5, <2>6 DEF Handle
<1> QED
  BY <1>4, <1>5

LEMMA FailHandles ==
    ASSUME ServerInv, NEW r \in Request, DrainFail(r), NEW q \in Request
    PROVE  Handle(q)'
<1>0. /\ Handle(q) /\ Handle(r) /\ Inv /\ DOMAIN tokens = Request
      /\ tokens \in [Request -> Seq(Token \cup {End})]
  BY SomeHandle DEF ServerInv, ServerTypeOK
<1>1. /\ UNCHANGED <<vars, handler, received, flagged, tracked, bound, emitted, binding, loop>>
      /\ TakePending /\ r = Head(pending) /\ loop = "drain"
      /\ done' = done \cup {r}
      /\ tokens' = [tokens EXCEPT ![r] = Append(@, End)]
  BY DEF DrainFail, TakePending, handlerVars
<1>2. /\ InSeq(q, pending) <=> q = r \/ InSeq(q, pending')
      /\ InSeq(r, pending) /\ ~InSeq(r, pending') /\ Untouched(r)
      /\ ~Unqueued(r) /\ r \notin tracked /\ r \notin done /\ binding = NoRequest
  BY <1>1, PendingHead
<1>3. NoRequest \notin Request
  BY DEF SchedulerAssumption
<1>s. SameEngine(q)
  BY <1>1, StillEngine DEF vars, engineVars
<1>4. CASE q # r
  <2>1. SameHandle(q) /\ SameLoop(q)
    BY <1>0, <1>1, <1>2, <1>4 DEF SameHandle, SameLoop
  <2> QED
    BY <1>0, <1>s, <2>1, HandleStays
<1>5. CASE q = r
  <2>1. ~InScheduler(q) /\ q \notin active
    BY <1>0, <1>2, <1>5, InMeansSubmitted DEF Untouched, InScheduler, Decoding
  <2>2. tokens'[q] = Append(<<>>, End) /\ <<>> \in Seq(Token)
    BY <1>0, <1>1, <1>2, <1>5 DEF Untouched
  <2>3. Staged(q)'
    BY <1>1, <1>2, <1>3, <1>5 DEF Staged, Unqueued
  <2>4. Sent(q)'
    <3>1. Body(tokens'[q]) = <<>>
      BY <2>2, BodyFacts
    <3> QED
      BY <1>1, <1>2, <1>5, <2>2, <3>1 DEF Sent
  <2>5. Cancels(q)'
    BY <1>0, <1>1, <1>s, <1>5 DEF Handle, Cancels, SameEngine
  <2>6. Owned(q)'
    BY <1>1, <1>2, <1>5, <1>s, <2>1 DEF Owned, SameEngine
  <2> QED
    BY <2>3, <2>4, <2>5, <2>6 DEF Handle
<1> QED
  BY <1>4, <1>5

LEMMA SpeculativeHandles ==
    ASSUME ServerInv, NEW r \in Request, DrainSpeculative(r), NEW q \in Request
    PROVE  Handle(q)'
<1>0. /\ Handle(q) /\ Handle(r) /\ Inv /\ DOMAIN tokens = Request /\ DOMAIN emitted = Request
      /\ DOMAIN gen = Request /\ finished \in [Request -> BOOLEAN]
  BY SomeHandle DEF ServerInv, ServerTypeOK, EngineTypeOK
<1>1. /\ UNCHANGED <<handler, received, flagged, tracked, binding, loop, cancelled, versions,
                     schedulerVars>>
      /\ TakePending /\ r = Head(pending) /\ loop = "drain"
      /\ done' = done \cup {r} /\ bound' = bound \cup {r}
      /\ finished' = [finished EXCEPT ![r] = TRUE]
  BY DEF DrainSpeculative, TakePending, handlerVars
<1>a. PICK answer \in SpecAnswers(r) :
         /\ gen' = [gen EXCEPT ![r] = answer]
         /\ tokens' = [tokens EXCEPT ![r] = @ \o Append(answer, End)]
         /\ emitted' = [emitted EXCEPT ![r] = Len(answer)]
  BY DEF DrainSpeculative
<1>2. /\ InSeq(q, pending) <=> q = r \/ InSeq(q, pending')
      /\ InSeq(r, pending) /\ ~InSeq(r, pending') /\ Untouched(r)
      /\ ~Unqueued(r) /\ r \notin tracked /\ r \notin done /\ binding = NoRequest
  BY <1>1, PendingHead
<1>3. NoRequest \notin Request
  BY DEF SchedulerAssumption
<1>s. /\ InScheduler(q)' <=> InScheduler(q)
      /\ UNCHANGED <<submitted, active>>
  BY <1>1 DEF schedulerVars, queueVars, InScheduler, Prefilling, Decoding
<1>4. CASE q # r
  <2>1. SameHandle(q) /\ SameLoop(q)
    BY <1>0, <1>1, <1>a, <1>2, <1>4 DEF SameHandle, SameLoop
  <2>2. gen'[q] = gen[q] /\ finished'[q] = finished[q]
    BY <1>0, <1>1, <1>a, <1>4
  <2>3. SameEngine(q)
    BY <1>1, <1>s, <2>2 DEF SameEngine
  <2> QED
    BY <1>0, <2>1, <2>3, HandleStays
<1>5. CASE q = r
  <2>1. ~InScheduler(q) /\ q \notin active
    BY <1>0, <1>2, <1>5, InMeansSubmitted DEF Untouched, InScheduler, Decoding
  <2>a. answer \in Seq(Token)
    BY AnswerFacts
  <2>2. tokens'[q] = Append(answer, End)
    <3>1. Append(answer, End) \in Seq(Token \cup {End})
      BY <2>a
    <3>2. <<>> \o Append(answer, End) = Append(answer, End)
      BY <3>1
    <3>3. tokens[q] = <<>>
      BY <1>2, <1>5 DEF Untouched
    <3> QED
      BY <1>0, <1>a, <1>5, <3>2, <3>3
  <2>3. Staged(q)'
    BY <1>1, <1>2, <1>3, <1>5 DEF Staged, Unqueued
  <2>4. Sent(q)'
    <3>1. Body(tokens'[q]) = answer
      BY <2>a, <2>2, BodyFacts
    <3> QED
      BY <1>1, <1>2, <1>5, <2>a, <2>2, <3>1 DEF Sent
  <2>f. finished'[q] /\ ~cancelled[q]
    BY <1>0, <1>1, <1>2, <1>5, Zenon DEF Untouched, Unborn
  <2>5. Cancels(q)'
    BY <1>0, <1>1, <1>5, <2>f DEF Handle, Cancels
  <2>6. Owned(q)'
    BY <1>1, <1>2, <1>5, <1>s, <2>1 DEF Owned
  <2> QED
    BY <2>3, <2>4, <2>5, <2>6 DEF Handle
<1> QED
  BY <1>4, <1>5

----------------------------------------------------------------------------
(* The handle that is being bound. *)

LEMMA BindHandles ==
    ASSUME ServerInv, Bind, NEW q \in Request
    PROVE  Handle(q)'
<1>0. Handle(q) /\ Loops
  BY SomeHandle DEF ServerInv
<1>1. /\ UNCHANGED <<vars, handler, received, flagged, tracked, binding, pending, tokens,
                     emitted, done>>
      /\ bound' = bound \cup {binding} /\ loop = "bind" /\ loop' = "flag"
  BY DEF Bind, handlerVars
<1>2. SameEngine(q)
  BY <1>1, StillEngine DEF vars, engineVars
<1>3. CASE q # binding
  <2>1. SameHandle(q) /\ SameLoop(q)
    BY <1>1, <1>3 DEF SameHandle, SameLoop
  <2> QED
    BY <1>0, <1>2, <2>1, HandleStays
<1>4. CASE q = binding
  <2>1. Staged(q)'
    BY <1>0, <1>1, <1>2, <1>4 DEF Handle, Staged, Unqueued, Untouched, SameEngine
  <2>2. Sent(q)'
    BY <1>0, <1>1, <1>2, <1>4 DEF Handle, Sent, SameEngine
  <2>3. Cancels(q)'
    BY <1>0, <1>1, <1>2, <1>4 DEF Handle, Cancels, SameEngine
  <2>4. Owned(q)'
    BY <1>0, <1>1, <1>2, <1>4 DEF Handle, Owned, SameEngine
  <2> QED
    BY <2>1, <2>2, <2>3, <2>4 DEF Handle
<1> QED
  BY <1>3, <1>4

LEMMA TrackHandles ==
    ASSUME ServerInv, Track, NEW q \in Request
    PROVE  Handle(q)'
<1>0. /\ Handle(q) /\ Loops /\ Inv /\ binding \in Request /\ NoRequest \notin Request
      /\ gen \in [Request -> Seq(Token)]
      /\ cancelled \in [Request -> BOOLEAN] /\ finished \in [Request -> BOOLEAN]
  BY SomeHandle DEF ServerInv, ServerTypeOK, EngineTypeOK, Loops, Track, SchedulerAssumption
<1>1. /\ UNCHANGED <<gen, versions, schedulerVars, handler, received, flagged, pending, tokens,
                     emitted, done, bound>>
      /\ tracked' = tracked \cup {binding} /\ binding' = NoRequest
      /\ loop = "flag" /\ loop' = "drain"
  BY DEF Track, handlerVars
<1>2. /\ cancelled'[q] <=> cancelled[q] \/ (q = binding /\ q \in flagged)
      /\ finished'[q] <=> finished[q] \/ (q = binding /\ q \in flagged)
  BY <1>0, Zenon DEF Track, FlaggedEarly
<1>3. /\ InScheduler(q)' <=> InScheduler(q)
      /\ UNCHANGED <<submitted, active>>
  BY <1>1 DEF schedulerVars, queueVars, InScheduler, Prefilling, Decoding
<1>4. CASE q # binding
  <2>1. SameHandle(q) /\ SameLoop(q)
    BY <1>0, <1>1, <1>4 DEF SameHandle, SameLoop
  <2>2. cancelled'[q] = cancelled[q] /\ finished'[q] = finished[q]
    BY <1>0, <1>4, Zenon DEF Track, FlaggedEarly
  <2>3. SameEngine(q)
    BY <1>1, <1>3, <2>2 DEF SameEngine
  <2> QED
    BY <1>0, <2>1, <2>3, HandleStays
<1>5. CASE q = binding
  <2>0. InScheduler(q) /\ q \in submitted
    BY <1>0, <1>5, InMeansSubmitted DEF Handle, Staged
  <2>1. Staged(q)'
    BY <1>0, <1>1, <1>3, <1>5, <2>0 DEF Handle, Staged, Unqueued, Untouched
  <2>2. Sent(q)'
    <3>1. /\ tokens[q] = <<>> /\ received[q] = <<>> /\ emitted[q] = 0 /\ q \notin done
          /\ gen[q] \in Seq(Token)
      BY <1>0, <1>5 DEF Handle, Staged
    <3>2. <<>> \o <<>> = SubSeq(gen[q], 1, 0) /\ 0 \in 0 .. Len(gen[q]) /\ <<>> \in Seq(Token)
      BY <3>1
    <3> QED
      BY <1>1, <3>1, <3>2 DEF Sent
  <2>3. Cancels(q)'
    BY <1>0, <1>1, <1>2, <1>5 DEF Handle, Cancels, Staged
  <2>4. Owned(q)'
    BY <1>0, <1>1, <1>3, <1>5, <2>0 DEF Handle, Owned, Staged
  <2> QED
    BY <2>1, <2>2, <2>3, <2>4 DEF Handle
<1> QED
  BY <1>4, <1>5

----------------------------------------------------------------------------
(* Ticks. *)

LEMMA TickGen ==
    ASSUME Inv, DecodeScan \/ TickStep, NEW q \in Request
    PROVE  gen'[q] = gen[q] \/ \E x \in Token : gen'[q] = Append(gen[q], x)
<1>1. ASSUME NEW S, NEW token \in [S -> Token], Sample(S, token)
      PROVE  gen'[q] = gen[q] \/ \E x \in Token : gen'[q] = Append(gen[q], x)
  <2>1. q \in S => token[q] \in Token
    OBVIOUS
  <2> QED
    BY <1>1, <2>1 DEF Sample
<1>2. CASE \E r \in Request : AdvanceGroup(r)
  BY <1>1, <1>2 DEF AdvanceGroup, DecodeGroupBatched
<1>3. CASE \E r \in Request : AdvanceAlone(r)
  BY <1>1, <1>3 DEF AdvanceAlone, DecodeSample, engineVars, requestVars
<1>4. CASE DecodeScan \/ Settle \/ PrefillPop \/ Feed \/ DecodeEnd \/ PrefillRun \/ PrefillEnd
  BY <1>4 DEF DecodeScan, Settle, PrefillPop, Retire, Feed, DecodeEnd, PrefillRun, PrefillEnd,
              DecodeForward, PrefillAndCommit, engineVars, requestVars
<1> QED
  BY <1>2, <1>3, <1>4 DEF TickStep

\* What was generated so far does not depend on what is generated next.
LEMMA EarlierPart ==
    ASSUME NEW S, NEW s \in Seq(S), NEW x \in S, NEW n \in 0 .. Len(s)
    PROVE  /\ n \in 0 .. Len(Append(s, x))
           /\ SubSeq(Append(s, x), 1, n) = SubSeq(s, 1, n)
<1>1. /\ Append(s, x) \in Seq(S) /\ Len(Append(s, x)) = Len(s) + 1 /\ Len(s) \in Nat
      /\ n \in Nat /\ n <= Len(s)
      /\ \A i \in 1 .. Len(s) : Append(s, x)[i] = s[i]
  OBVIOUS
<1> DEFINE l == SubSeq(Append(s, x), 1, n)
           m == SubSeq(s, 1, n)
<1>2. l \in Seq(S) /\ Len(l) = n /\ \A i \in 1 .. n : l[i] = Append(s, x)[i]
  BY <1>1
<1>3. m \in Seq(S) /\ Len(m) = n /\ \A i \in 1 .. n : m[i] = s[i]
  BY <1>1
<1>4. l = m
  <2>1. \A i \in 1 .. n : i \in 1 .. Len(s)
    BY <1>1
  <2>2. \A i \in 1 .. n : l[i] = m[i]
    BY <1>1, <1>2, <1>3, <2>1
  <2> HIDE DEF l, m
  <2> QED
    BY <1>2, <1>3, <2>2
<1> QED
  BY <1>1, <1>4

LEMMA TickHandles ==
    ASSUME ServerInv, BeginTick \/ RunTick, NEW q \in Request
    PROVE  Handle(q)'
<1>0. /\ Handle(q) /\ Loops /\ Inv /\ NoRequest \notin Request
      /\ gen[q] \in Seq(Token)
  BY SomeHandle DEF ServerInv, ServerTypeOK, EngineTypeOK, SchedulerAssumption
<1>1. /\ UNCHANGED <<handler, received, flagged, pending, tokens, tracked, binding, emitted,
                     done, bound>>
      /\ loop \in {"work", "tick"} /\ loop' \in {"tick", "pump"}
      /\ DecodeScan \/ TickStep
  BY DEF BeginTick, RunTick, handlerVars, handleVars
<1>2. /\ binding = NoRequest
      /\ q \in done /\ InScheduler(q) => finished[q]
  BY <1>0, <1>1 DEF Loops, Handle, Owned
<1>3. /\ submitted' = submitted
      /\ cancelled' = cancelled
      /\ finished[q] => finished'[q]
      /\ q \in active' => q \in active \/ (tick = "idle" /\ InScheduler(q) /\ ~finished[q])
      /\ InScheduler(q)' => InScheduler(q)
      /\ InScheduler(q) /\ ~InScheduler(q)' => finished'[q]
      /\ ~InScheduler(q) => SameEngine(q)
  BY <1>0, <1>1, TickMoves
<1>4. Staged(q)'
  <2>1. Untouched(q) => Untouched(q)'
    <3>1. q \notin submitted => SameEngine(q)
      BY <1>0, <1>3, InMeansSubmitted
    <3> QED
      BY <1>1, <3>1 DEF Untouched, Unborn, SameEngine
  <2> QED
    BY <1>0, <1>1, <1>2, <1>3, <2>1 DEF Handle, Staged, Unqueued
<1>5. Sent(q)'
  <2>1. CASE gen'[q] = gen[q]
    BY <1>0, <1>1, <2>1 DEF Handle, Sent
  <2>2. CASE \E x \in Token : gen'[q] = Append(gen[q], x)
    <3>1. PICK x \in Token : gen'[q] = Append(gen[q], x)
      BY <2>2
    <3>2. emitted[q] \in 0 .. Len(gen[q]) => /\ emitted[q] \in 0 .. Len(gen'[q])
                                             /\ SubSeq(gen'[q], 1, emitted[q]) =
                                                  SubSeq(gen[q], 1, emitted[q])
      BY <1>0, <3>1, EarlierPart
    <3> QED
      BY <1>0, <1>1, <3>2 DEF Handle, Sent
  <2> QED
    BY <1>0, <1>1, <2>1, <2>2, TickGen
<1>6. Cancels(q)'
  BY <1>0, <1>1, <1>3 DEF Handle, Cancels
<1>7. Owned(q)'
  BY <1>0, <1>1, <1>2, <1>3 DEF Handle, Owned
<1> QED
  BY <1>4, <1>5, <1>6, <1>7 DEF Handle

----------------------------------------------------------------------------
(* The pump and the shutdown. *)

LEMMA Associative ==
    ASSUME NEW S, NEW s \in Seq(S), NEW t \in Seq(S), NEW u \in Seq(S)
    PROVE  s \o (t \o u) = (s \o t) \o u
<1> DEFINE left == s \o t
           right == t \o u
           both == s \o right
<1>1. /\ left \in Seq(S) /\ Len(left) = Len(s) + Len(t)
      /\ \A i \in 1 .. Len(s) : left[i] = s[i]
      /\ \A i \in 1 .. Len(t) : left[Len(s) + i] = t[i]
  BY ConcatFacts
<1>2. /\ right \in Seq(S) /\ Len(right) = Len(t) + Len(u)
      /\ \A i \in 1 .. Len(t) : right[i] = t[i]
      /\ \A i \in 1 .. Len(u) : right[Len(t) + i] = u[i]
  BY ConcatFacts
<1> HIDE DEF left, right
<1>3. /\ both \in Seq(S) /\ Len(both) = Len(s) + Len(right)
      /\ \A i \in 1 .. Len(s) : both[i] = s[i]
      /\ \A i \in 1 .. Len(right) : both[Len(s) + i] = right[i]
  <2>1. right \in Seq(S)
    BY <1>2
  <2> QED
    BY <2>1, ConcatFacts
<1> HIDE DEF both
<1>0. Len(s) \in Nat /\ Len(t) \in Nat /\ Len(u) \in Nat
  OBVIOUS
<1>4. ASSUME NEW i \in 1 .. Len(left) PROVE both[i] = left[i]
  <2>1. CASE i \in 1 .. Len(s)
    BY <1>1, <1>3, <2>1
  <2>2. CASE i \notin 1 .. Len(s)
    <3> DEFINE k == i - Len(s)
    <3>1. k \in 1 .. Len(t) /\ k \in 1 .. Len(right) /\ i = Len(s) + k
      BY <1>0, <1>1, <1>2, <2>2
    <3> HIDE DEF k
    <3> QED
      BY <1>1, <1>2, <1>3, <3>1
  <2> QED
    BY <2>1, <2>2
<1>5. ASSUME NEW i \in 1 .. Len(u) PROVE both[Len(left) + i] = u[i]
  <2>1. Len(left) + i = Len(s) + (Len(t) + i) /\ Len(t) + i \in 1 .. Len(right)
    BY <1>0, <1>1, <1>2
  <2> QED
    BY <1>2, <1>3, <2>1
<1>6. Len(both) = Len(left) + Len(u)
  BY <1>0, <1>1, <1>2, <1>3
<1>7. left \o u = both
  BY <1>1, <1>3, <1>4, <1>5, <1>6, SameConcat
<1> QED
  BY <1>7 DEF left, right, both

\* The tokens of a tracked request after a pump.
LEMMA Pumped ==
    ASSUME ServerTypeOK, NEW q \in tracked, Sent(q)
    PROVE  /\ tokens[q] \o Unsent(q) \in Seq(Token)
           /\ received[q] \o (tokens[q] \o Unsent(q)) = gen[q]
           /\ SubSeq(gen[q], 1, Len(gen[q])) = gen[q]
           /\ Len(gen[q]) \in 0 .. Len(gen[q])
           /\ SubSeq(gen[q], 1, emitted[q]) = received[q] \o tokens[q]
<1> DEFINE g == gen[q]
           e == emitted[q]
           u == Unsent(q)
           t == tokens[q]
           s == received[q]
<1>0. /\ q \in Request /\ g \in Seq(Token) /\ e \in Nat /\ e <= Len(g) /\ Len(g) \in Nat
      /\ t \in Seq(Token) /\ s \in Seq(Token) /\ s \o t = SubSeq(g, 1, e)
  <2>1. q \in Request /\ g \in Seq(Token) /\ s \in Seq(Token)
    BY DEF ServerTypeOK, EngineTypeOK
  <2>2. t \in Seq(Token) /\ e \in 0 .. Len(g) /\ s \o t = SubSeq(g, 1, e)
    BY DEF Sent
  <2>3. Len(g) \in Nat
    BY <2>1
  <2> QED
    BY <2>1, <2>2, <2>3
<1>1. u = SubSeq(g, e + 1, Len(g))
  BY DEF Unsent
<1> HIDE DEF g, e, u, t, s
<1>2. u \in Seq(Token)
  <2>1. e + 1 \in 1 .. Len(g) + 1
    BY <1>0
  <2> QED
    BY <1>0, <1>1, <2>1
<1>3. SubSeq(g, 1, Len(g)) = g
  BY <1>0
<1>4. (s \o t) \o u = g
  <2> DEFINE n == Len(g) - e
  <2>1. n \in Nat /\ e + n = Len(g) /\ e + n <= Len(g)
    BY <1>0
  <2> HIDE DEF n
  <2>2. SubSeq(g, 1, e) \o SubSeq(g, e + 1, e + n) = SubSeq(g, 1, e + n)
    <3>1. g \in Seq(Token) /\ e \in Nat /\ e + n <= Len(g)
      BY <1>0, <2>1
    <3>2. \A m, k \in Nat : m + k <= Len(g) =>
            SubSeq(g, 1, m) \o SubSeq(g, m + 1, m + k) = SubSeq(g, 1, m + k)
      BY <3>1, SubSeqFacts
    <3> QED
      BY <2>1, <3>1, <3>2
  <2> QED
    BY <1>0, <1>1, <1>3, <2>1, <2>2
<1>5. s \o (t \o u) = (s \o t) \o u
  <2>1. s \in Seq(Token) /\ t \in Seq(Token)
    BY <1>0
  <2> QED
    BY <1>2, <2>1, Associative
<1>6. t \o u \in Seq(Token)
  BY <1>0, <1>2
<1> QED
  BY <1>0, <1>3, <1>4, <1>5, <1>6 DEF g, e, u, t, s

LEMMA PumpHandles ==
    ASSUME ServerInv, Pump, NEW q \in Request
    PROVE  Handle(q)'
<1>0. /\ Handle(q) /\ Loops /\ Inv /\ EndsOf(q) /\ ServerTypeOK
  BY SomeHandle DEF ServerInv, EndsInv
<1>1. /\ UNCHANGED <<vars, handler, received, flagged, pending, binding, bound>>
      /\ loop = "pump" /\ loop' = "top" /\ tick = "idle" /\ binding = NoRequest
      /\ tracked' = tracked \ Over /\ done' = done \cup Over
      /\ tracked \subseteq Request /\ binding # q
  BY <1>0 DEF Pump, handlerVars, Loops, ServerTypeOK, SchedulerAssumption
<1>2. active = {} /\ cohort = {}
  BY <1>0, <1>1 DEF Inv, Phases
<1>3. /\ tokens'[q] = IF q \in Over THEN Append(tokens[q] \o Unsent(q), End)
                      ELSE IF q \in tracked THEN tokens[q] \o Unsent(q) ELSE tokens[q]
      /\ emitted'[q] = IF q \in tracked THEN Len(gen[q]) ELSE emitted[q]
      /\ q \in Over <=> q \in tracked /\ finished[q]
  BY DEF Pump, Over
<1>s. SameEngine(q)
  BY <1>1, StillEngine DEF vars, engineVars
<1>4. CASE q \notin tracked
  <2>1. SameHandle(q)
    BY <1>1, <1>3, <1>4 DEF SameHandle
  <2>2. Staged(q)' /\ Sent(q)' /\ Cancels(q)'
    BY <1>0, <1>1, <1>s, <2>1
    DEF Handle, Staged, Sent, Cancels, Unqueued, Untouched, Unborn, SameEngine, SameHandle
  <2>3. Owned(q)'
    BY <1>0, <1>1, <1>s, <1>4, <2>1 DEF Handle, Owned, SameEngine, SameHandle
  <2> QED
    BY <2>2, <2>3 DEF Handle
<1>5. CASE q \in tracked
  <2>1. Staged(q)'
    BY <1>0, <1>1, <1>3, <1>s, <1>5 DEF Handle, Staged, Unqueued, Untouched, SameEngine
  <2>2. Sent(q)'
    <3> DEFINE body == tokens[q] \o Unsent(q)
    <3>1. /\ body \in Seq(Token) /\ received[q] \o body = gen[q]
          /\ SubSeq(gen[q], 1, Len(gen[q])) = gen[q] /\ Len(gen[q]) \in 0 .. Len(gen[q])
      BY <1>0, <1>5, Pumped DEF Handle
    <3> HIDE DEF body
    <3>2. CASE q \in Over
      <4>1. tokens'[q] = Append(body, End)
        BY <1>3, <3>2 DEF body
      <4>2. Body(tokens'[q]) = body
        BY <3>1, <4>1, BodyFacts
      <4> QED
        BY <1>1, <3>1, <3>2, <4>1, <4>2 DEF Sent
    <3>3. CASE q \notin Over
      <4>1. tokens'[q] = body /\ emitted'[q] = Len(gen[q])
        BY <1>3, <1>5, <3>3 DEF body
      <4> QED
        BY <1>1, <1>s, <3>1, <4>1 DEF Sent, SameEngine
    <3> QED
      BY <3>2, <3>3
  <2>3. Cancels(q)'
    BY <1>0, <1>1, <1>s DEF Handle, Cancels, SameEngine
  <2>4. Owned(q)'
    BY <1>0, <1>1, <1>2, <1>3, <1>s, <1>5 DEF Handle, Owned, SameEngine, EndsOf
  <2> QED
    BY <2>1, <2>2, <2>3, <2>4 DEF Handle
<1> QED
  BY <1>4, <1>5

LEMMA ShutdownHandles ==
    ASSUME ServerInv, Shutdown, NEW q \in Request
    PROVE  Handle(q)'
<1>0. Handle(q) /\ Loops /\ Inv /\ ServerTypeOK
  BY SomeHandle DEF ServerInv
<1>1. /\ UNCHANGED <<vars, handler, received, flagged, pending, binding, bound, emitted>>
      /\ loop = "shutdown" /\ loop' = "ended" /\ tick = "idle" /\ binding = NoRequest
      /\ tracked' = {} /\ done' = done \cup tracked /\ binding # q
  BY <1>0 DEF Shutdown, handlerVars, Loops, ServerTypeOK, SchedulerAssumption
<1>2. active = {}
  BY <1>0, <1>1 DEF Inv, Phases
<1>3. tokens'[q] = IF q \in tracked THEN Append(tokens[q], End) ELSE tokens[q]
  BY DEF Shutdown
<1>s. SameEngine(q)
  BY <1>1, StillEngine DEF vars, engineVars
<1>4. Staged(q)'
  BY <1>0, <1>1, <1>3, <1>s
  DEF Handle, Staged, Unqueued, Untouched, Unborn, SameEngine
<1>5. Sent(q)'
  <2>1. CASE q \in tracked
    <3>1. tokens[q] \in Seq(Token) /\ tokens'[q] = Append(tokens[q], End)
      BY <1>0, <1>3, <2>1 DEF Handle, Sent
    <3>2. Body(tokens'[q]) = tokens[q]
      BY <3>1, BodyFacts
    <3> QED
      BY <1>1, <2>1, <3>1, <3>2 DEF Sent
  <2>2. CASE q \notin tracked
    BY <1>0, <1>1, <1>3, <2>2 DEF Handle, Sent
  <2> QED
    BY <2>1, <2>2
<1>6. Cancels(q)'
  BY <1>0, <1>1, <1>s DEF Handle, Cancels, SameEngine
<1>7. Owned(q)'
  BY <1>1, <1>2, <1>s DEF Owned, SameEngine
<1> QED
  BY <1>4, <1>5, <1>6, <1>7 DEF Handle

----------------------------------------------------------------------------
(* The invariant. *)

LEMMA ServerStart == ServerInit => ServerInv
<1> SUFFICES ASSUME ServerInit PROVE ServerInv
  OBVIOUS
<1>1. Inv /\ EndsInv
  BY InitInv, InitEnds DEF ServerInit
<1>2. ServerTypeOK
  <2>1. EngineTypeOK /\ SchedulerTypeOK
    BY <1>1 DEF Inv, TypeInv
  <2>2. /\ <<>> \in Seq(Request) /\ <<>> \in Seq(Control) /\ <<>> \in Seq(Token)
        /\ <<>> \in Seq(Token \cup {End})
    OBVIOUS
  <2>3. /\ pending \in Seq(Request) /\ controls \in Seq(Control)
        /\ tokens \in [Request -> Seq(Token \cup {End})]
        /\ received \in [Request -> Seq(Token)] /\ emitted \in [Request -> Nat]
    BY <2>2 DEF ServerInit
  <2>4. /\ loop = "top" /\ binding = NoRequest /\ drained = FALSE /\ wake = FALSE
        /\ running = TRUE /\ stopper = "no"
        /\ tracked = {} /\ bound = {} /\ flagged = {} /\ failed = {} /\ done = {} /\ files = {}
        /\ handler = [r \in Request |-> "new"]
        /\ sync = [c \in Control |-> "new"] /\ applied = [c \in Control |-> "no"]
    BY DEF ServerInit
  <2> QED
    BY <2>1, <2>3, <2>4 DEF ServerTypeOK
<1>3. Loops
  BY DEF ServerInit, Init, SchedulerInit, Loops, Distinct
<1>4. ASSUME NEW r \in Request PROVE Staged(r) /\ Sent(r) /\ Cancels(r) /\ Owned(r)
  <2>0. NoRequest # r
    BY DEF SchedulerAssumption
  <2>1. Unborn(r) /\ r \notin submitted /\ ~InScheduler(r) /\ ~InSeq(r, pending)
    BY EmptyFacts
    DEF ServerInit, Init, EngineInit, SchedulerInit, Unborn, InScheduler, Prefilling, Decoding
  <2>2. /\ handler[r] = "new" /\ tokens[r] = <<>> /\ received[r] = <<>> /\ emitted[r] = 0
        /\ tracked = {} /\ bound = {} /\ flagged = {} /\ done = {} /\ binding = NoRequest
    BY DEF ServerInit
  <2>3. Staged(r)
    BY <2>0, <2>1, <2>2 DEF Staged, Unqueued, Untouched
  <2>4. Sent(r)
    BY <2>2 DEF Sent
  <2>5. Cancels(r) /\ Owned(r)
    BY <2>1, <2>2 DEF Cancels, Owned, Unborn
  <2> QED
    BY <2>3, <2>4, <2>5
<1> QED
  BY <1>1, <1>2, <1>3, <1>4 DEF ServerInv, Handles

LEMMA ServerHandles == ServerInv /\ [ServerNext]_allVars => Handles'
<1> SUFFICES ASSUME ServerInv, [ServerNext]_allVars, NEW q \in Request PROVE Handle(q)'
  BY DEF Handles, Handle
<1>1. CASE LoopStep
  <2>1. CASE \E r \in Request : DrainSubmit(r) \/ DrainFail(r) \/ DrainSpeculative(r)
    BY <2>1, SubmitHandles, FailHandles, SpeculativeHandles
  <2>2. CASE Bind \/ Track \/ BeginTick \/ RunTick \/ Pump \/ Shutdown
    BY <2>2, BindHandles, TrackHandles, TickHandles, PumpHandles, ShutdownHandles
  <2>3. CASE LoopTop \/ RunControl \/ ControlsDrained \/ PendingDrained \/ Idle \/ WakeUp
             \/ ClearWake
    BY <2>3, QuietHandles
  <2> QED
    BY <1>1, <2>1, <2>2, <2>3 DEF LoopStep
<1>2. ASSUME NEW r \in Request, HandlerNext(r) PROVE Handle(q)'
  BY <1>2, HandlerHandles, PutHandles, TakeHandles DEF HandlerNext, HandlerStep
<1>3. CASE \/ IdleTimeout \/ (\E c \in Control : SyncNext(c)) \/ Stop \/ StopWake
           \/ UNCHANGED allVars
  BY <1>3, QuietHandles
<1> QED
  BY <1>1, <1>2, <1>3 DEF ServerNext

LEMMA ServerStep == ServerInv /\ [ServerNext]_allVars => ServerInv'
BY ServerCore, ServerTypes, ServerLoops, ServerHandles DEF ServerInv

\* The loop, its scheduler and every handle agree, whatever clients, timeouts, weight
\* syncs and stop() do (serving.py, server.py).
THEOREM ServerInvariant == ServerSpec => []ServerInv
BY ServerStart, ServerStep, PTL DEF ServerSpec

\* The loop's, the callers' and the queues' variables keep their types (serving.py).
THEOREM ServerTypeCorrect == ServerSpec => []ServerTypeOK
<1>1. ServerInv => ServerTypeOK
  BY DEF ServerInv
<1> QED
  BY <1>1, ServerInvariant, PTL

\* RequestHandle.cancel and _drain_pending (serving.py) cannot miss each other: once the
\* handler has left cancel() and the loop has bound the state, the request is finished.
THEOREM CancelsArrive == ServerSpec => []CancelNotLost
<1>1. ServerInv => CancelNotLost
  BY DEF ServerInv, Handles, Cancels, CancelNotLost
<1> QED
  BY <1>1, ServerInvariant, PTL

\* Between two ticks _tracked and the scheduler's queues (serving.py, scheduler.py) hold
\* the same requests, but for cancelled ones the scheduler has yet to drop.
THEOREM NoneOrphaned == ServerSpec => []NoOrphan
<1>1. ServerInv => NoOrphan
  <2> SUFFICES ASSUME ServerInv,
                      loop \in {"top", "control", "drain", "work", "wait", "clear"}
               PROVE  /\ \A r \in tracked : InScheduler(r)
                      /\ \A r \in Request : InScheduler(r) => r \in tracked \/ cancelled[r]
    BY DEF NoOrphan, InScheduler
  <2>1. binding = NoRequest /\ NoRequest \notin Request /\ tracked \subseteq Request
    BY DEF ServerInv, Loops, SchedulerAssumption, ServerTypeOK
  <2>2. \A r \in Request : Owned(r)
    BY DEF ServerInv, Handles
  <2> QED
    BY <2>1, <2>2 DEF Owned
<1> QED
  BY <1>1, ServerInvariant, PTL

LEMMA FrozenStep == ServerInv /\ [ServerNext]_allVars => \A r \in done : gen'[r] = gen[r]
<1> SUFFICES ASSUME ServerInv, [ServerNext]_allVars, NEW r \in done PROVE gen'[r] = gen[r]
  OBVIOUS
<1>0. r \in Request /\ Owned(r) /\ DOMAIN gen = Request /\ Inv
  BY DEF ServerInv, Handles, ServerTypeOK, EngineTypeOK
<1>1. ASSUME NEW q \in Request, DrainSpeculative(q) PROVE gen'[r] = gen[r]
  <2>1. q \notin done
    BY <1>1, PendingHead DEF DrainSpeculative
  <2> QED
    BY <1>0, <1>1, <2>1 DEF DrainSpeculative
<1>2. CASE BeginTick \/ RunTick
  <2>1. DecodeScan \/ TickStep
    BY <1>2 DEF BeginTick, RunTick
  <2> QED
    BY <1>0, <2>1, TickMoves DEF Owned
<1>3. CASE UNCHANGED gen
  BY <1>3
<1>4. \/ \E q \in Request : DrainSpeculative(q)
      \/ BeginTick \/ RunTick
      \/ UNCHANGED gen
  BY DEF ServerNext, LoopStep, LoopTop, RunControl, SyncWeights, ControlsDrained, DrainSubmit,
         Submit, NewRequest, DrainFail, Bind, Track, PendingDrained, Pump, Idle, WakeUp,
         ClearWake, Shutdown, IdleTimeout, HandlerNext, HandlerStep, HandlerCheck, HandlerPut,
         HandlerWake, CancelFlag, CancelRead, CancelState, CancelFinish, SetCancelled,
         SetFinished, NextToken, GiveUp, TokenTimeout, Result, SyncNext, SyncPut, SyncWake,
         SyncReply, SyncUnlink, Stop, StopWake, allVars, vars, engineVars, requestVars
<1> QED
  BY <1>1, <1>2, <1>3, <1>4

\* result() (serving.py) hands out the live RequestState: nothing the scheduler does
\* afterwards changes its generated tokens.
THEOREM AnswersFrozen == ServerSpec => AnswerFrozen
<1>1. ServerInv /\ [ServerNext]_allVars => [\A r \in done : gen'[r] = gen[r]]_allVars
  BY FrozenStep
<1> QED
  BY <1>1, ServerInvariant, PTL DEF ServerSpec, AnswerFrozen

----------------------------------------------------------------------------
(***************************************************************************)
(* Refinement: in every step, every request makes a move of RequestStream. *)
(***************************************************************************)

\* The tokens that have been sent to the handler of r.
Sends(r) == received[r] \o Waiting(r)

SamePhase(r) == Phase(r)' = Phase(r)

StreamMove(r) ==
    Stream!Open(r) \/ Stream!Send(r) \/ Stream!Fail(r) \/ Stream!Take(r) \/ Stream!HangUp(r)
      \/ Stream!Rest(r)

LEMMA WaitingIsBody == \A r : Waiting(r) = Body(tokens[r])
BY DEF Waiting, Body

LEMMA RestMove ==
    ASSUME NEW r \in Request, SamePhase(r), Sends(r)' = Sends(r),
           Len(received'[r]) = Len(received[r]), (r \in flagged') = (r \in flagged)
    PROVE  StreamMove(r)
<1>1. Stream!Rest(r)
  BY DEF Stream!Rest, SamePhase, Sends
<1> QED
  BY <1>1 DEF StreamMove

LEMMA OpenMove ==
    ASSUME NEW r \in Request, Phase(r) = "idle", Phase(r)' = "open", Sends(r)' = Sends(r),
           Len(received'[r]) = Len(received[r]), (r \in flagged') = (r \in flagged)
    PROVE  StreamMove(r)
<1>1. Stream!Open(r)
  BY DEF Stream!Open, Sends
<1> QED
  BY <1>1 DEF StreamMove

LEMMA FailMove ==
    ASSUME NEW r \in Request, Phase(r) = "open", Phase(r)' = "failed", Sends(r)' = Sends(r),
           Len(received'[r]) = Len(received[r]), (r \in flagged') = (r \in flagged)
    PROVE  StreamMove(r)
<1>1. Stream!Fail(r)
  BY DEF Stream!Fail, Sends
<1> QED
  BY <1>1 DEF StreamMove

LEMMA TakeMove ==
    ASSUME NEW r \in Request, SamePhase(r), Sends(r)' = Sends(r),
           Len(received[r]) < Len(Sends(r)), Len(received'[r]) = Len(received[r]) + 1,
           (r \in flagged') = (r \in flagged)
    PROVE  StreamMove(r)
<1>1. Stream!Take(r)
  BY DEF Stream!Take, SamePhase, Sends
<1> QED
  BY <1>1 DEF StreamMove

LEMMA HangUpMove ==
    ASSUME NEW r \in Request, SamePhase(r), Phase(r) # "idle", Sends(r)' = Sends(r),
           Len(received'[r]) = Len(received[r]), r \in flagged'
    PROVE  StreamMove(r)
<1>1. Stream!HangUp(r)
  BY DEF Stream!HangUp, SamePhase, Sends
<1> QED
  BY <1>1 DEF StreamMove

\* More of a generation that keeps to its budget, and stops at its end of sequence.
LEMMA SendMove ==
    ASSUME NEW r \in Request, NEW g \in Seq(Token), NEW e \in 0 .. Len(g),
           Len(g) <= MaxNew[r],
           r \in StopsAtEos => \A i \in 1 .. Len(g) - 1 : g[i] # Eos,
           Sends(r) = SubSeq(g, 1, e), Sends(r)' = g,
           Phase(r) = "open",
           \/ Phase(r)' = "open"
           \/ /\ Phase(r)' = "closed"
              /\ \/ r \in flagged
                 \/ Len(g) = MaxNew[r]
                 \/ r \in StopsAtEos /\ g # <<>> /\ g[Len(g)] = Eos,
           Len(received'[r]) = Len(received[r]), (r \in flagged') = (r \in flagged)
    PROVE  StreamMove(r)
<1>1. /\ Len(g) \in Nat /\ e \in Nat /\ e <= Len(g)
      /\ SubSeq(g, 1, e) \in Seq(Token) /\ Len(SubSeq(g, 1, e)) = e
  OBVIOUS
<1>2. ASSUME NEW i \in 1 .. Len(g) - 1 PROVE ~Stream!AtEos(r, SubSeq(g, 1, i))
  <2>1. Len(SubSeq(g, 1, i)) = i /\ SubSeq(g, 1, i)[i] = g[i]
    BY <1>1
  <2> QED
    BY <2>1 DEF Stream!AtEos
<1>3. Phase(r)' = "closed" => Stream!Complete(r, g) \/ r \in flagged
  BY DEF Stream!Complete, Stream!AtEos
<1>4. Stream!Send(r)
  BY <1>1, <1>2, <1>3 DEF Stream!Send, Sends
<1> QED
  BY <1>4 DEF StreamMove

FailedDone == failed \subseteq done

LEMMA FailedStep == FailedDone /\ [ServerNext]_allVars => FailedDone'
<1> SUFFICES ASSUME FailedDone, [ServerNext]_allVars PROVE FailedDone'
  OBVIOUS
<1>1. CASE \E r \in Request : DrainFail(r)
  BY <1>1 DEF DrainFail, FailedDone
<1>2. CASE Shutdown
  BY <1>2 DEF Shutdown, FailedDone
<1>3. CASE failed' = failed /\ done \subseteq done'
  BY <1>3 DEF FailedDone
<1>4. (\E r \in Request : DrainFail(r)) \/ Shutdown \/ (failed' = failed /\ done \subseteq done')
  BY DEF ServerNext, LoopStep, LoopTop, RunControl, ControlsDrained, DrainSubmit,
         DrainSpeculative, Bind, Track, PendingDrained, BeginTick, RunTick, Pump, Idle, WakeUp,
         ClearWake, IdleTimeout, HandlerNext, HandlerStep, HandlerCheck, HandlerPut,
         HandlerWake, CancelFlag, CancelRead, CancelState, CancelFinish, NextToken, GiveUp,
         TokenTimeout, Result, SyncNext, SyncPut, SyncWake, SyncReply, SyncUnlink, Stop,
         StopWake, allVars, serverVars, handleVars
<1> QED
  BY <1>1, <1>2, <1>3, <1>4

\* Nothing that a client can see of r changes.
Unseen(r) ==
    /\ Unqueued(r)' <=> Unqueued(r)
    /\ r \in done' <=> r \in done
    /\ r \in failed' <=> r \in failed
    /\ tokens'[r] = tokens[r] /\ received'[r] = received[r]
    /\ (r \in flagged') = (r \in flagged)

LEMMA Phases4 ==
    \A r \in Request :
        /\ Unqueued(r) => Phase(r) = "idle"
        /\ ~Unqueued(r) /\ r \notin done => Phase(r) = "open"
        /\ ~Unqueued(r) /\ r \in done /\ r \in failed => Phase(r) = "failed"
        /\ ~Unqueued(r) /\ r \in done /\ r \notin failed => Phase(r) = "closed"
BY DEF Phase, Unqueued

LEMMA Phases4Next ==
    \A r \in Request :
        /\ Unqueued(r)' => Phase(r)' = "idle"
        /\ ~Unqueued(r)' /\ r \notin done' => Phase(r)' = "open"
        /\ ~Unqueued(r)' /\ r \in done' /\ r \in failed' => Phase(r)' = "failed"
        /\ ~Unqueued(r)' /\ r \in done' /\ r \notin failed' => Phase(r)' = "closed"
BY DEF Phase, Unqueued

LEMMA UnseenMove ==
    ASSUME NEW r \in Request, Unseen(r)
    PROVE  StreamMove(r)
<1>1. SamePhase(r)
  BY Phases4, Phases4Next DEF SamePhase, Unseen
<1>2. Sends(r)' = Sends(r)
  BY DEF Sends, Waiting, Unseen
<1> QED
  BY <1>1, <1>2, RestMove DEF Unseen

\* What a handler does.
LEMMA HandlerMoves ==
    ASSUME ServerInv, NEW r \in Request, HandlerNext(r), NEW q \in Request
    PROVE  StreamMove(q)
<1>0. /\ DOMAIN handler = Request /\ DOMAIN tokens = Request /\ DOMAIN received = Request
      /\ received \in [Request -> Seq(Token)]
      /\ ServerTypeOK /\ Staged(q) /\ Sent(q) /\ flagged \subseteq Request
  BY DEF ServerInv, ServerTypeOK, Handles
<1>1. /\ UNCHANGED <<done, failed>>
      /\ q # r => /\ handler'[q] = handler[q] /\ tokens'[q] = tokens[q]
                  /\ received'[q] = received[q]
                  /\ (q \in flagged') = (q \in flagged)
  BY <1>0 DEF HandlerNext, HandlerStep, HandlerCheck, HandlerPut, HandlerWake, CancelFlag,
              CancelRead, CancelState, CancelFinish, NextToken, GiveUp, TokenTimeout, Result,
              handleVars, Goto
<1>2. CASE q # r
  <2>1. Unseen(q)
    BY <1>1, <1>2 DEF Unseen, Unqueued
  <2> QED
    BY <2>1, UnseenMove
<1>3. CASE q = r /\ HandlerPut(r)
  <2>1. /\ handler[q] = "put" /\ handler'[q] = "wake"
        /\ UNCHANGED <<tokens, received, flagged>>
    BY <1>0, <1>3 DEF HandlerPut, Goto, handleVars
  <2>2. Phase(q) = "idle" /\ Phase(q)' = "open"
    BY <1>0, <1>1, <2>1, Phases4, Phases4Next DEF Staged, Unqueued
  <2>3. Sends(q)' = Sends(q)
    BY <2>1 DEF Sends, Waiting
  <2> QED
    BY <2>1, <2>2, <2>3, OpenMove
<1>4. CASE q = r /\ NextToken(r)
  <2>1. /\ handler[q] = "stream" /\ handler'[q] \in {"stream", "result"}
        /\ UNCHANGED flagged
    BY <1>0, <1>4 DEF NextToken, Goto
  <2>2. SamePhase(q)
    BY <1>1, <2>1, Phases4, Phases4Next DEF SamePhase, Unqueued
  <2> DEFINE b == Body(tokens[q])
  <2>3. /\ b \in Seq(Token)
        /\ \/ received' = received /\ Body(tokens'[q]) = b
           \/ /\ b # <<>>
              /\ received'[q] = Append(received[q], Head(b))
              /\ Body(tokens'[q]) = Tail(b)
    BY <1>0, <1>4, TakeSent
  <2>4. Sends(q) = received[q] \o b /\ Sends(q)' = received'[q] \o Body(tokens'[q])
    BY DEF Sends, Waiting, Body
  <2> HIDE DEF b
  <2>5. CASE received' = received /\ Body(tokens'[q]) = b
    BY <2>1, <2>2, <2>4, <2>5, RestMove
  <2>6. CASE /\ b # <<>>
             /\ received'[q] = Append(received[q], Head(b))
             /\ Body(tokens'[q]) = Tail(b)
    <3>1. received[q] \in Seq(Token)
      BY <1>0
    <3>2. Append(received[q], Head(b)) \o Tail(b) = received[q] \o b /\ Head(b) \in Token
      BY <2>3, <2>6, <3>1, TakeOne, ZenonT(60)
    <3>3. Sends(q)' = Sends(q)
      BY <2>4, <2>6, <3>2
    <3>4. Len(received[q]) < Len(Sends(q))
      <4>1. Len(b) \in Nat /\ Len(b) > 0 /\ Len(received[q]) \in Nat
        BY <2>3, <2>6, <3>1
      <4>2. Len(received[q] \o b) = Len(received[q]) + Len(b)
        BY <2>3, <3>1, ConcatFacts
      <4> QED
        BY <2>4, <4>1, <4>2
    <3>5. Len(received'[q]) = Len(received[q]) + 1
      BY <2>6, <3>1, <3>2
    <3> QED
      BY <2>1, <2>2, <3>3, <3>4, <3>5, TakeMove
  <2> QED
    BY <2>3, <2>5, <2>6
<1>5. CASE q = r /\ CancelFlag(r)
  <2>1. /\ handler[q] = "flag" /\ handler'[q] = "read" /\ q \in flagged'
        /\ UNCHANGED <<tokens, received>>
    BY <1>0, <1>5 DEF CancelFlag, Goto, handleVars
  <2>2. SamePhase(q) /\ Phase(q) # "idle"
    BY <1>1, <2>1, Phases4, Phases4Next DEF SamePhase, Unqueued
  <2>3. Sends(q)' = Sends(q)
    BY <2>1 DEF Sends, Waiting
  <2> QED
    BY <2>1, <2>2, <2>3, HangUpMove
<1>6. CASE q = r /\ ~HandlerPut(r) /\ ~NextToken(r) /\ ~CancelFlag(r)
  <2>1. /\ UNCHANGED <<tokens, received, flagged>>
        /\ handler[r] \in {"new", "refused", "put"} <=> handler'[r] \in {"new", "refused", "put"}
    BY <1>0, <1>6 DEF HandlerNext, HandlerStep, HandlerCheck, HandlerWake, CancelRead,
         CancelState, CancelFinish, GiveUp, TokenTimeout, Result, handleVars, Goto
  <2>2. Unseen(q)
    BY <1>1, <1>6, <2>1 DEF Unseen, Unqueued
  <2> QED
    BY <2>2, UnseenMove
<1> QED
  BY <1>2, <1>3, <1>4, <1>5, <1>6

\* What the loop does to the streams.
LEMMA LoopMoves ==
    ASSUME ServerInv, FailedDone, LoopStep, NEW q \in Request
    PROVE  StreamMove(q)
<1>0. /\ DOMAIN tokens = Request /\ DOMAIN gen = Request /\ Handle(q) /\ ServerTypeOK
      /\ EndsOf(q) /\ gen[q] \in Seq(Token) /\ MaxNew[q] \in Nat
      /\ received[q] \in Seq(Token)
      /\ Len(gen[q]) <= MaxNew[q]
      /\ q \in StopsAtEos => \A i \in 1 .. Len(gen[q]) - 1 : gen[q][i] # Eos
  BY SomeHandle, InvBounded
  DEF ServerInv, ServerTypeOK, EngineTypeOK, EngineAssumption, EndsInv, GenerationBounded
<1>1. UNCHANGED <<handler, received, flagged>>
  BY DEF LoopStep, LoopTop, RunControl, ControlsDrained, DrainSubmit, DrainFail,
         DrainSpeculative, TakePending, Bind, Track, PendingDrained, BeginTick, RunTick, Pump,
         Idle, WakeUp, ClearWake, Shutdown, handlerVars
<1>h. Unqueued(q)' <=> Unqueued(q)
  BY <1>1 DEF Unqueued
<1>2. ASSUME NEW r \in Request, DrainFail(r) PROVE StreamMove(q)
  <2>1. CASE q # r
    <3>1. Unseen(q)
      BY <1>0, <1>1, <1>2, <1>h, <2>1 DEF DrainFail, Unseen
    <3> QED
      BY <3>1, UnseenMove
  <2>2. CASE q = r
    <3>1. /\ ~Unqueued(q) /\ q \notin done /\ tokens[q] = <<>>
          /\ q \in done' /\ q \in failed'
      BY <1>2, <2>2, PendingHead DEF DrainFail, Untouched
    <3>2. tokens'[q] = Append(<<>>, End) /\ <<>> \in Seq(Token)
      BY <1>0, <1>2, <2>2, <3>1 DEF DrainFail
    <3>3. Sends(q)' = Sends(q)
      <4>1. Body(tokens'[q]) = <<>> /\ Body(tokens[q]) = <<>>
        BY <3>1, <3>2, BodyFacts
      <4> QED
        BY <1>1, <4>1 DEF Sends, Waiting, Body
    <3>4. Phase(q) = "open" /\ Phase(q)' = "failed"
      BY <1>h, <3>1, Phases4, Phases4Next
    <3> QED
      BY <1>1, <3>3, <3>4, FailMove
  <2> QED
    BY <2>1, <2>2
<1>3. ASSUME NEW r \in Request, DrainSpeculative(r) PROVE StreamMove(q)
  <2>a. PICK answer \in SpecAnswers(r) :
           tokens' = [tokens EXCEPT ![r] = @ \o Append(answer, End)]
    BY <1>3 DEF DrainSpeculative
  <2>b. failed' = failed /\ done' = done \cup {r}
    BY <1>3 DEF DrainSpeculative
  <2>1. CASE q # r
    <3>1. Unseen(q)
      BY <1>0, <1>1, <1>h, <2>a, <2>b, <2>1 DEF Unseen
    <3> QED
      BY <3>1, UnseenMove
  <2>2. CASE q = r
    <3>1. ~Unqueued(q) /\ q \notin done /\ tokens[q] = <<>> /\ received[q] = <<>>
      BY <1>3, <2>2, PendingHead DEF DrainSpeculative, Untouched
    <3>2. /\ answer \in Seq(Token) /\ Len(answer) <= MaxNew[q] /\ 0 \in 0 .. Len(answer)
          /\ q \in StopsAtEos => \A i \in 1 .. Len(answer) - 1 : answer[i] # Eos
          /\ \/ Len(answer) = MaxNew[q]
             \/ q \in StopsAtEos /\ answer # <<>> /\ answer[Len(answer)] = Eos
      BY <2>2, AnswerFacts
    <3>3. tokens'[q] = Append(answer, End)
      <4>1. Append(answer, End) \in Seq(Token \cup {End})
        BY <3>2
      <4>2. <<>> \o Append(answer, End) = Append(answer, End)
        BY <4>1
      <4> QED
        BY <1>0, <2>a, <2>2, <3>1, <4>2
    <3>4. Sends(q)' = answer
      <4>1. Body(tokens'[q]) = answer
        BY <3>2, <3>3, BodyFacts
      <4>2. <<>> \o answer = answer
        BY <3>2
      <4> QED
        BY <1>1, <3>1, <4>1, <4>2 DEF Sends, Waiting, Body
    <3>5. Sends(q) = SubSeq(answer, 1, 0)
      <4>1. Body(<<>>) = <<>>
        BY DEF Body
      <4>2. SubSeq(answer, 1, 0) = <<>> /\ <<>> \o <<>> = <<>>
        BY <3>2
      <4> QED
        BY <3>1, <4>1, <4>2 DEF Sends, Waiting, Body
    <3>6. Phase(q) = "open" /\ Phase(q)' = "closed"
      BY <1>h, <2>b, <2>2, <3>1, Phases4, Phases4Next DEF FailedDone
    <3> QED
      BY <1>1, <3>2, <3>4, <3>5, <3>6, SendMove
  <2> QED
    BY <2>1, <2>2
<1>4. CASE Pump
  <2>1. /\ tokens'[q] = IF q \in Over THEN Append(tokens[q] \o Unsent(q), End)
                        ELSE IF q \in tracked THEN tokens[q] \o Unsent(q) ELSE tokens[q]
        /\ q \in Over <=> q \in tracked /\ finished[q]
        /\ done' = done \cup Over /\ failed' = failed
        /\ loop = "pump" /\ tick = "idle"
    BY <1>4 DEF Pump, Over, ServerInv, Loops
  <2>2. CASE q \notin tracked
    <3>1. Unseen(q)
      BY <1>1, <1>h, <2>1, <2>2 DEF Unseen
    <3> QED
      BY <3>1, UnseenMove
  <2>3. CASE q \in tracked
    <3> DEFINE body == tokens[q] \o Unsent(q)
    <3>1. /\ body \in Seq(Token) /\ received[q] \o body = gen[q]
          /\ SubSeq(gen[q], 1, emitted[q]) = received[q] \o tokens[q]
      BY <1>0, <2>3, Pumped DEF Handle
    <3> HIDE DEF body
    <3>2. /\ tokens[q] \in Seq(Token) /\ emitted[q] \in 0 .. Len(gen[q])
          /\ ~Unqueued(q) /\ q \notin done
      BY <1>0, <2>3 DEF Handle, Sent, Staged
    <3>3. Sends(q) = SubSeq(gen[q], 1, emitted[q]) /\ Phase(q) = "open"
      <4>1. Body(tokens[q]) = tokens[q]
        BY <3>2, BodyFacts
      <4> QED
        BY <3>1, <3>2, <4>1, Phases4 DEF Sends, Waiting, Body
    <3>4. Sends(q)' = gen[q]
      <4>1. tokens'[q] = Append(body, End) \/ tokens'[q] = body
        BY <2>1, <2>3 DEF body
      <4>2. Body(tokens'[q]) = body
        BY <3>1, <4>1, BodyFacts
      <4> QED
        BY <1>1, <3>1, <4>2 DEF Sends, Waiting, Body
    <3>5. CASE q \in Over
      <4>1. Phase(q)' = "closed"
        BY <1>h, <2>1, <3>2, <3>5, Phases4Next DEF FailedDone
      <4>2. cancelled[q] => q \in flagged
        BY <1>0 DEF Handle, Cancels
      <4>3. \/ q \in flagged
            \/ Len(gen[q]) = MaxNew[q]
            \/ q \in StopsAtEos /\ gen[q] # <<>> /\ gen[q][Len(gen[q])] = Eos
        BY <1>0, <2>1, <3>5, <4>2 DEF EndsOf, AtEnd
      <4> QED
        BY <1>0, <1>1, <3>2, <3>3, <3>4, <4>1, <4>3, SendMove
    <3>6. CASE q \notin Over
      <4>1. Phase(q)' = "open"
        BY <1>h, <2>1, <3>2, <3>6, Phases4Next
      <4> QED
        BY <1>0, <1>1, <3>2, <3>3, <3>4, <4>1, SendMove
    <3> QED
      BY <3>5, <3>6
  <2> QED
    BY <2>2, <2>3
<1>5. CASE Shutdown
  <2>1. /\ tokens'[q] = IF q \in tracked THEN Append(tokens[q], End) ELSE tokens[q]
        /\ done' = done \cup tracked /\ failed' = failed \cup tracked
    BY <1>5 DEF Shutdown
  <2>2. CASE q \notin tracked
    <3>1. Unseen(q)
      BY <1>1, <1>h, <2>1, <2>2 DEF Unseen
    <3> QED
      BY <3>1, UnseenMove
  <2>3. CASE q \in tracked
    <3>1. tokens[q] \in Seq(Token) /\ ~Unqueued(q) /\ q \notin done
      BY <1>0, <2>3 DEF Handle, Sent, Staged
    <3>2. Phase(q) = "open" /\ Phase(q)' = "failed"
      BY <1>h, <2>1, <2>3, <3>1, Phases4, Phases4Next
    <3>3. Sends(q)' = Sends(q)
      <4>1. Body(tokens'[q]) = tokens[q] /\ Body(tokens[q]) = tokens[q]
        BY <2>1, <2>3, <3>1, BodyFacts
      <4> QED
        BY <1>1, <4>1 DEF Sends, Waiting, Body
    <3> QED
      BY <1>1, <3>2, <3>3, FailMove
  <2> QED
    BY <2>2, <2>3
<1>6. CASE \/ LoopTop \/ RunControl \/ ControlsDrained \/ (\E r \in Request : DrainSubmit(r))
           \/ Bind \/ Track \/ PendingDrained \/ BeginTick \/ RunTick \/ Idle \/ WakeUp
           \/ ClearWake
  <2>1. UNCHANGED <<tokens, failed, done>>
    BY <1>6 DEF LoopTop, RunControl, ControlsDrained, DrainSubmit, Bind, Track, PendingDrained,
                BeginTick, RunTick, Idle, WakeUp, ClearWake, handleVars
  <2>2. Unseen(q)
    BY <1>1, <1>h, <2>1 DEF Unseen
  <2> QED
    BY <2>2, UnseenMove
<1> QED
  BY <1>2, <1>3, <1>4, <1>5, <1>6 DEF LoopStep

LEMMA StreamStep ==
    ServerInv /\ FailedDone /\ [ServerNext]_allVars => [Stream!StreamNext]_(Stream!streamVars)
<1> SUFFICES ASSUME ServerInv, FailedDone, [ServerNext]_allVars, NEW q \in Request
             PROVE  StreamMove(q)
  BY DEF Stream!StreamNext, StreamMove
<1>1. CASE \/ IdleTimeout \/ (\E c \in Control : SyncNext(c)) \/ Stop \/ StopWake
           \/ UNCHANGED allVars
  <2>1. UNCHANGED <<handler, tokens, received, flagged, failed, done>>
    BY <1>1 DEF IdleTimeout, SyncNext, SyncPut, SyncWake, SyncReply, SyncUnlink, Stop, StopWake,
                allVars, serverVars, handleVars, handlerVars
  <2>2. Unseen(q)
    BY <2>1 DEF Unseen, Unqueued
  <2> QED
    BY <2>2, UnseenMove
<1> QED
  BY <1>1, LoopMoves, HandlerMoves DEF ServerNext

LEMMA StreamStart == ServerInit => Stream!StreamInit
<1> SUFFICES ASSUME ServerInit PROVE Stream!StreamInit
  OBVIOUS
<1>1. ASSUME NEW r \in Request
      PROVE  /\ Phase(r) = "idle" /\ received[r] \o Waiting(r) = <<>>
             /\ Len(received[r]) = 0 /\ (r \in flagged) = FALSE
  BY <1>1 DEF ServerInit, Phase, Waiting
<1> QED
  BY <1>1 DEF Stream!StreamInit

\* What clients are promised of their streams (RequestStream) is what serving.py and
\* server.py give them: no token is taken back, none is sent past the budget or after
\* end-of-sequence, and a stream that closes early without an error was hung up on.
THEOREM StreamsRefine == ServerSpec => StreamsKeepPromise
<1>1. ServerInit => FailedDone
  BY DEF ServerInit, FailedDone
<1> QED
  BY <1>1, ServerInvariant, FailedStep, StreamStep, StreamStart, PTL
  DEF ServerSpec, StreamsKeepPromise, Stream!StreamSpec

=============================================================================
