-------------------------- MODULE BatchingServer --------------------------
(***************************************************************************)
(* The serving loop (inference/serving.py) with the HTTP handler threads   *)
(* that call it (inference/server.py).  One thread, the loop, owns the     *)
(* engine: it runs queued control actions, submits queued requests to the  *)
(* scheduler, ticks it and pushes the new tokens to the handles.  Handler  *)
(* threads submit, read tokens, time out and cancel; a weight sync queues  *)
(* a control action and waits for it; the main thread may stop the loop.   *)
(*                                                                         *)
(* Threads share queue.Queue and threading.Event objects, whose operations *)
(* are atomic; an action ends wherever a thread touches state that another *)
(* thread writes.                                                          *)
(***************************************************************************)
EXTENDS Scheduler

CONSTANTS
    Streaming,      \* the requests whose handler streams tokens (_stream_chat);
                    \* the handlers of the others wait for the whole response
    Speculative,    \* the requests with options.mode = "speculative"
    MtpHeads,       \* the number of draft heads of the model
    Control,        \* the weight syncs a run makes, each at most once
    Stoppable,      \* bound: whether the run includes stop()
    End             \* _TOKEN_SENTINEL

ASSUME ServerAssumption ==
    /\ Streaming \subseteq Request
    /\ Speculative \subseteq Request
    /\ MtpHeads \in Nat
    /\ Stoppable \in BOOLEAN
    /\ End \notin Token

VARIABLES
    \* the loop thread
    loop,           \* where it is; "ended" once it has left _loop
    binding,        \* sub.handle in _drain_pending, NoRequest outside
    drained,        \* drained, local to _loop
    \* BatchingServer
    pending,        \* _pending
    controls,       \* _control
    wake,           \* _wake
    running,        \* _running
    tracked,        \* _tracked; handles are pumped independently of its order
    \* RequestHandle
    bound,          \* the handles whose state is set
    flagged,        \* the handles with _cancelled set
    tokens,         \* _tokens
    emitted,        \* _emitted
    failed,         \* the handles with error set
    done,           \* the handles with _done set
    \* the other threads
    handler,        \* where the handler thread of a request is
    received,       \* the tokens its handler has taken from _tokens
    sync,           \* where a weight sync is
    applied,        \* the syncs the loop has run, and how each ended
    files,          \* the syncs whose checkpoint file exists
    stopper         \* where stop() is

loopVars == <<loop, binding, drained>>
handleVars == <<tracked, bound, tokens, emitted, failed, done>>
handlerVars == <<handler, received, flagged>>
syncVars == <<sync, applied, files>>
serverVars == <<loopVars, pending, controls, wake, running, handleVars, handlerVars,
                syncVars, stopper>>
allVars == <<vars, serverVars>>

\* The state start() leaves behind.
ServerInit ==
    /\ Init
    /\ loop = "top" /\ binding = NoRequest /\ drained = FALSE
    /\ pending = <<>> /\ controls = <<>> /\ wake = FALSE /\ running = TRUE
    /\ tracked = {} /\ bound = {} /\ flagged = {} /\ failed = {} /\ done = {}
    /\ tokens = [r \in Request |-> <<>>]
    /\ emitted = [r \in Request |-> 0]
    /\ handler = [r \in Request |-> "new"]
    /\ received = [r \in Request |-> <<>>]
    /\ sync = [c \in Control |-> "new"]
    /\ applied = [c \in Control |-> "no"]
    /\ files = {}
    /\ stopper = "no"

----------------------------------------------------------------------------
(***************************************************************************)
(* Handler threads                                                         *)
(***************************************************************************)

Goto(r, place) == handler' = [handler EXCEPT ![r] = place]

\* submit, up to the test of _running; RuntimeError when the server is stopped.
HandlerCheck(r) ==
    /\ handler[r] = "new"
    /\ Goto(r, IF running THEN "put" ELSE "refused")
    /\ UNCHANGED <<vars, loopVars, pending, controls, wake, running, handleVars, received,
                   flagged, syncVars, stopper>>

HandlerPut(r) ==
    /\ handler[r] = "put"
    /\ pending' = Append(pending, r)
    /\ Goto(r, "wake")
    /\ UNCHANGED <<vars, loopVars, controls, wake, running, handleVars, received, flagged,
                   syncVars, stopper>>

HandlerWake(r) ==
    /\ handler[r] = "wake"
    /\ wake' = TRUE
    /\ Goto(r, IF r \in Streaming THEN "stream" ELSE "result")
    /\ UNCHANGED <<vars, loopVars, pending, controls, running, handleVars, received, flagged,
                   syncVars, stopper>>

\* next_token: a token for the client, or the end of the stream.
NextToken(r) ==
    /\ handler[r] = "stream"
    /\ tokens[r] # <<>>
    /\ tokens' = [tokens EXCEPT ![r] = Tail(@)]
    /\ IF Head(tokens[r]) = End
       THEN Goto(r, "result") /\ UNCHANGED received
       ELSE /\ received' = [received EXCEPT ![r] = Append(@, Head(tokens[r]))]
            /\ UNCHANGED handler
    /\ UNCHANGED <<vars, loopVars, pending, controls, wake, running, tracked, bound, emitted,
                   failed, done, flagged, syncVars, stopper>>

\* The client's connection breaks while a token or the final chunk is written, or
\* the first token does not come in time: cancel() is called.
GiveUp(r) ==
    /\ r \in Streaming
    /\ \/ handler[r] = "stream" /\ (received[r] # <<>> \/ tokens[r] = <<>>)
       \/ handler[r] = "answered" /\ r \notin failed
    /\ Goto(r, "flag")
    /\ UNCHANGED <<vars, loopVars, pending, controls, wake, running, handleVars, received,
                   flagged, syncVars, stopper>>

\* A later token does not come in time: the handler waits for the result instead.
TokenTimeout(r) ==
    /\ handler[r] = "stream"
    /\ received[r] # <<>> /\ tokens[r] = <<>>
    /\ Goto(r, "result")
    /\ UNCHANGED <<vars, loopVars, pending, controls, wake, running, handleVars, received,
                   flagged, syncVars, stopper>>

\* result(): the final state or the recorded error, or a TimeoutError.
Result(r) ==
    /\ handler[r] = "result"
    /\ Goto(r, IF r \in done THEN "answered" ELSE "timedout")
    /\ UNCHANGED <<vars, loopVars, pending, controls, wake, running, handleVars, received,
                   flagged, syncVars, stopper>>

\* RequestHandle.cancel(): _cancelled is set, then state is read, ...
CancelFlag(r) ==
    /\ handler[r] = "flag"
    /\ flagged' = flagged \cup {r}
    /\ Goto(r, "read")
    /\ UNCHANGED <<vars, loopVars, pending, controls, wake, running, handleVars, received,
                   syncVars, stopper>>

CancelRead(r) ==
    /\ handler[r] = "read"
    /\ Goto(r, IF r \in bound THEN "cancel" ELSE "gone")
    /\ UNCHANGED <<vars, loopVars, pending, controls, wake, running, handleVars, received,
                   flagged, syncVars, stopper>>

\* ... then the two flags of the state, if there is one, are set.
CancelState(r) ==
    /\ handler[r] = "cancel"
    /\ SetCancelled(r)
    /\ Goto(r, "finish")
    /\ UNCHANGED <<schedulerVars, loopVars, pending, controls, wake, running, handleVars,
                   received, flagged, syncVars, stopper>>

CancelFinish(r) ==
    /\ handler[r] = "finish"
    /\ SetFinished(r)
    /\ Goto(r, "gone")
    /\ UNCHANGED <<schedulerVars, loopVars, pending, controls, wake, running, handleVars,
                   received, flagged, syncVars, stopper>>

\* What a handler does without waiting for anyone.
HandlerStep(r) ==
    \/ HandlerCheck(r) \/ HandlerPut(r) \/ HandlerWake(r)
    \/ CancelFlag(r) \/ CancelRead(r) \/ CancelState(r) \/ CancelFinish(r)

HandlerNext(r) ==
    HandlerStep(r) \/ NextToken(r) \/ GiveUp(r) \/ TokenTimeout(r) \/ Result(r)

----------------------------------------------------------------------------
(***************************************************************************)
(* Weight syncs: HTTPRolloutEngine.sync_weights, its handler in server.py, *)
(* and run_control                                                         *)
(***************************************************************************)

SyncGoto(c, place) == sync' = [sync EXCEPT ![c] = place]

\* The checkpoint is written, posted, and its control action queued.
SyncPut(c) ==
    /\ sync[c] = "new"
    /\ files' = files \cup {c}
    /\ controls' = Append(controls, c)
    /\ SyncGoto(c, "wake")
    /\ UNCHANGED <<vars, loopVars, pending, wake, running, handleVars, handlerVars, applied,
                   stopper>>

\* Mutant of SyncWake: run_control does not wake the loop.
SyncWakeForgotten(c) ==
    /\ sync[c] = "wake"
    /\ SyncGoto(c, "wait")
    /\ UNCHANGED <<vars, loopVars, pending, controls, wake, running, handleVars, handlerVars,
                   applied, files, stopper>>

SyncWake(c) ==
    /\ sync[c] = "wake"
    /\ wake' = TRUE
    /\ SyncGoto(c, "wait")
    /\ UNCHANGED <<vars, loopVars, pending, controls, running, handleVars, handlerVars, applied,
                   files, stopper>>

\* control.done is set, or the wait for it times out.
SyncReply(c) ==
    /\ sync[c] = "wait"
    /\ SyncGoto(c, CASE applied[c] = "ok" -> "loaded"
                     [] applied[c] = "error" -> "failed"
                     [] applied[c] = "no" -> "timedout")
    /\ UNCHANGED <<vars, loopVars, pending, controls, wake, running, handleVars, handlerVars,
                   applied, files, stopper>>

\* The client removes the checkpoint, whatever the answer was.
SyncUnlink(c) ==
    /\ sync[c] \in {"loaded", "failed", "timedout"}
    /\ c \in files
    /\ files' = files \ {c}
    /\ UNCHANGED <<vars, loopVars, pending, controls, wake, running, handleVars, handlerVars,
                   sync, applied, stopper>>

SyncNext(c) == SyncPut(c) \/ SyncWake(c) \/ SyncReply(c) \/ SyncUnlink(c)

----------------------------------------------------------------------------
(***************************************************************************)
(* The loop thread                                                         *)
(***************************************************************************)

LoopTop ==
    /\ loop = "top"
    /\ loop' = IF running THEN "control" ELSE "shutdown"
    /\ UNCHANGED <<vars, binding, drained, pending, controls, wake, running, handleVars,
                   handlerVars, syncVars, stopper>>

\* _drain_control runs one action: _do_sync loads the checkpoint or raises
\* FileNotFoundError, which is handed to the caller.
RunControl ==
    /\ loop = "control"
    /\ controls # <<>>
    /\ controls' = Tail(controls)
    /\ LET c == Head(controls)
       IN  IF c \in files
           THEN /\ SyncWeights
                /\ applied' = [applied EXCEPT ![c] = "ok"]
           ELSE /\ applied' = [applied EXCEPT ![c] = "error"]
                /\ UNCHANGED engineVars
    /\ UNCHANGED <<schedulerVars, loopVars, pending, wake, running, handleVars, handlerVars,
                   sync, files, stopper>>

ControlsDrained ==
    /\ loop = "control"
    /\ controls = <<>>
    /\ loop' = "drain"
    /\ drained' = FALSE
    /\ UNCHANGED <<vars, binding, pending, controls, wake, running, handleVars, handlerVars,
                   syncVars, stopper>>

\* The head of _pending is taken.
TakePending ==
    /\ loop = "drain"
    /\ pending # <<>>
    /\ pending' = Tail(pending)
    /\ drained' = TRUE
    /\ UNCHANGED <<controls, wake, running, handlerVars, syncVars, stopper>>

\* scheduler.submit of a request that is not speculative.
DrainSubmit(r) ==
    /\ TakePending
    /\ r = Head(pending)
    /\ r \notin Speculative
    /\ Admissible(r)
    /\ Submit(r)
    /\ binding' = r
    /\ loop' = "bind"
    /\ UNCHANGED handleVars

\* How many tokens a speculative request may have when it verifies its drafts: none, or two
\* and more, and not its last one.
DraftsAt(r) == {produced \in 0 .. MaxNew[r] - 2 : produced # 1}

\* The verify pass reaches past the context, and the model raises.
Overflows(r, produced) == Len(Prompt[r]) + produced + 1 + MtpHeads > ContextLength

\* _fail of the handle: new_request or spec_decode raised ValueError.
DrainFail(r) ==
    /\ TakePending
    /\ r = Head(pending)
    /\ \/ ~Admissible(r)
       \/ r \in Speculative /\ \E produced \in DraftsAt(r) : Overflows(r, produced)
    /\ failed' = failed \cup {r}
    /\ tokens' = [tokens EXCEPT ![r] = Append(@, End)]
    /\ done' = done \cup {r}
    /\ UNCHANGED <<vars, loop, binding, tracked, bound, emitted>>

\* A speculative answer: max_new_tokens tokens, cut after the first end of sequence.
SpecAnswers(r) ==
    {s \in UNION {[1 .. n -> Token] : n \in 0 .. MaxNew[r]} :
        /\ r \in StopsAtEos => \A i \in 1 .. Len(s) - 1 : s[i] # Eos
        /\ \/ Len(s) = MaxNew[r]
           \/ r \in StopsAtEos /\ s # <<>> /\ s[Len(s)] = Eos}

\* generate_with_state in speculative mode runs to its end inside _drain_pending;
\* its handle is bound and finished at once.  The drafts of the first round, at least, must fit.
DrainSpeculative(r) ==
    /\ TakePending
    /\ r = Head(pending)
    /\ r \in Speculative
    /\ Admissible(r)
    /\ 0 \in DraftsAt(r) => ~Overflows(r, 0)
    /\ \E answer \in SpecAnswers(r) :
         /\ gen' = [gen EXCEPT ![r] = answer]
         /\ tokens' = [tokens EXCEPT ![r] = @ \o Append(answer, End)]
         /\ emitted' = [emitted EXCEPT ![r] = Len(answer)]
    /\ finished' = [finished EXCEPT ![r] = TRUE]
    /\ bound' = bound \cup {r}
    /\ done' = done \cup {r}
    /\ UNCHANGED <<prefilled, kv, versions, logits, cancelled, weights, prefixCache,
                   schedulerVars, loop, binding, tracked, failed>>

Bind ==
    /\ loop = "bind"
    /\ bound' = bound \cup {binding}
    /\ loop' = "flag"
    /\ UNCHANGED <<vars, binding, drained, pending, controls, wake, running, tracked, tokens,
                   emitted, failed, done, handlerVars, syncVars, stopper>>

\* Mutant of FlaggedEarly: the flag is not looked at.
FlaggedEarlyUnseen == {}

\* The handle being bound, if it was cancelled before.
FlaggedEarly == {binding} \cap flagged

\* A handle that was cancelled before it was bound passes it on to its state.
Track ==
    /\ loop = "flag"
    /\ cancelled' = [r \in Request |-> cancelled[r] \/ r \in FlaggedEarly]
    /\ finished' = [r \in Request |-> finished[r] \/ r \in FlaggedEarly]
    /\ tracked' = tracked \cup {binding}
    /\ binding' = NoRequest
    /\ loop' = "drain"
    /\ UNCHANGED <<prefilled, kv, versions, logits, gen, weights, prefixCache, schedulerVars,
                   drained, pending, controls, wake, running, bound, tokens, emitted, failed,
                   done, handlerVars, syncVars, stopper>>

PendingDrained ==
    /\ loop = "drain"
    /\ pending = <<>>
    /\ loop' = "work"
    /\ UNCHANGED <<vars, binding, drained, pending, controls, wake, running, handleVars,
                   handlerVars, syncVars, stopper>>

\* A tick begins when the scheduler has work.
BeginTick ==
    /\ loop = "work"
    /\ HasWork
    /\ DecodeScan
    /\ loop' = "tick"
    /\ UNCHANGED <<binding, drained, pending, controls, wake, running, handleVars, handlerVars,
                   syncVars, stopper>>

RunTick ==
    /\ loop = "tick"
    /\ TickStep
    /\ loop' = IF tick' = "idle" THEN "pump" ELSE "tick"
    /\ UNCHANGED <<binding, drained, pending, controls, wake, running, handleVars, handlerVars,
                   syncVars, stopper>>

\* The tokens of r that _pump has not emitted yet.
Unsent(r) == SubSeq(gen[r], emitted[r] + 1, Len(gen[r]))

\* Mutants of Over: a handle is ended one pump after its last token, or once it is
\* flagged, before its request has ended.
OverOnceDrained == {r \in tracked : finished[r] /\ emitted[r] = Len(gen[r])}

OverOnceFlagged == {r \in tracked : finished[r] \/ r \in flagged}

\* The handles that are ended by this pump.
Over == {r \in tracked : finished[r]}

\* The tracked handles get the new tokens; the finished ones are ended and dropped.
Pump ==
    /\ loop = "pump"
    /\ tokens' = [r \in Request |->
                     IF r \in Over THEN Append(tokens[r] \o Unsent(r), End)
                     ELSE IF r \in tracked THEN tokens[r] \o Unsent(r) ELSE tokens[r]]
    /\ emitted' = [r \in Request |-> IF r \in tracked THEN Len(gen[r]) ELSE emitted[r]]
    /\ done' = done \cup Over
    /\ tracked' = tracked \ Over
    /\ loop' = "top"
    /\ UNCHANGED <<vars, binding, drained, pending, controls, wake, running, bound, failed,
                   handlerVars, syncVars, stopper>>

\* Mutant of Idle: the event is cleared before the wait, not after it.
IdleClearsFirst ==
    /\ loop = "work"
    /\ ~HasWork
    /\ wake' = FALSE
    /\ loop' = IF drained \/ controls # <<>> THEN "top" ELSE "wait"
    /\ UNCHANGED <<vars, binding, drained, pending, controls, running, handleVars, handlerVars,
                   syncVars, stopper>>

\* No work: wait for a wake-up unless something was just drained or queued.
Idle ==
    /\ loop = "work"
    /\ ~HasWork
    /\ loop' = IF drained \/ controls # <<>> THEN "top" ELSE "wait"
    /\ UNCHANGED <<vars, binding, drained, pending, controls, wake, running, handleVars,
                   handlerVars, syncVars, stopper>>

WakeUp ==
    /\ loop = "wait"
    /\ wake
    /\ loop' = "clear"
    /\ UNCHANGED <<vars, binding, drained, pending, controls, wake, running, handleVars,
                   handlerVars, syncVars, stopper>>

IdleTimeout ==
    /\ loop = "wait"
    /\ ~wake
    /\ loop' = "clear"
    /\ UNCHANGED <<vars, binding, drained, pending, controls, wake, running, handleVars,
                   handlerVars, syncVars, stopper>>

ClearWake ==
    /\ loop = "clear"
    /\ wake' = FALSE
    /\ loop' = "top"
    /\ UNCHANGED <<vars, binding, drained, pending, controls, running, handleVars, handlerVars,
                   syncVars, stopper>>

\* Mutant of Shutdown: the handles are ended as if they were complete.
ShutdownFinishes ==
    /\ loop = "shutdown"
    /\ tokens' = [r \in Request |-> IF r \in tracked THEN Append(tokens[r], End) ELSE tokens[r]]
    /\ done' = done \cup tracked
    /\ tracked' = {}
    /\ loop' = "ended"
    /\ UNCHANGED <<vars, binding, drained, pending, controls, wake, running, bound, emitted,
                   failed, handlerVars, syncVars, stopper>>

\* After the loop: whatever is tracked fails.
Shutdown ==
    /\ loop = "shutdown"
    /\ failed' = failed \cup tracked
    /\ tokens' = [r \in Request |-> IF r \in tracked THEN Append(tokens[r], End) ELSE tokens[r]]
    /\ done' = done \cup tracked
    /\ tracked' = {}
    /\ loop' = "ended"
    /\ UNCHANGED <<vars, binding, drained, pending, controls, wake, running, bound, emitted,
                   handlerVars, syncVars, stopper>>

LoopStep ==
    \/ LoopTop
    \/ RunControl \/ ControlsDrained
    \/ \E r \in Request : DrainSubmit(r) \/ DrainFail(r) \/ DrainSpeculative(r)
    \/ Bind \/ Track \/ PendingDrained
    \/ BeginTick \/ RunTick \/ Pump
    \/ Idle \/ WakeUp \/ ClearWake
    \/ Shutdown

----------------------------------------------------------------------------

\* stop(): _running is cleared, the loop is woken, and joined.
Stop ==
    /\ Stoppable
    /\ stopper = "no"
    /\ running' = FALSE
    /\ stopper' = "wake"
    /\ UNCHANGED <<vars, loopVars, pending, controls, wake, handleVars, handlerVars, syncVars>>

StopWake ==
    /\ stopper = "wake"
    /\ wake' = TRUE
    /\ stopper' = "join"
    /\ UNCHANGED <<vars, loopVars, pending, controls, running, handleVars, handlerVars, syncVars>>

ServerNext ==
    \/ LoopStep
    \/ IdleTimeout
    \/ \E r \in Request : HandlerNext(r)
    \/ \E c \in Control : SyncNext(c)
    \/ Stop \/ StopWake

\* Threads that can run do run.  Nothing is assumed of clients, of timeouts --
\* not even of the one that ends an idle wait -- or of stop() being called.
ServerSpec ==
    /\ ServerInit
    /\ [][ServerNext]_allVars
    /\ WF_allVars(LoopStep)
    /\ \A r \in Request : WF_allVars(HandlerPut(r) \/ HandlerWake(r))
    /\ \A r \in Request : WF_allVars(CancelFlag(r) \/ CancelRead(r) \/ CancelState(r)
                                       \/ CancelFinish(r))
    /\ \A c \in Control : WF_allVars(SyncWake(c))
    /\ WF_allVars(StopWake)

----------------------------------------------------------------------------

\* The loop's, the callers' and the queues' variables have their types (server.py).
ServerTypeOK ==
    /\ EngineTypeOK
    /\ SchedulerTypeOK
    /\ loop \in {"top", "control", "drain", "bind", "flag", "work", "tick", "pump", "wait",
                 "clear", "shutdown", "ended"}
    /\ binding \in Request \cup {NoRequest}
    /\ drained \in BOOLEAN
    /\ pending \in Seq(Request)
    /\ controls \in Seq(Control)
    /\ wake \in BOOLEAN
    /\ running \in BOOLEAN
    /\ tracked \subseteq Request
    /\ bound \subseteq Request
    /\ flagged \subseteq Request
    /\ tokens \in [Request -> Seq(Token \cup {End})]
    /\ emitted \in [Request -> Nat]
    /\ failed \subseteq Request
    /\ done \subseteq Request
    /\ handler \in [Request -> {"new", "refused", "put", "wake", "stream", "result", "answered",
                                "timedout", "flag", "read", "cancel", "finish", "gone"}]
    /\ received \in [Request -> Seq(Token)]
    /\ sync \in [Control -> {"new", "wake", "wait", "loaded", "failed", "timedout"}]
    /\ applied \in [Control -> {"no", "ok", "error"}]
    /\ files \subseteq Control
    /\ stopper \in {"no", "wake", "join"}

\* Hazard: result() hands out the live state, which the scheduler could still be
\* appending to when the handler reads it.  Once a request is done its generated
\* tokens do not change.
AnswerFrozen == [][\A r \in done : gen'[r] = gen[r]]_allVars

\* Hazard: cancel() before the loop has bound the handle.  The handler sets the
\* flag and finds no state, the loop binds the state and has yet to look at the
\* flag: whoever comes second must see the other, or the request runs on.
CancelNotLost ==
    \A r \in Request :
        handler[r] = "gone" /\ r \in bound /\ binding # r => finished[r]

\* Hazard: a handle the loop tracks whose request the scheduler has dropped (or the
\* other way round) would never be ended.  Between two ticks the tracked handles
\* are the requests in the scheduler, the cancelled ones it has yet to drop aside.
NoOrphan ==
    loop \in {"top", "control", "drain", "work", "wait", "clear"} =>
        /\ \A r \in tracked : Prefilling(r) \/ Decoding(r)
        /\ \A r \in Request : Prefilling(r) \/ Decoding(r) => r \in tracked \/ cancelled[r]

\* Hazard: a wake-up set between the loop's look at the queues and its wait is
\* cleared unseen, and the request sits in _pending until the idle timeout.  With
\* no help from that timeout, every submitted request is answered unless the
\* server is stopped.
Answered ==
    \A r \in Request : handler[r] = "put" ~> r \in done \/ ~running

\* Hazard: the same for a weight sync.  Every queued one is run unless the server
\* is stopped, also when its caller has timed out.
SyncRuns ==
    \A c \in Control : sync[c] = "wake" ~> applied[c] # "no" \/ ~running

\* serving.py:273 says of the code after the loop: "Shutdown: fail anything still in
\* flight so waiters don't hang."  Once the loop has ended, no handler waits for a
\* request that was queued and is not done.
ShutdownAnswersAll ==
    loop = "ended" => \A i \in DOMAIN pending : handler[pending[i]] # "result"

============================================================================
