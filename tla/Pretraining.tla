---------------------------- MODULE Pretraining ----------------------------
(***************************************************************************)
(* The pre-training loop (training/pretrain.py), its optimizers            *)
(* (training/mlx_optim.py) and its checkpoint files                        *)
(* (training/checkpoint.py), with a process that can be killed at any      *)
(* point and started again from the newest file that loads.                *)
(*                                                                         *)
(* Weights are the history that made them: the sequence of the updates     *)
(* applied to a fresh model, each with the batch, the learning rate, the   *)
(* bias correction and the router bias it was computed with.  A slot of an *)
(* optimizer is likewise the sequence of the gradients it has absorbed.    *)
(* A batch is its epoch and its place in it: the seed of an epoch's        *)
(* shuffle is the seed of the run plus the epoch.                          *)
(***************************************************************************)
EXTENDS Integers, Sequences, SequencesExt

CONSTANTS
    MaxSteps,       \* max_steps
    Batches,        \* batches in an epoch, the last one maybe short
    SaveEvery,      \* save_every; 0: only final.bw4
    Warmup,         \* warmup_steps
    Schedule,       \* scheduler: "constant" or "cosine"
    Micro,          \* microbatches of a step: min(grad_accum, batch size)
    Optimizers,     \* the optimizers a process may be started with
    MaxCrashes      \* bound: how often the process is killed

PretrainingAssumption ==
    /\ {MaxSteps, Batches, Micro} \subseteq Nat \ {0}
    /\ {SaveEvery, Warmup, MaxCrashes} \subseteq Nat
    /\ Schedule \in {"constant", "cosine"}
    /\ Optimizers \subseteq {"adamw", "adafactor", "muon"}

VARIABLES
    pc,             \* "down", "refused", "loop", "save", "final", "done"
    files,          \* the files of out_dir: step_k.bw4 at k, final.bw4 at 0
    writing,        \* a file has been opened for writing and is not complete
    weights, opt, scheduled, step, epoch, index,    \* the process's own state
    bias,           \* how often the router bias of the model was updated
    crashes

process == <<weights, opt, scheduled, step, epoch, index, bias>>
vars == <<pc, files, writing, process, crashes>>

Final == 0

\* A parameter matrix and a parameter vector; the optimizers tell them apart.
Paths == {"matrix", "vector"}
Ndim(path) == IF path = "matrix" THEN 2 ELSE 1

----------------------------------------------------------------------------
(* The optimizers: the slots of one path, empty and after a gradient. *)

AdamWSlots(slots, path, g) == [m |-> Append(slots.m, g), v |-> Append(slots.v, g)]

AdafactorSlots(slots, path, g) ==
    IF Ndim(path) >= 2
    THEN [slots EXCEPT !.row = Append(@, g), !.col = Append(@, g)]
    ELSE [slots EXCEPT !.v = Append(@, g)]

MuonSlots(slots, path, g) == [momentum |-> Append(slots.momentum, g)]

NoSlots(kind) ==
    CASE kind = "adamw"     -> [m |-> <<>>, v |-> <<>>]
      [] kind = "adafactor" -> [row |-> <<>>, col |-> <<>>, v |-> <<>>]
      [] kind = "muon"      -> [momentum |-> <<>>]

\* _build_optimizer.
NewOptimizer(kind) == [kind |-> kind, step |-> 0, slots |-> [path \in Paths |-> NoSlots(kind)]]

\* What the step() of each optimizer makes of the slots of a path.
Absorb(kind, slots, path, g) ==
    CASE kind = "adamw"     -> AdamWSlots(slots, path, g)
      [] kind = "adafactor" -> AdafactorSlots(slots, path, g)
      [] kind = "muon"      -> MuonSlots(slots, path, g)

\* step() of the optimizer.
OptimizerStep(o, g) ==
    [o EXCEPT !.step = @ + 1,
              !.slots = [path \in Paths |-> Absorb(o.kind, @[path], path, g)]]

\* The gradients the slots of a path that are in use have absorbed.
Absorbed(o, path) ==
    LET used == IF o.kind # "adafactor" THEN DOMAIN o.slots[path]
                ELSE IF Ndim(path) >= 2 THEN {"row", "col"} ELSE {"v"}
    IN  {o.slots[path][slot] : slot \in used}

\* load_state_dict finds every key it reads: it raises on the state of another optimizer.
CanLoad(kind, saved) == DOMAIN NoSlots(kind) \subseteq DOMAIN saved.slots["matrix"]

\* _lr_at_step, as the stage of the schedule and how far into it.
LrAt(n) ==
    IF n < Warmup THEN <<"warmup", n + 1>>
    ELSE IF Schedule = "constant" THEN <<"constant", 0>>
    ELSE LET length == IF MaxSteps - Warmup > 1 THEN MaxSteps - Warmup ELSE 1
         IN  <<"cosine", IF n - Warmup < length THEN n - Warmup ELSE length>>

----------------------------------------------------------------------------
(* The checkpoint files. *)

NoFile == [state |-> "none"]
TornFile == [state |-> "torn"]
Intact == {f \in DOMAIN files : files[f].state = "whole"}

\* step_{n}.bw4.
StepFile(n) == n

\* Mutant of Saved: the optimizer is left out, as every later stage leaves it out.
SavedWeightsOnly ==
    [state |-> "whole", weights |-> weights, opt |-> NewOptimizer(opt.kind),
     scheduled |-> scheduled, step |-> step]

\* The payload of save_checkpoint: parameters, optimizer, scheduler and step.  The router
\* bias is no parameter and is not in it.
Saved ==
    [state |-> "whole", weights |-> weights, opt |-> opt, scheduled |-> scheduled, step |-> step]

\* write_bytes truncates the file, then fills it.
SaveBegins(f) ==
    /\ ~writing
    /\ files' = [files EXCEPT ![f] = TornFile]
    /\ writing' = TRUE
    /\ UNCHANGED <<pc, process, crashes>>

SaveEnds(f, next) ==
    /\ writing
    /\ files' = [files EXCEPT ![f] = Saved]
    /\ writing' = FALSE
    /\ pc' = next
    /\ UNCHANGED <<process, crashes>>

----------------------------------------------------------------------------
(* The process. *)

Fresh(kind) ==
    /\ weights' = <<>> /\ opt' = NewOptimizer(kind) /\ scheduled' = 0 /\ step' = 0

\* The loop counts its epochs from one, whatever step it starts at.
EnterLoop ==
    /\ epoch' = 1 /\ index' = 1 /\ bias' = 0
    /\ pc' = "loop"
    /\ UNCHANGED <<files, writing, crashes>>

Down == pc \in {"down", "refused"}

\* pretrain() without resume_from.
StartFresh(kind) ==
    /\ Down /\ Intact = {}
    /\ Fresh(kind)
    /\ EnterLoop

\* The operator starts again from the file of the most steps that loads.
Newest(f) == f \in Intact /\ \A g \in Intact : files[g].step <= files[f].step

\* pretrain(resume_from=load_checkpoint(f)).
Resume(f, kind) ==
    /\ Down /\ Newest(f) /\ CanLoad(kind, files[f].opt)
    /\ weights' = files[f].weights
    /\ opt' = files[f].opt
    /\ scheduled' = files[f].scheduled
    /\ step' = files[f].step
    /\ EnterLoop

\* load_checkpoint raises on a torn file, load_state_dict on another optimizer's state.
ResumeRefused(f, kind) ==
    /\ pc = "down"
    /\ \/ files[f] = TornFile
       \/ Newest(f) /\ ~CanLoad(kind, files[f].opt)
    /\ pc' = "refused"
    /\ UNCHANGED <<files, writing, process, crashes>>

\* One iteration of the loop, up to the save it may end in.
TrainStep ==
    /\ pc = "loop" /\ step < MaxSteps
    /\ scheduled' = scheduled + 1
    /\ LET batch == <<epoch, index>> IN
        /\ opt' = OptimizerStep(opt, batch)
        /\ weights' = Append(weights, [batch |-> batch, lr |-> LrAt(scheduled),
                                       corrected |-> opt.step + 1, bias |-> bias])
    /\ bias' = bias + Micro
    /\ step' = step + 1
    /\ epoch' = IF index = Batches THEN epoch + 1 ELSE epoch
    /\ index' = IF index = Batches THEN 1 ELSE index + 1
    /\ pc' = IF SaveEvery # 0 /\ step' % SaveEvery = 0 THEN "save" ELSE "loop"
    /\ UNCHANGED <<files, writing, crashes>>

SaveStep == pc = "save" /\ (SaveBegins(StepFile(step)) \/ SaveEnds(StepFile(step), "loop"))

\* The loop is over; the evaluation in between runs in eval mode and changes nothing.
LoopEnds ==
    /\ pc = "loop" /\ step >= MaxSteps
    /\ pc' = "final"
    /\ UNCHANGED <<files, writing, process, crashes>>

SaveFinal == pc = "final" /\ (SaveBegins(Final) \/ SaveEnds(Final, "done"))

\* The process is killed: what it was writing stays torn.
Crash ==
    /\ pc \in {"loop", "save", "final"}
    /\ crashes < MaxCrashes
    /\ crashes' = crashes + 1
    /\ pc' = "down" /\ writing' = FALSE
    /\ UNCHANGED <<files, process>>

Init ==
    /\ pc = "down" /\ writing = FALSE /\ crashes = 0
    /\ files = [f \in {Final} \union 1 .. MaxSteps |-> NoFile]
    /\ weights = <<>> /\ opt = NewOptimizer("adamw")
    /\ scheduled = 0 /\ step = 0 /\ epoch = 1 /\ index = 1 /\ bias = 0

Next ==
    \/ \E kind \in Optimizers : StartFresh(kind)
    \/ \E f \in DOMAIN files, kind \in Optimizers : Resume(f, kind) \/ ResumeRefused(f, kind)
    \/ TrainStep \/ SaveStep \/ LoopEnds \/ SaveFinal
    \/ Crash

Spec == Init /\ [][Next]_vars

----------------------------------------------------------------------------

\* The state of a run says the same of its history wherever one looks.
Coherent(w, o, lrs, n) ==
    /\ Len(w) = n /\ o.step = n /\ lrs = n
    /\ \A i \in 1 .. n : w[i].lr = LrAt(i - 1) /\ w[i].corrected = i
    /\ \A path \in Paths : Absorbed(o, path) = {[i \in 1 .. n |-> w[i].batch]}

\* Hazard: after a crash and a resume the optimizer's moments, its bias correction or
\* the learning rate belong to another step than the weights.  In the process and in
\* every whole file, the i-th update was made with the i-th learning rate and
\* correction, and the moments hold exactly the gradients of the updates made.
LineageExact ==
    /\ pc \in {"loop", "save", "final"} => Coherent(weights, opt, scheduled, step)
    /\ \A f \in Intact :
          Coherent(files[f].weights, files[f].opt, files[f].scheduled, files[f].step)

\* A run that was never interrupted.
Uninterrupted(i) ==
    [batch |-> <<((i - 1) \div Batches) + 1, ((i - 1) % Batches) + 1>>,
     lr |-> LrAt(i - 1), corrected |-> i, bias |-> (i - 1) * Micro]

\* "checkpointing with exact resume ... so a crash doesn't cost you the run"
\* (course/09-pretraining/README.md:18): a resumed run makes the updates the
\* uninterrupted run makes.
ResumeIsExact == \A i \in 1 .. Len(weights) : weights[i] = Uninterrupted(i)
============================================================================
