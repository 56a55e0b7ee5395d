--------------------------- MODULE RolloutBuffer ---------------------------
(***************************************************************************)
(* AsyncRolloutBuffer (rl/buffer.py): a bounded buffer between a producer  *)
(* thread, which runs a callable that adds scored samples, and the trainer *)
(* that drains them.  One lock guards the items; two conditions share it.  *)
(* A thread that waits is out of the lock until it is notified (or its     *)
(* timeout ends), takes the lock again and looks again.                    *)
(*                                                                         *)
(* Every section under the lock is one action.  The callable adds Batch    *)
(* samples and returns or raises at any point; a sample is its number.     *)
(***************************************************************************)
EXTENDS Integers, Sequences

CONSTANTS
    MaxSize,        \* max_size
    Batch,          \* bound: the samples one run of the callable adds
    MaxStarts,      \* bound: how often the trainer calls start()
    MinCounts       \* the values of min_count the trainer passes to drain()

BufferAssumption ==
    /\ MaxSize \in Nat \ {0}
    /\ Batch \in Nat
    /\ MaxStarts \in Nat
    /\ MinCounts \subseteq Nat

VARIABLES
    items,          \* _items
    producer,       \* where the producer thread is; "none" when none is alive
    made,           \* history: how many samples add() has appended in all
    left,           \* how many samples the callable has still to add
    failing,        \* the callable has raised; _run has yet to record it
    error,          \* _producer_error is set
    finished,       \* _producer_done
    starts,         \* how often start() was called
    trainer,        \* where the trainer is
    minCount,       \* the min_count of its drain
    taken           \* history: the samples all drains have returned

heldVars == <<items, error, finished>>
producerVars == <<producer, made, left, failing>>
trainerVars == <<starts, trainer, minCount, taken>>
bufferVars == <<heldVars, producerVars, trainerVars>>

BufferInit ==
    /\ items = <<>> /\ error = FALSE /\ finished = FALSE
    /\ producer = "none" /\ made = 0 /\ left = 0 /\ failing = FALSE
    /\ starts = 0 /\ trainer = "idle" /\ minCount = 0 /\ taken = <<>>

Full == Len(items) >= MaxSize

\* The condition drain waits for.
Enough == Len(items) >= minCount \/ finished

\* notify_all on a condition: its waiter will take the lock and look again.
Woken(place) == IF place = "waiting" THEN "again" ELSE place

\* add() with room in the buffer, at once or after a wait.
AddLook ==
    /\ (producer = "run" /\ left > 0) \/ producer = "again"
    /\ ~Full
    /\ items' = Append(items, made + 1)
    /\ made' = made + 1
    /\ left' = left - 1
    /\ producer' = "run"
    /\ trainer' = Woken(trainer)
    /\ UNCHANGED <<failing, error, finished, starts, minCount, taken>>

AddWait ==
    /\ (producer = "run" /\ left > 0) \/ producer = "again"
    /\ Full
    /\ producer' = "waiting"
    /\ UNCHANGED <<heldVars, made, left, failing, trainerVars>>

\* The callable returns, or raises between two adds.
ProducerReturns ==
    /\ producer = "run" /\ left = 0
    /\ producer' = "record"
    /\ UNCHANGED <<heldVars, made, left, failing, trainerVars>>

ProducerRaises ==
    /\ producer = "run"
    /\ producer' = "record" /\ failing' = TRUE
    /\ UNCHANGED <<heldVars, made, left, trainerVars>>

\* The except clause of _run: the error is set outside the lock.
RecordError ==
    /\ producer = "record"
    /\ error' = (error \/ failing)
    /\ producer' = "finally"
    /\ UNCHANGED <<items, finished, made, left, failing, trainerVars>>

\* Mutant of ProducerDone: nobody is notified.
ProducerDoneSilently ==
    /\ producer = "finally"
    /\ finished' = TRUE
    /\ producer' = "ends"
    /\ UNCHANGED <<items, error, made, left, failing, starts, trainer, minCount, taken>>

\* The finally clause of _run, under the lock; then the thread ends.
ProducerDone ==
    /\ producer = "finally"
    /\ finished' = TRUE
    /\ producer' = "ends"
    /\ trainer' = Woken(trainer)
    /\ UNCHANGED <<items, error, made, left, failing, starts, minCount, taken>>

ProducerEnds ==
    /\ producer = "ends"
    /\ producer' = "none"
    /\ left' = 0 /\ failing' = FALSE
    /\ UNCHANGED <<heldVars, made, trainerVars>>

ProducerStep ==
    \/ AddLook \/ AddWait
    \/ ProducerReturns \/ ProducerRaises \/ RecordError \/ ProducerDone \/ ProducerEnds

\* Mutant of Start: the done event of the last run stays set.
StartKeepsDone ==
    /\ trainer = "idle"
    /\ producer = "none"
    /\ starts < MaxStarts
    /\ error' = FALSE
    /\ producer' = "run" /\ left' = Batch
    /\ starts' = starts + 1
    /\ UNCHANGED <<items, finished, made, failing, trainer, minCount, taken>>

\* start(), which raises while a producer is alive.
Start ==
    /\ trainer = "idle"
    /\ producer = "none"
    /\ starts < MaxStarts
    /\ finished' = FALSE /\ error' = FALSE
    /\ producer' = "run" /\ left' = Batch
    /\ starts' = starts + 1
    /\ UNCHANGED <<items, made, failing, trainer, minCount, taken>>

\* drain(min_count) is called.
Drain(n) ==
    /\ trainer = "idle"
    /\ starts > 0
    /\ trainer' = "look" /\ minCount' = n
    /\ UNCHANGED <<heldVars, producerVars, starts, taken>>

DrainWait ==
    /\ trainer \in {"look", "again"}
    /\ ~Enough
    /\ trainer' = "waiting"
    /\ UNCHANGED <<heldVars, producerVars, starts, minCount, taken>>

\* The timeout of wait_for ends: it looks once more, and drain raises if there is
\* still too little.
DrainTimeout ==
    /\ trainer = "waiting"
    /\ trainer' = IF Enough THEN "again" ELSE "idle"
    /\ UNCHANGED <<heldVars, producerVars, starts, minCount, taken>>

\* _raise_if_producer_failed: drain raises and leaves the samples where they are.
DrainRaises ==
    /\ trainer \in {"look", "again"}
    /\ Enough
    /\ error
    /\ trainer' = "raised"
    /\ UNCHANGED <<heldVars, producerVars, starts, minCount, taken>>

\* Mutant of Snapshot: drain returns no more than it was asked for.
SnapshotOfMinCount == SubSeq(items, 1, IF Len(items) < minCount THEN Len(items) ELSE minCount)

\* What drain returns.
Snapshot == items

\* The snapshot is taken, the buffer cleared, and a producer that waits is notified.
DrainTakes ==
    /\ trainer \in {"look", "again"}
    /\ Enough
    /\ ~error
    /\ taken' = taken \o Snapshot
    /\ items' = <<>>
    /\ producer' = Woken(producer)
    /\ trainer' = "idle"
    /\ UNCHANGED <<error, finished, made, left, failing, starts, minCount>>

\* The trainer handles the error of drain or join.
Handled ==
    /\ trainer = "raised"
    /\ trainer' = "idle"
    /\ UNCHANGED <<heldVars, producerVars, starts, minCount, taken>>

\* join() of a producer that has ended, or whose timeout ends.
Join ==
    /\ trainer = "idle"
    /\ starts > 0
    /\ error
    /\ trainer' = "raised"
    /\ UNCHANGED <<heldVars, producerVars, starts, minCount, taken>>

DrainStep == DrainWait \/ DrainRaises \/ DrainTakes

BufferNext ==
    \/ ProducerStep
    \/ Start
    \/ \E n \in MinCounts : Drain(n)
    \/ DrainStep
    \/ DrainTimeout
    \/ Handled
    \/ Join

\* Threads that can run do run, and the callable goes on adding or ends.  Nothing is
\* assumed of timeouts or of what the trainer calls.
BufferSpec ==
    /\ BufferInit /\ [][BufferNext]_bufferVars
    /\ WF_bufferVars(ProducerStep) /\ WF_bufferVars(DrainStep)

----------------------------------------------------------------------------

\* The buffer's entries, its flags and counters, and the places of the producer and the
\* trainer have their types (buffer.py).
BufferTypeOK ==
    /\ items \in Seq(1 .. Batch * MaxStarts)
    /\ error \in BOOLEAN
    /\ finished \in BOOLEAN
    /\ producer \in {"none", "run", "waiting", "again", "record", "finally", "ends"}
    /\ made \in 0 .. Batch * MaxStarts
    /\ left \in 0 .. Batch
    /\ failing \in BOOLEAN
    /\ starts \in 0 .. MaxStarts
    /\ trainer \in {"idle", "look", "waiting", "again", "raised"}
    /\ minCount \in Nat
    /\ taken \in Seq(1 .. Batch * MaxStarts)

\* Hazard: a sample lost or delivered twice across waits, timeouts, failures and
\* restarts of the producer, or more samples held than the buffer is allowed.  What
\* the drains returned, followed by what is in the buffer, is what was added, in order.
SamplesConserved ==
    /\ taken \o items = [i \in 1 .. made |-> i]
    /\ Len(items) <= MaxSize

\* Hazard: the done event of an earlier run makes a drain of the next run return at
\* once.  A drain returns less than its min_count only of a producer that is done.
DrainsEnough ==
    [][ (trainer \in {"look", "again"} /\ trainer' = "idle") =>
          (Len(taken') - Len(taken) >= minCount \/ producer \in {"none", "ends"}) ]_bufferVars

\* Hazard: a wake-up lost between the two conditions, by a producer that ends, fails
\* or fills the buffer while the trainer starts to wait.  As long as min_count is not
\* above max_size, every drain returns or raises, with no help from its timeout.
DrainReturns == trainer = "look" ~> trainer \in {"idle", "raised"}

============================================================================
