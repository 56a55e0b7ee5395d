----------------------------- MODULE CodeReward -----------------------------
(***************************************************************************)
(* The verifiable reward of a coding agent: CodeRewardHost.score of        *)
(* rl/code_reward.py, the child Python of rl/code_exec.py that runs the    *)
(* extracted code and the tests of the problem, and the timeout that runs  *)
(* beside it.                                                              *)
(*                                                                         *)
(* A response is the form the code comes in, what the code does and what   *)
(* it leaves for the exit of its process; a test is what it does to the    *)
(* child when the code in front of it is right.  A reward is counted in    *)
(* tests: 0 is fail_reward, the number of tests pass_reward, and what is   *)
(* between them partial credit.  Code that speaks the protocol of the      *)
(* runner itself (prints its marker) is left out.                          *)
(***************************************************************************)
EXTENDS Integers, Sequences, FiniteSets

CONSTANTS
    NTests,         \* tests of the problem
    PartialCredit   \* CodeRewardConfig.partial_credit, either or both

\* CodeProblem.__post_init__: a problem has tests.
CodeRewardAssumption == NTests \in Nat \ {0} /\ PartialCredit \subseteq BOOLEAN

\* The forms a response comes in: a fenced block in text, only the code, the code and the
\* fence that closes the one the prompt opened, a fence that is never closed, and nothing.
Forms == {"fenced", "raw", "closing", "unclosed", "empty"}

\* What the module level of the code does: it defines what the tests call, right or wrong,
\* or never gets to its end.
Solutions == {"right", "wrong", "raises", "exits", "loops"}

\* What a test does: with a right solution it passes, unless it never returns or ends the
\* process (os._exit); SystemExit is caught like every other exception.
TestKinds == {"passes", "fails", "loops", "dies"}

\* How the process ends once all of the runner is done: by itself with code 0, not at all
\* (a thread of the code still runs), or with another code (an exit handler fails it).
Endings == {"clean", "hangs", "fails"}

VARIABLES
    problem,        \* the sample's problem_id is known, the tests
    response,       \* form, solution and ending
    partial,        \* partial_credit
    pc,             \* the host: "score", "waiting", "parse", "scored"
    child,          \* the child: "none", "solution", "tests", "printed", "exited" (with
                    \* code 0), "failed", "killed"
    results,        \* _results in the child
    runner,         \* the runner file exists
    reward          \* what score() returned

vars == <<problem, response, partial, pc, child, results, runner, reward>>

Init ==
    /\ problem \in [known : BOOLEAN, tests : [1 .. NTests -> TestKinds]]
    /\ response \in [form : Forms, solution : Solutions, ending : Endings]
    /\ partial \in PartialCredit
    /\ pc = "score" /\ child = "none" /\ results = <<>>
    /\ runner = FALSE /\ reward = 0

\* extract_python_code: the first fenced block, or else the text as it is, with a fence that
\* no other one matches.
Extracted ==
    CASE response.form = "empty" -> "nothing"
      [] response.form \in {"fenced", "raw"} -> "code"
      [] OTHER -> "code and a fence"

\* score, up to the child, and the start of it.
Score ==
    /\ pc = "score"
    /\ IF problem.known /\ Extracted # "nothing"
       THEN pc' = "waiting" /\ child' = "solution" /\ runner' = TRUE
       ELSE pc' = "scored" /\ UNCHANGED <<child, runner>>
    /\ UNCHANGED <<problem, response, partial, results, reward>>

\* The runner template up to its tests; a stray fence is a SyntaxError of all of it, and an
\* exception ends the process unless a thread of the code holds it up.
RunSolution ==
    /\ child = "solution"
    /\ \/ Extracted = "code" /\ response.solution \in {"right", "wrong"} /\ child' = "tests"
       \/ /\ Extracted = "code" /\ response.solution \in {"raises", "exits"}
          /\ response.ending # "hangs" /\ child' = "failed"
       \/ Extracted = "code and a fence" /\ child' = "failed"
    /\ UNCHANGED <<problem, response, partial, pc, results, runner, reward>>

\* One round of the template's loop, in a try of its own.
RunTest ==
    /\ child = "tests" /\ Len(results) < NTests
    /\ LET test == problem.tests[Len(results) + 1]
       IN  \/ /\ test \in {"passes", "fails"}
              /\ results' = Append(results, test = "passes" /\ response.solution = "right")
              /\ UNCHANGED child
           \/ test = "dies" /\ child' = "failed" /\ UNCHANGED results
    /\ UNCHANGED <<problem, response, partial, pc, runner, reward>>

PrintResults ==
    /\ child = "tests" /\ Len(results) = NTests
    /\ child' = "printed"
    /\ UNCHANGED <<problem, response, partial, pc, results, runner, reward>>

\* The interpreter shuts down, and its return code is what the host judges first.
Exit ==
    /\ child = "printed"
    /\ \/ response.ending = "clean" /\ child' = "exited"
       \/ response.ending = "fails" /\ child' = "failed"
    /\ UNCHANGED <<problem, response, partial, pc, results, runner, reward>>

\* Mutant of TimeOut: the clock stops when the code is loaded and the tests begin.
TimeOutOfSolution ==
    /\ pc = "waiting" /\ child = "solution"
    /\ child' = "killed"
    /\ UNCHANGED <<problem, response, partial, pc, results, runner, reward>>

\* subprocess.run kills a child that has not exited in time, its results printed or not.
TimeOut ==
    /\ pc = "waiting" /\ child \in {"solution", "tests", "printed"}
    /\ child' = "killed"
    /\ UNCHANGED <<problem, response, partial, pc, results, runner, reward>>

\* subprocess.run returns or raises, and the file of the runner goes away in either case.
ChildGone ==
    /\ pc = "waiting" /\ child \in {"exited", "failed", "killed"}
    /\ pc' = "parse" /\ runner' = FALSE
    /\ UNCHANGED <<problem, response, partial, child, results, reward>>

\* The results that are True.
PassedTests == {i \in DOMAIN results : results[i]}

\* Mutant of Passed: a child that never came to its results reports those it has.
PassedSoFar(reported) == Cardinality(PassedTests)

\* n_passed: nothing without a clean exit, after the results of every test.
Passed(reported) == IF reported THEN Cardinality(PassedTests) ELSE 0

\* The rest of execute_python_with_tests and of score.
Reward ==
    /\ pc = "parse"
    /\ LET passed == Passed(child = "exited")
       IN  reward' = IF partial \/ passed = NTests THEN passed ELSE 0
    /\ pc' = "scored"
    /\ UNCHANGED <<problem, response, partial, child, results, runner>>

Next ==
    \/ Score \/ RunSolution \/ RunTest \/ PrintResults \/ Exit
    \/ TimeOut \/ ChildGone \/ Reward

\* The host runs on, and the timeout expires; nothing is said of the child.
Host == Score \/ TimeOut \/ ChildGone \/ Reward

Spec == Init /\ [][Next]_vars /\ WF_vars(Host)

----------------------------------------------------------------------------

InTime == child # "killed"

Passing == \A i \in 1 .. NTests : problem.tests[i] = "passes"

\* A reward is earned by the tests alone.  The whole of it is for right code of a known
\* problem whose tests all passed and whose process ended well before the timeout, and code
\* as it is extracted cannot miss it; without partial credit nothing lies between; and a test
\* that never returns, a child that dies or is killed, or one that prints its results but
\* does not exit with 0, takes the credit of the tests along (code_exec.py,
\* execute_python_with_tests; code_reward.py, score).
RewardEarned ==
    pc = "scored" =>
        /\ reward = NTests <=>
              /\ problem.known /\ Extracted = "code"
              /\ response.solution = "right" /\ Passing
              /\ response.ending = "clean" /\ InTime
        /\ reward \notin {0, NTests} =>
              /\ partial /\ response.ending = "clean" /\ InTime
              /\ \A i \in 1 .. NTests : problem.tests[i] \in {"passes", "fails"}

\* score() returns whatever the code does, by the timeout if by nothing else, and leaves no
\* file of its runner behind (code_exec.py, timeout_sec and the finally around the run).
ScoreReturns == <>[](pc = "scored" /\ ~runner)

============================================================================
