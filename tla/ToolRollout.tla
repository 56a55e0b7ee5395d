---------------------------- MODULE ToolRollout ----------------------------
(***************************************************************************)
(* A rollout with tools: generate_with_tools of rl/rollout.py with the     *)
(* engine's decode_step, the parser of tools/schema.py and the registry of *)
(* tools/local.py.  The model's tokens of a turn, the execution of the     *)
(* call they end in and the tokens of its result alternate on one KV cache.*)
(*                                                                         *)
(* A token is its kind: text, the token that completes </tool_call>, end   *)
(* of sequence, or a token of a rendered result.  The KV cache behind the  *)
(* prompt is the sequence of the positions of the transcript that were fed *)
(* to the model, so that a token fed twice, skipped or out of place shows. *)
(***************************************************************************)
EXTENDS Integers, Sequences

CONSTANTS
    PromptLen,      \* tokens of the prompt
    Budget,         \* options.max_new_tokens
    ContextLength,  \* config.context_length
    MaxTurns,       \* max_turns
    ResultLengths,  \* how many tokens a rendered result may have
    EosSet          \* options.eos_id is set

\* new_request has accepted the request; a rendered result has its tags, so it is not empty.
ToolRolloutAssumption ==
    /\ {PromptLen, MaxTurns} \subseteq Nat \ {0}
    /\ {Budget, ContextLength} \subseteq Nat /\ PromptLen + Budget <= ContextLength
    /\ ResultLengths \subseteq Nat \ {0}
    /\ EosSet \in BOOLEAN

VARIABLES
    pc,             \* "turn", "decode", "parse", "execute", "feed", "returned", "raised"
    turn,
    response,       \* response_ids
    turnStart,      \* turn_start
    sampled,        \* len(state.generated)
    finished,       \* state.finished
    kv,             \* the positions of response in the KV cache behind the prompt
    logits,         \* the KV cache state.last_logits were computed on
    result,         \* the tokens of the result of the call just executed
    error           \* what was raised: "none", "tool", "context"

vars == <<pc, turn, response, turnStart, sampled, finished, kv, logits, result, error>>

Init ==
    /\ pc = "turn" /\ turn = 0
    /\ response = <<>> /\ turnStart = 0 /\ sampled = 0 /\ finished = FALSE
    /\ kv = <<>> /\ logits = <<>>
    /\ result = 0 /\ error = "none"

\* The tokens the model may sample.
Kinds == {"text", "close"} \cup (IF EosSet THEN {"eos"} ELSE {})

TurnText == SubSeq(response, turnStart + 1, Len(response))

Closes(text) == \E i \in DOMAIN text : text[i] = "close"

\* The positions of n tokens behind the transcript.
Behind(n) == [i \in 1 .. n |-> Len(response) + i]

\* The outer while: a turn begins, or the sample is returned.
BeginTurn ==
    /\ pc = "turn"
    /\ IF turn < MaxTurns /\ Len(response) < Budget
       THEN /\ pc' = "decode" /\ turn' = turn + 1 /\ turnStart' = Len(response)
       ELSE /\ pc' = "returned" /\ UNCHANGED <<turn, turnStart>>
    /\ UNCHANGED <<response, sampled, finished, kv, logits, result, error>>

Decoding == ~finished /\ Len(response) < Budget

\* Mutant of FeedSampled: the token that ends a call is left for the next forward.
FeedSampledLate(t, ends) == kv' = IF ends \/ t = "close" THEN kv ELSE kv \o Behind(1)

\* The last part of decode_step: no forward for the token that ends the generation.
FeedSampled(t, ends) == kv' = IF ends THEN kv ELSE kv \o Behind(1)

\* The inner while: decode_step, and the test for the tag that closes a call.
DecodeStep ==
    /\ pc = "decode" /\ Decoding
    /\ \E t \in Kinds :
         /\ response' = Append(response, t)
         /\ sampled' = sampled + 1
         /\ finished' = (t = "eos" \/ sampled + 1 >= Budget)
         /\ FeedSampled(t, finished')
         /\ logits' = IF finished' THEN logits ELSE kv'
         /\ pc' = IF t = "close" THEN "parse" ELSE "decode"
    /\ UNCHANGED <<turn, turnStart, result, error>>

DecodeEnds ==
    /\ pc = "decode" /\ ~Decoding
    /\ pc' = "parse"
    /\ UNCHANGED <<turn, response, turnStart, sampled, finished, kv, logits, result, error>>

\* parse_tool_call_text: text without a closing tag or that is no call ends the rollout.
ParseCall ==
    /\ pc = "parse"
    /\ \/ Closes(TurnText) /\ pc' = "execute"
       \/ pc' = "returned"
    /\ UNCHANGED <<turn, response, turnStart, sampled, finished, kv, logits, result, error>>

\* registry.execute: unknown names, wrong arguments and exceptions of the tool are results
\* like any other, except that a ToolResult refuses to be made of an error without a message.
Execute ==
    /\ pc = "execute"
    /\ \/ \E n \in ResultLengths : result' = n /\ pc' = "feed" /\ UNCHANGED error
       \/ pc' = "raised" /\ error' = "tool" /\ UNCHANGED result
    /\ UNCHANGED <<turn, response, turnStart, sampled, finished, kv, logits>>

\* What the check in front of the forward counts: state.prefilled, state.generated and the
\* result, not the results of the turns before.
Counted == PromptLen + sampled + result

\* The rest of the turn: the result is fed to the model and becomes part of the transcript.
FeedResult ==
    /\ pc = "feed"
    /\ \/ /\ Counted > ContextLength
          /\ pc' = "returned"
          /\ UNCHANGED <<response, finished, kv, logits, error>>
       \/ \* model.py: "input sequence exceeds config.context_length".
          /\ Counted <= ContextLength /\ PromptLen + Len(kv) + result > ContextLength
          /\ pc' = "raised" /\ error' = "context"
          /\ UNCHANGED <<response, finished, kv, logits>>
       \/ /\ Counted <= ContextLength /\ PromptLen + Len(kv) + result <= ContextLength
          /\ kv' = kv \o Behind(result) /\ logits' = kv'
          /\ response' = response \o [i \in 1 .. result |-> "result"]
          /\ finished' = FALSE
          /\ pc' = "turn" /\ UNCHANGED error
    /\ UNCHANGED <<turn, turnStart, sampled, result>>

Next == BeginTurn \/ DecodeStep \/ DecodeEnds \/ ParseCall \/ Execute \/ FeedResult

Spec == Init /\ [][Next]_vars /\ WF_vars(Next)

----------------------------------------------------------------------------

\* Every token the model samples in a tool rollout is drawn from logits over the prompt and
\* the whole transcript, in order and each token once: the results of the tools, the token
\* that closed a call, and nothing left out by a decode_step that ended without a forward
\* (rollout.py, generate_with_tools; engine.py, decode_step).
TranscriptExact ==
    pc = "decode" /\ Decoding => logits = [i \in DOMAIN response |-> i]

\* A tool rollout never runs the model beyond its context: the check in front of a result
\* ends the rollout first (rollout.py:194-198), so the "input sequence exceeds
\* config.context_length" of model.py:254 is never raised from it.
RolloutFits == error # "context"

============================================================================
