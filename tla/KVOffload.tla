----------------------------- MODULE KVOffload -----------------------------
(***************************************************************************)
(* Offload of one request: Engine.offload_request and reload_request with  *)
(* the two files of inference/kv_offload.py.  A conversation is prefilled, *)
(* decoded, written to disk, dropped and rebuilt, any number of times at   *)
(* one path; a write may fail.                                             *)
(*                                                                         *)
(* The KV cache of a layer is the sequence of the positions of the text it *)
(* has rows of, and logits are the cache they were computed on.            *)
(***************************************************************************)
EXTENDS Integers, Sequences

CONSTANTS
    Layers,         \* the layers of the schedule
    Latent,         \* those of kind "mla"
    PromptLen, PrefillChunk,
    Budget,         \* options.max_new_tokens
    MaxSaves, MaxReloads    \* bounds on the calls

OffloadAssumption ==
    /\ Layers # {} /\ Latent \subseteq Layers
    /\ {PromptLen, PrefillChunk} \subseteq Nat \ {0}
    /\ {Budget, MaxSaves, MaxReloads} \subseteq Nat

VARIABLES
    state,          \* the RequestState in memory
    live,           \* there is one
    fed,            \* history: how many sampled tokens of the conversation the model was fed
    saving,         \* "no", "arrays", "manifest": the write that comes next
    arrays,         \* the .npz: the rows of each layer in it
    manifest,       \* present_kv and present_latent
    kept,           \* what the caller kept with the last report: prefilled, last_logits, and fed
    mixed,          \* where arrays of one save meet the rest of another: "no", "files", "state"
    saves, reloads

vars == <<state, live, fed, saving, arrays, manifest, kept, mixed, saves, reloads>>

UpTo(n) == [i \in 1 .. n |-> i]

Init ==
    /\ state = [prefilled |-> 0, generated |-> 0, finished |-> FALSE,
                cache |-> [l \in Layers |-> <<>>], logits |-> <<>>]
    /\ live = TRUE /\ fed = 0 /\ saving = "no"
    /\ arrays = [l \in {} |-> <<>>]
    /\ manifest = [kv |-> {}, latent |-> {}]
    /\ kept = [valid |-> FALSE, prefilled |-> 0, logits |-> <<>>, fed |-> 0]
    /\ mixed = "no" /\ saves = 0 /\ reloads = 0

\* The forward of n tokens behind the text, in every layer.
Forward(n, next) ==
    [l \in Layers |-> state.cache[l] \o [i \in 1 .. n |-> next + i - 1]]

Rest == UNCHANGED <<live, saving, arrays, manifest, kept, mixed, saves, reloads>>

\* prefill_chunk
Prefill ==
    /\ live /\ saving = "no" /\ state.prefilled < PromptLen
    /\ LET left == PromptLen - state.prefilled
           n == IF PrefillChunk < left THEN PrefillChunk ELSE left
           cache == Forward(n, state.prefilled + 1)
       IN  state' = [state EXCEPT !.prefilled = @ + n, !.cache = cache,
                                  !.logits = cache[CHOOSE l \in Layers : TRUE]]
    /\ UNCHANGED fed /\ Rest

\* decode_step, the loop around it included: not finished and remaining_decode > 0.
Decode ==
    /\ live /\ saving = "no" /\ state.prefilled = PromptLen
    /\ ~state.finished /\ state.generated < Budget
    /\ LET finished == state.generated + 1 >= Budget
           cache == Forward(1, PromptLen + fed + 1)
       IN  /\ state' = [state EXCEPT
                          !.generated = @ + 1, !.finished = finished,
                          !.cache = IF finished THEN @ ELSE cache,
                          !.logits = IF finished THEN @ ELSE cache[CHOOSE l \in Layers : TRUE]]
           /\ fed' = IF finished THEN fed ELSE fed + 1
    /\ Rest

\* offload_request: an empty cache raises, and so nothing is written of it.
Offload ==
    /\ live /\ saving = "no" /\ saves < MaxSaves
    /\ \E l \in Layers : state.cache[l] # <<>>
    /\ saving' = "arrays" /\ saves' = saves + 1
    /\ UNCHANGED <<state, live, fed, arrays, manifest, kept, mixed, reloads>>

\* save_kv_cache_npz: keys and values, or the latents, of each layer.
WriteArrays ==
    /\ saving = "arrays"
    /\ arrays' = state.cache
    /\ saving' = "manifest"
    /\ UNCHANGED <<state, live, fed, manifest, kept, mixed, saves, reloads>>

\* Mutant of Manifest: the layers with a latent are not listed.
ManifestOfKeys == [kv |-> Layers \ Latent, latent |-> {}]

\* present_kv and present_latent
Manifest == [kv |-> Layers \ Latent, latent |-> Latent]

\* The manifest, the report, and what the caller keeps with it.
WriteManifest ==
    /\ saving = "manifest"
    /\ manifest' = Manifest
    /\ kept' = [valid |-> TRUE, prefilled |-> state.prefilled, logits |-> state.logits, fed |-> fed]
    /\ saving' = "no" /\ mixed' = IF mixed = "files" THEN "no" ELSE mixed
    /\ UNCHANGED <<state, live, fed, arrays, saves, reloads>>

\* A write fails, the arrays as a whole or the manifest, and the exception reaches the caller.
SaveFails ==
    /\ saving # "no"
    /\ arrays' = IF saving = "arrays" THEN [l \in {} |-> <<>>] ELSE arrays
    /\ mixed' = IF mixed = "no" /\ saving = "manifest" THEN "files" ELSE mixed
    /\ saving' = "no"
    /\ UNCHANGED <<state, live, fed, manifest, kept, saves, reloads>>

\* The caller lets go of the request, its last report in hand.
Drop ==
    /\ live /\ saving = "no" /\ kept.valid
    /\ live' = FALSE
    /\ UNCHANGED <<state, fed, saving, arrays, manifest, kept, mixed, saves, reloads>>

\* reload_request makes a RequestState that has generated nothing, and so may generate
\* max_new_tokens more; load_kv_cache_npz raises where a layer of the manifest is not in the file.
Reload ==
    /\ ~live /\ reloads < MaxReloads
    /\ manifest.kv \cup manifest.latent \subseteq DOMAIN arrays
    /\ LET cache == [l \in Layers |->
                       IF l \in manifest.kv \cup manifest.latent THEN arrays[l] ELSE <<>>]
       IN  state' = [prefilled |-> kept.prefilled, generated |-> 0, finished |-> FALSE,
                     cache |-> cache, logits |-> kept.logits]
    /\ fed' = kept.fed
    /\ live' = TRUE /\ reloads' = reloads + 1
    /\ mixed' = IF mixed = "files" THEN "state" ELSE mixed
    /\ UNCHANGED <<saving, arrays, manifest, kept, saves>>

Next ==
    \/ Prefill \/ Decode \/ Offload \/ WriteArrays \/ WriteManifest \/ SaveFails \/ Drop \/ Reload

Spec == Init /\ [][Next]_vars

----------------------------------------------------------------------------

\* Before an offload and after a reload alike, a token is sampled from logits over the
\* whole text so far, and every layer, latent or not, has a row for each of its tokens:
\* unless a save at the same path had failed between its files, when the new arrays pass
\* under the old manifest beside the old prefilled and last_logits (engine.py:498-536;
\* kv_offload.py:32-125).
ResumesWhole ==
    live /\ mixed # "state" /\ state.prefilled = PromptLen /\ ~state.finished =>
        LET text == UpTo(PromptLen + fed)
        IN  state.logits = text /\ \A l \in Layers : state.cache[l] = text
============================================================================
