------------------------- MODULE ServingRefinement -------------------------
(***************************************************************************)
(* Every request of BatchingServer implements RequestStream.               *)
(***************************************************************************)
EXTENDS BatchingServer

\* The tokens waiting in the queue of r, without the end marker.
Waiting(r) ==
    IF tokens[r] # <<>> /\ tokens[r][Len(tokens[r])] = End
    THEN SubSeq(tokens[r], 1, Len(tokens[r]) - 1)
    ELSE tokens[r]

Phase(r) ==
    IF handler[r] \in {"new", "refused", "put"} THEN "idle"
    ELSE IF r \notin done THEN "open"
    ELSE IF r \in failed THEN "failed"
    ELSE "closed"

Stream ==
    INSTANCE RequestStream WITH
        phase <- [r \in Request |-> Phase(r)],
        sent <- [r \in Request |-> received[r] \o Waiting(r)],
        taken <- [r \in Request |-> Len(received[r])],
        hungUp <- [r \in Request |-> r \in flagged]

\* Hazard: across chunked prefill, shared cohorts, cancels and shutdown, a client
\* sees a token that is later taken back, more tokens than it asked for, a stream
\* that ends early without an error, or one that ends twice.
StreamsKeepPromise == Stream!StreamSpec

============================================================================
