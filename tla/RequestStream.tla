--------------------------- MODULE RequestStream ---------------------------
(***************************************************************************)
(* What the clients of the server are promised about their requests: each  *)
(* is a stream of tokens that only grows, within the budget of the request *)
(* and with nothing after end-of-sequence, and that closes once --         *)
(* complete, unless the client hung up -- or fails.  Streams are           *)
(* independent: in one step any number of them may move.                   *)
(***************************************************************************)
EXTENDS Naturals, Sequences

CONSTANTS Request, Token, Eos, MaxNew, StopsAtEos

VARIABLES
    phase,      \* "idle", "open", "closed" or "failed"
    sent,       \* all tokens sent so far, taken or not
    taken,      \* how many of them the client has taken
    hungUp      \* whether the client has asked for the stream to end

streamVars == <<phase, sent, taken, hungUp>>

StreamInit ==
    /\ phase = [r \in Request |-> "idle"]
    /\ sent = [r \in Request |-> <<>>]
    /\ taken = [r \in Request |-> 0]
    /\ hungUp = [r \in Request |-> FALSE]

AtEos(r, s) == r \in StopsAtEos /\ s # <<>> /\ s[Len(s)] = Eos

Complete(r, s) == Len(s) = MaxNew[r] \/ AtEos(r, s)

Open(r) ==
    /\ phase[r] = "idle"
    /\ phase'[r] = "open"
    /\ UNCHANGED <<sent[r], taken[r], hungUp[r]>>

\* Some tokens more, none of them past the budget or after end-of-sequence; the
\* last ones may close the stream.
Send(r) ==
    /\ phase[r] = "open"
    /\ Len(sent[r]) <= Len(sent'[r]) /\ Len(sent'[r]) <= MaxNew[r]
    /\ SubSeq(sent'[r], 1, Len(sent[r])) = sent[r]
    /\ \A i \in 1 .. Len(sent'[r]) - 1 : ~AtEos(r, SubSeq(sent'[r], 1, i))
    /\ phase'[r] \in {"open", "closed"}
    /\ phase'[r] = "closed" => Complete(r, sent'[r]) \/ hungUp[r]
    /\ UNCHANGED <<taken[r], hungUp[r]>>

Fail(r) ==
    /\ phase[r] = "open"
    /\ phase'[r] = "failed"
    /\ UNCHANGED <<sent[r], taken[r], hungUp[r]>>

Take(r) ==
    /\ taken[r] < Len(sent[r])
    /\ taken'[r] = taken[r] + 1
    /\ UNCHANGED <<phase[r], sent[r], hungUp[r]>>

HangUp(r) ==
    /\ phase[r] # "idle"
    /\ hungUp'[r]
    /\ UNCHANGED <<phase[r], sent[r], taken[r]>>

Rest(r) == UNCHANGED <<phase[r], sent[r], taken[r], hungUp[r]>>

StreamNext ==
    \A r \in Request : Open(r) \/ Send(r) \/ Fail(r) \/ Take(r) \/ HangUp(r) \/ Rest(r)

StreamSpec == StreamInit /\ [][StreamNext]_streamVars

============================================================================
