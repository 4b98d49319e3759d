---------------------------- MODULE DurableQueue ----------------------------
(***************************************************************************)
(* What the write path of one live session promises its producers, without *)
(* timers, batches or retries.  Events are accepted in order; what is      *)
(* stored is always a prefix of what was accepted and only grows; a flush  *)
(* that resolves finds everything accepted so far stored; a flush that     *)
(* rejects changes nothing.                                                *)
(***************************************************************************)
EXTENDS Naturals, Sequences

VARIABLES
    accepted,   \* the events the producer handed over, in order
    stored,     \* the events the backend holds durably
    flushing    \* whether a flush barrier is open

dqVars == <<accepted, stored, flushing>>

DQInit ==
    /\ accepted = <<>>
    /\ stored = <<>>
    /\ flushing = FALSE

Accept ==
    /\ accepted' = Append(accepted, Len(accepted) + 1)
    /\ UNCHANGED <<stored, flushing>>

\* One backend write stores a further, contiguous part of what was accepted.
Store ==
    /\ \E n \in Len(stored)..Len(accepted) : stored' = SubSeq(accepted, 1, n)
    /\ UNCHANGED <<accepted, flushing>>

OpenFlush ==
    /\ ~flushing
    /\ flushing' = TRUE
    /\ UNCHANGED <<accepted, stored>>

ResolveFlush ==
    /\ flushing
    /\ stored = accepted
    /\ flushing' = FALSE
    /\ UNCHANGED <<accepted, stored>>

RejectFlush ==
    /\ flushing
    /\ flushing' = FALSE
    /\ UNCHANGED <<accepted, stored>>

DQNext == Accept \/ Store \/ OpenFlush \/ ResolveFlush \/ RejectFlush

DQSpec == DQInit /\ [][DQNext]_dqVars
=============================================================================
