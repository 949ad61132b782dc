---------------------------- MODULE AnalysisLease ----------------------------
(***************************************************************************)
(* What the coordinator promises, without job rows, requests or stages by  *)
(* name: analyses take turns under one lease, progress under a lease only  *)
(* grows, and only the holder gives the lease back.  A holder may also be  *)
(* lost with the lease still taken; then only a restart frees it.          *)
(***************************************************************************)
EXTENDS Integers

CONSTANTS Workers, MaxProgress

VARIABLES
    holders,     \* workers inside an analysis
    busy,        \* the lease is taken
    progress     \* how far the analysis under the lease has come

vars == <<holders, busy, progress>>

Init == holders = {} /\ busy = FALSE /\ progress = 0

\* An analysis starts waiting for its worker (0) or in its ingestion (1).
Claim(w) ==
    /\ ~busy
    /\ holders' = {w}
    /\ busy' = TRUE
    /\ progress' \in {0, 1}

Advance(w) ==
    /\ w \in holders
    /\ progress < MaxProgress
    /\ progress' = progress + 1
    /\ UNCHANGED <<holders, busy>>

Release(w) ==
    /\ holders = {w}
    /\ holders' = {}
    /\ busy' = FALSE
    /\ progress' = 0

Lose(w) ==
    /\ holders = {w}
    /\ holders' = {}
    /\ UNCHANGED <<busy, progress>>

Restart == holders' = {} /\ busy' = FALSE /\ progress' = 0

Next ==
    \/ \E w \in Workers : Claim(w) \/ Advance(w) \/ Release(w) \/ Lose(w)
    \/ Restart

Spec == Init /\ [][Next]_vars
=============================================================================
