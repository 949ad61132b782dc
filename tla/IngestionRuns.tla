---------------------------- MODULE IngestionRuns ----------------------------
(***************************************************************************)
(* What the analysis stages may rely on of ingestion_runs and of the view  *)
(* token_data_readiness: a run has an id greater than all before it, gains *)
(* candidates while it is open and never after, and is closed for good.    *)
(***************************************************************************)
EXTENDS Integers

CONSTANTS Tokens, MaxRuns

VARIABLES
    latest,     \* MAX(id) FROM ingestion_runs
    open,       \* the runs that are 'running'
    ready       \* ready[r]: the tokens that the stages may take up

vars == <<latest, open, ready>>

Init ==
    /\ latest = 0
    /\ open = {}
    /\ ready = [r \in 1..MaxRuns |-> {}]

Opens ==
    /\ latest' = latest + 1
    /\ latest' =< MaxRuns
    /\ open' = open \cup {latest'}
    /\ UNCHANGED ready

Gains(r, t) ==
    /\ r \in open
    /\ ready' = [ready EXCEPT ![r] = @ \cup {t}]
    /\ UNCHANGED <<latest, open>>

Closes(r) ==
    /\ open' = open \ {r}
    /\ UNCHANGED <<latest, ready>>

Next ==
    \/ Opens
    \/ \E r \in open : Closes(r) \/ \E t \in Tokens : Gains(r, t)

Spec == Init /\ [][Next]_vars
=============================================================================
