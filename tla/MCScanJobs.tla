----------------------------- MODULE MCScanJobs -----------------------------
(***************************************************************************)
(* Small instances of ScanJobs for TLC.                                    *)
(***************************************************************************)
EXTENDS ScanJobs, TLC

\* Two stages keep "a stage that is not the last" and "the last stage" apart.
TwoStages == << "market_filter", "watchlist_decision" >>

\* Task slots and handlers are interchangeable; so are tokens.
Symmetry == Permutations(Tasks) \union Permutations(Handlers)
                \union Permutations(Tokens)
=============================================================================
