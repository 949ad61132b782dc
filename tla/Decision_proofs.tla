------------------------ MODULE Decision_proofs ------------------------
(***************************************************************************)
(* Proofs about the decision to watch a token.  The first part is about the*)
(* pipeline, for every set of tokens, any number of runs and passes, and   *)
(* everything the stages may find (AnalysisPipeline); the second about the *)
(* classifiers and the table of decisions, for all evidence and every row  *)
(* of verdicts (TokenEvidence, EvidenceTable).                             *)
(***************************************************************************)
EXTENDS AnalysisPipeline, EvidenceTable, FoldFacts, FiniteSetTheorems, TLAPS

(***************************************************************************)
(* Facts about single definitions.                                         *)
(***************************************************************************)
\* The position of a stage tells its name, and every stage but the last one
\* fills a layer.
LEMMA StageNames ==
    ASSUME NEW n \in 1..10
    PROVE  /\ n < 10 => Stages[n] \in Layers
           /\ Stages[n] = "market" <=> n = 1
           /\ Stages[n] = "contract" <=> n = 2
           /\ Stages[n] = "liquidity" <=> n = 3
           /\ Stages[n] = "wallet" <=> n = 4
           /\ Stages[n] = "cluster" <=> n = 5
           /\ Stages[n] = "intelligence" <=> n = 6
           /\ Stages[n] = "manipulation" <=> n = 7
           /\ Stages[n] = "dev_audit" <=> n = 8
           /\ Stages[n] = "dev_flow" <=> n = 9
           /\ Stages[n] = "decision" <=> n = 10
  <1>1. n \in {1, 2, 3, 4, 5, 6, 7, 8, 9, 10}  OBVIOUS
  <1>. QED  BY <1>1 DEF Stages, Layers

\* A decision is one of the outcomes.
LEMMA OutcomeType ==
    ASSUME NEW r
    PROVE  classify_watchlist_decision(r) \in Outcomes
  BY DEF classify_watchlist_decision, Gate, DevAndIntelligence, FinalPass,
         Outcomes

\* A token passes only if the market filter let it through and each layer
\* that must answer has answered without danger.
LEMMA PassNeedsAnswers ==
    ASSUME NEW r, Passes(classify_watchlist_decision(r))
    PROVE  /\ r["market"] # "danger"
           /\ \A l \in SafetyLayers : PassFlag(r[l])
  BY DEF classify_watchlist_decision, Gate, DevAndIntelligence, FinalPass,
         Passes, PassOutcomes, SafetyLayers

\* An upsert changes one cell, and to what its stage may write.
LEMMA SavedRow ==
    ASSUME RowsOK,
           NEW i \in Items, NEW l \in Layers, NEW v \in Findings(l),
           SaveRow(i, l, v)
    PROVE  /\ RowsOK'
           /\ \A r \in Runs, t \in Tokens, k \in Layers :
                 row'[r][t][k] = IF r = i.run /\ t = i.token /\ k = l
                                 THEN v ELSE row[r][t][k]
  <1>1. i.run \in Runs /\ i.token \in Tokens  BY DEF Items
  <1>2. v \in Verdicts  BY DEF Findings, Verdicts
  <1>3. row' \in [Runs -> [Tokens -> [Layers -> Verdicts]]]
    BY <1>1, <1>2 DEF SaveRow, RowsOK
  <1>4. \A r \in Runs, t \in Tokens, k \in Layers :
           row'[r][t][k] = IF r = i.run /\ t = i.token /\ k = l
                           THEN v ELSE row[r][t][k]
    BY <1>1 DEF SaveRow, RowsOK
  <1>5. \A r \in Runs, t \in Tokens, k \in Layers :
           row'[r][t][k] \in Findings(k) \cup {"none"}
    BY <1>4 DEF RowsOK
  <1>. QED  BY <1>3, <1>4, <1>5 DEF RowsOK

-----------------------------------------------------------------------------
(***************************************************************************)
(* Types.                                                                  *)
(***************************************************************************)
LEMMA ItemTypes ==
    ASSUME TypeOK, NEW r \in Runs, NEW t \in Tokens
    PROVE  /\ Item(r, t) \in Items
           /\ DecisionItem(r, t) \in Items
  <1>1. row[r][t]["intelligence"] \in Labels
    BY DEF TypeOK, RowsOK, Labels, Layers
  <1>. QED  BY <1>1, OutcomeType DEF Item, DecisionItem, Items, Labels

LEMMA TypeInit == Init => TypeOK
  <1>. SUFFICES ASSUME Init PROVE TypeOK  OBVIOUS
  <1>1. NoRow \in [Layers -> Verdicts]  BY DEF NoRow, Verdicts
  <1>2. RowsOK  BY <1>1 DEF Init, RowsOK, NoRow
  <1>3. PipesOK
    BY MaxRunsAssumption DEF Init, PipesOK, Pipes, IdlePipe, Pipe, Procs
  <1>. QED  BY <1>2, <1>3, MaxRunsAssumption, MaxCliPassesAssumption
            DEF Init, TypeOK, Labels, Runs

\* A step that gives process p the pipe q keeps PipesOK.
LEMMA PipeStep ==
    ASSUME PipesOK, latest \in 0..MaxRuns, MaxRuns \in Nat,
           latest' \in latest..MaxRuns,
           NEW p \in Procs, NEW q \in Pipes,
           pipes' = [pipes EXCEPT ![p] = q],
           q.pc \in {"read", "save"} => q.at \in 1..10 /\ q.until \in q.at..10,
           p = "server" /\ q.pc # "idle" => q.run \in 1..latest',
           p = "cli" => q.pc # "ingest"
    PROVE  PipesOK'
  BY DEF PipesOK, Procs, Pipes

\* What a process has read is well typed, and it may go on to save it.
LEMMA ReadStep ==
    ASSUME TypeOK, NEW p \in Procs, pipes[p].pc = "read",
           NEW items \in SUBSET Items, Has(p, items), UNCHANGED latest
    PROVE  PipesOK'
  <1>. DEFINE q == Pipe("save", pipes[p].at, pipes[p].until, pipes[p].run, items)
  <1>1. /\ PipesOK /\ latest \in 0..MaxRuns
        /\ pipes[p] \in Pipes /\ pipes[p].at \in 1..10
        /\ pipes[p].until \in pipes[p].at..10
    BY DEF TypeOK, PipesOK
  <1>2. q \in Pipes /\ q.pc = "save" /\ q.at = pipes[p].at
        /\ q.until = pipes[p].until /\ q.run = pipes[p].run
    BY <1>1 DEF Pipes, Pipe
  <1>3. pipes' = [pipes EXCEPT ![p] = q]  BY DEF Has
  <1>4. p = "server" => q.run \in 1..latest'
    BY <1>1, <1>2 DEF PipesOK
  <1>5. latest' \in latest..MaxRuns  BY <1>1, MaxRunsAssumption
  <1>. HIDE DEF q
  <1>. QED  BY <1>1, <1>2, <1>3, <1>4, <1>5, MaxRunsAssumption, PipeStep

\* A process that is left with part of its items, or with marked ones.
LEMMA TodoStep ==
    ASSUME TypeOK, NEW p \in Procs, pipes[p].pc = "save",
           NEW items \in SUBSET Items,
           pipes' = [pipes EXCEPT ![p].todo = items], UNCHANGED latest
    PROVE  PipesOK'
  <1>. DEFINE q == [pipes[p] EXCEPT !.todo = items]
  <1>1. /\ PipesOK /\ latest \in 0..MaxRuns
        /\ pipes[p] \in Pipes /\ pipes[p].at \in 1..10
        /\ pipes[p].until \in pipes[p].at..10
    BY DEF TypeOK, PipesOK
  <1>2. q \in Pipes /\ q.pc = "save" /\ q.at = pipes[p].at
        /\ q.until = pipes[p].until /\ q.run = pipes[p].run
    BY <1>1 DEF Pipes
  <1>3. pipes' = [pipes EXCEPT ![p] = q]  OBVIOUS
  <1>4. p = "server" => q.run \in 1..latest'
    BY <1>1, <1>2 DEF PipesOK
  <1>5. latest' \in latest..MaxRuns  BY <1>1, MaxRunsAssumption
  <1>. HIDE DEF q
  <1>. QED  BY <1>1, <1>2, <1>3, <1>4, <1>5, MaxRunsAssumption, PipeStep

\* A process that gives up, or is through, is idle.
LEMMA IdleStep ==
    ASSUME TypeOK, NEW p \in Procs, pipes' = [pipes EXCEPT ![p] = IdlePipe],
           UNCHANGED latest
    PROVE  PipesOK'
  <1>1. IdlePipe \in Pipes /\ IdlePipe.pc = "idle"
    BY MaxRunsAssumption DEF IdlePipe, Pipe, Pipes
  <1>2. PipesOK /\ latest \in 0..MaxRuns /\ latest' \in latest..MaxRuns
    BY MaxRunsAssumption DEF TypeOK
  <1>. HIDE DEF IdlePipe
  <1>. QED  BY <1>1, <1>2, MaxRunsAssumption, PipeStep

LEMMA TypeStep == TypeOK /\ [Next]_vars => TypeOK'
  <1>. SUFFICES ASSUME TypeOK, [Next]_vars PROVE TypeOK'  OBVIOUS
  <1>. USE MaxRunsAssumption, MaxCliPassesAssumption
  <1>1. CASE ServerIngests
    <2>. DEFINE q == Pipe("ingest", 0, 0, latest + 1, {})
    <2>1. q \in Pipes /\ q.pc = "ingest" /\ q.run = latest + 1
      BY <1>1 DEF ServerIngests, Pipes, Pipe, TypeOK
    <2>2. /\ latest' = latest + 1 /\ latest' \in latest..MaxRuns
          /\ q.run \in 1..latest'
      BY <1>1, <2>1 DEF ServerIngests, TypeOK
    <2>3. pipes' = [pipes EXCEPT !["server"] = q]
      BY <1>1 DEF ServerIngests
    <2>4. PipesOK'
      <3>. HIDE DEF q
      <3>. QED  BY <2>1, <2>2, <2>3, PipeStep DEF TypeOK, Procs
    <2>. QED  BY <1>1, <2>2, <2>4 DEF ServerIngests, TypeOK, RowsOK
  <1>2. CASE IngestionEnds
    <2>. DEFINE q == Pipe("read", 1, 10, pipes["server"].run, {})
    <2>1. /\ PipesOK /\ pipes["server"] \in Pipes
          /\ pipes["server"].run \in 1..latest
          /\ latest \in 0..MaxRuns
      BY <1>2 DEF IngestionEnds, TypeOK, PipesOK, Procs
    <2>2. q \in Pipes /\ q.pc = "read" /\ q.at = 1 /\ q.until = 10
          /\ q.run = pipes["server"].run
      BY <2>1 DEF Pipes, Pipe
    <2>3. pipes' = [pipes EXCEPT !["server"] = q]
      BY <1>2 DEF IngestionEnds
    <2>4. PipesOK'
      <3>1. latest' = latest /\ latest' \in latest..MaxRuns /\ 10 \in 1..10
            /\ 1 \in 1..10 /\ "server" \in Procs /\ "server" # "cli"
        BY <1>2, <2>1 DEF IngestionEnds, Procs
      <3>. HIDE DEF q
      <3>. QED  BY <2>1, <2>2, <2>3, <3>1, PipeStep
    <2>5. ready' \in [Runs -> SUBSET Tokens]
      BY <1>2 DEF IngestionEnds, TypeOK
    <2>. QED  BY <1>2, <2>4, <2>5 DEF IngestionEnds, TypeOK, RowsOK
  <1>3. CASE CliIngests
    <2>1. PipesOK'
      BY <1>3 DEF CliIngests, TypeOK, PipesOK, Procs
    <2>. QED  BY <1>3, <2>1 DEF CliIngests, TypeOK, RowsOK, Runs
  <1>4. CASE CliStarts
    <2>1. PICK first \in 1..10, last \in 1..10 :
             /\ last = first \/ (first = 1 /\ last = 10)
             /\ pipes' = [pipes EXCEPT !["cli"] =
                   Pipe("read", first, last, 0, {})]
      BY <1>4 DEF CliStarts
    <2>. DEFINE q == Pipe("read", first, last, 0, {})
    <2>2. q \in Pipes /\ q.pc = "read" /\ q.at \in 1..10
          /\ q.until \in q.at..10
      BY <2>1 DEF Pipes, Pipe
    <2>3. latest' = latest /\ latest \in 0..MaxRuns /\ PipesOK
          /\ latest' \in latest..MaxRuns
      BY <1>4 DEF CliStarts, TypeOK
    <2>4. pipes' = [pipes EXCEPT !["cli"] = q]  BY <2>1
    <2>5. PipesOK'
      <3>1. "cli" \in Procs /\ "cli" # "server"  BY DEF Procs
      <3>. HIDE DEF q
      <3>. QED  BY <2>2, <2>3, <2>4, <3>1, PipeStep
    <2>. QED  BY <1>4, <2>5 DEF CliStarts, TypeOK, RowsOK
  <1>5. ASSUME NEW p \in Procs, StageReads(p) PROVE TypeOK'
    <2>1. pipes[p].pc = "read" /\ latest' = latest /\ PipesOK
      BY <1>5 DEF StageReads, TypeOK
    <2>2. PICK items \in SUBSET Items : Has(p, items)
      <3>1. CASE Stage(p) = "decision" /\ Has(p, DecisionItems(p))
        <4>1. DecidedRuns(p) \subseteq Runs
          BY <2>1 DEF DecidedRuns, PipesOK, TypeOK, Runs
        <4>2. DecisionItems(p) \in SUBSET Items
          BY <4>1, ItemTypes DEF DecisionItems
        <4>. QED  BY <3>1, <4>2
      <3>2. CASE Has(p, {})
        BY <3>2
      <3>3. ASSUME NEW r \in RunsOf(p), NEW S \in Inputs(Stage(p), r),
                   Stage(p) # "decision", Has(p, {Item(r, t) : t \in S})
            PROVE  \E items \in SUBSET Items : Has(p, items)
        <4>1. r \in Runs
          BY <2>1 DEF RunsOf, PipesOK, TypeOK, Runs, Pipes
        <4>2. pipes[p].at \in 1..10  BY <2>1 DEF PipesOK
        <4>3. Stage(p) \in Layers
          BY <3>3, <4>2, StageNames DEF Stage
        <4>4. S \subseteq Tokens
          BY <3>3, <4>1, <4>3 DEF Inputs, TypeOK, Layers
        <4>5. {Item(r, t) : t \in S} \in SUBSET Items
          BY <4>1, <4>4, ItemTypes
        <4>. QED  BY <3>3, <4>5
      <3>. QED  BY <1>5, <3>1, <3>2, <3>3 DEF StageReads
    <2>3. PipesOK'  BY <2>1, <2>2, ReadStep
    <2>. QED  BY <1>5, <2>3 DEF StageReads, TypeOK, RowsOK
  <1>6. ASSUME NEW p \in Procs, StageSaves(p) PROVE TypeOK'
    <2>1. /\ pipes[p].pc = "save" /\ latest' = latest /\ PipesOK
          /\ pipes[p].at \in 1..10 /\ pipes[p].todo \subseteq Items
      BY <1>6 DEF StageSaves, TypeOK, PipesOK, Pipes
    <2>2. Stage(p) \in Layers
      BY <1>6, <2>1, StageNames DEF StageSaves, Stage
    <2>3. PICK i \in pipes[p].todo, v \in Possible[Stage(p)] :
             /\ SaveRow(i, Stage(p), v)
             /\ \/ pipes' = [pipes EXCEPT ![p].todo = @ \ {i}]
                \/ /\ Stage(p) = "intelligence"
                   /\ pipes' = [pipes EXCEPT ![p].todo =
                         (@ \ {i}) \cup {[i EXCEPT !.labels = v]}]
      BY <1>6 DEF StageSaves
    <2>4. v \in Findings(Stage(p)) /\ i \in Items
      BY <2>1, <2>2, <2>3, PossibleAssumption
    <2>5. RowsOK'  BY <2>2, <2>3, <2>4, SavedRow DEF TypeOK
    <2>6. CASE pipes' = [pipes EXCEPT ![p].todo = @ \ {i}]
      <3>. DEFINE items == pipes[p].todo \ {i}
      <3>1. items \in SUBSET Items /\ pipes' = [pipes EXCEPT ![p].todo = items]
        BY <2>1, <2>6
      <3>2. PipesOK'
        <4>. HIDE DEF items
        <4>. QED  BY <2>1, <3>1, TodoStep
      <3>. QED  BY <1>6, <2>5, <3>2 DEF StageSaves, TypeOK
    <2>7. CASE /\ Stage(p) = "intelligence"
               /\ pipes' = [pipes EXCEPT ![p].todo =
                     (@ \ {i}) \cup {[i EXCEPT !.labels = v]}]
      <3>. DEFINE items == (pipes[p].todo \ {i}) \cup {[i EXCEPT !.labels = v]}
      <3>1. [i EXCEPT !.labels = v] \in Items
        BY <2>4, <2>7 DEF Items, Labels
      <3>2. items \in SUBSET Items /\ pipes' = [pipes EXCEPT ![p].todo = items]
        BY <2>1, <2>7, <3>1
      <3>3. PipesOK'
        <4>. HIDE DEF items
        <4>. QED  BY <2>1, <3>2, TodoStep
      <3>. QED  BY <1>6, <2>5, <3>3 DEF StageSaves, TypeOK
    <2>. QED  BY <2>3, <2>6, <2>7
  <1>7. ASSUME NEW p \in Procs, DecisionSaves(p) PROVE TypeOK'
    <2>1. /\ pipes[p].pc = "save" /\ latest' = latest /\ PipesOK
          /\ pipes[p].todo \subseteq Items
      BY <1>7 DEF DecisionSaves, TypeOK, PipesOK, Pipes
    <2>2. PICK i \in pipes[p].todo :
             /\ decision' = [decision EXCEPT ![i.run] =
                    [decision[i.run] EXCEPT ![i.token] = i.outcome]]
             /\ summary' = [summary EXCEPT ![i.run] =
                    [summary[i.run] EXCEPT ![i.token] = i.labels]]
             /\ pipes' = [pipes EXCEPT ![p].todo = @ \ {i}]
      BY <1>7 DEF DecisionSaves
    <2>3. /\ i.run \in Runs /\ i.token \in Tokens
          /\ i.outcome \in Outcomes \cup {"none"} /\ i.labels \in Labels
      BY <2>1, <2>2 DEF Items
    <2>4. decision' \in [Runs -> [Tokens -> Outcomes \cup {"none"}]]
      BY <2>2, <2>3 DEF TypeOK
    <2>5. summary' \in [Runs -> [Tokens -> Labels]]
      BY <2>2, <2>3 DEF TypeOK
    <2>6. PipesOK'
      <3>. DEFINE items == pipes[p].todo \ {i}
      <3>1. items \in SUBSET Items /\ pipes' = [pipes EXCEPT ![p].todo = items]
        BY <2>1, <2>2
      <3>. HIDE DEF items
      <3>. QED  BY <2>1, <3>1, TodoStep
    <2>. QED  BY <1>7, <2>4, <2>5, <2>6 DEF DecisionSaves, TypeOK, RowsOK
  <1>8. ASSUME NEW p \in Procs, StageEnds(p) PROVE TypeOK'
    <2>1. /\ pipes[p].pc = "save" /\ latest' = latest /\ PipesOK
          /\ pipes[p] \in Pipes /\ pipes[p].at \in 1..10
          /\ pipes[p].until \in pipes[p].at..10
      BY <1>8 DEF StageEnds, TypeOK, PipesOK
    <2>2. summary' \in [Runs -> [Tokens -> Labels]]
      <3>1. RewrittenSummaries \in [Runs -> [Tokens -> Labels]]
        BY DEF RewrittenSummaries, TypeOK, RowsOK, Labels, Layers
      <3>. QED  BY <1>8, <3>1 DEF StageEnds, TypeOK
    <2>3. PipesOK'
      <3>1. CASE pipes' = [pipes EXCEPT ![p] = IdlePipe]
        BY <2>1, <3>1, IdleStep
      <3>2. CASE /\ pipes[p].at # pipes[p].until
                 /\ pipes' = [pipes EXCEPT ![p] =
                       Pipe("read", pipes[p].at + 1, pipes[p].until,
                            pipes[p].run, {})]
        <4>. DEFINE q == Pipe("read", pipes[p].at + 1, pipes[p].until,
                              pipes[p].run, {})
        <4>1. pipes' = [pipes EXCEPT ![p] = q]  BY <3>2
        <4>2. pipes[p].at + 1 \in 1..10 /\ pipes[p].at + 1 \in 0..10
          BY <2>1, <3>2
        <4>3. q \in Pipes /\ q.pc = "read" /\ q.at = pipes[p].at + 1
              /\ q.until = pipes[p].until /\ q.run = pipes[p].run
          BY <2>1, <4>2 DEF Pipes, Pipe
        <4>4. q.until \in q.at..10  BY <2>1, <3>2, <4>3
        <4>5. p = "server" => q.run \in 1..latest'
          BY <2>1, <4>3 DEF PipesOK
        <4>6. latest' \in latest..MaxRuns /\ latest \in 0..MaxRuns
          BY <2>1 DEF TypeOK
        <4>. HIDE DEF q
        <4>. QED  BY <2>1, <4>1, <4>2, <4>3, <4>4, <4>5, <4>6, PipeStep
      <3>. QED  BY <1>8, <3>1, <3>2 DEF StageEnds
    <2>. QED  BY <1>8, <2>2, <2>3 DEF StageEnds, TypeOK, RowsOK
  <1>9. ASSUME NEW p \in Procs, UpstreamRecorded(p) PROVE TypeOK'
    <2>1. /\ pipes[p].pc = "save" /\ latest' = latest /\ PipesOK
          /\ pipes[p].todo \subseteq Items
          /\ Stage(p) \in {"cluster", "manipulation"}
      BY <1>9 DEF UpstreamRecorded, TypeOK, PipesOK, Pipes
    <2>2. PICK i \in pipes[p].todo :
             /\ SaveRow(i, Stage(p), "unknown")
             /\ pipes' = [pipes EXCEPT ![p].todo = @ \ {i}]
      BY <1>9 DEF UpstreamRecorded
    <2>3. "unknown" \in Findings(Stage(p)) /\ i \in Items /\ Stage(p) \in Layers
      BY <2>1, <2>2 DEF Findings, Layers
    <2>4. RowsOK'  BY <2>2, <2>3, SavedRow DEF TypeOK
    <2>5. PipesOK'
      <3>. DEFINE items == pipes[p].todo \ {i}
      <3>1. items \in SUBSET Items /\ pipes' = [pipes EXCEPT ![p].todo = items]
        BY <2>1, <2>2
      <3>. HIDE DEF items
      <3>. QED  BY <2>1, <3>1, TodoStep
    <2>. QED  BY <1>9, <2>4, <2>5 DEF UpstreamRecorded, TypeOK
  <1>10. ASSUME NEW p \in Procs, UpstreamAborts(p) PROVE TypeOK'
    BY <1>10, IdleStep DEF UpstreamAborts, TypeOK, RowsOK
  <1>11. ASSUME NEW p \in Procs, Stops(p) PROVE TypeOK'
    BY <1>11, IdleStep DEF Stops, TypeOK, RowsOK
  <1>12. CASE UNCHANGED vars
    BY <1>12 DEF vars, TypeOK, RowsOK, PipesOK
  <1>. QED  BY <1>1, <1>2, <1>3, <1>4, <1>5, <1>6, <1>7, <1>8, <1>9, <1>10,
               <1>11, <1>12 DEF Next

\* The tables and the two processes are always in a state the model names,
\* and no layer holds what its stage cannot write.
THEOREM TypeCorrect == Spec => []TypeOK
  BY TypeInit, TypeStep, PTL DEF Spec
-----------------------------------------------------------------------------
(***************************************************************************)
(* Which layers have answered for a token that passes.  A row is never     *)
(* taken away, so an answer that a decision has seen is there still when   *)
(* the decision is saved, late as that may be.  L is any set of layers.    *)
(***************************************************************************)
Answered(r, t, L) == \A l \in L : row[r][t][l] # "none"

ItemsAnswered(L) ==
    \A p \in Procs : \A i \in pipes[p].todo :
        Passes(i.outcome) => Answered(i.run, i.token, L)

DecisionsAnswered(L) ==
    \A r \in Runs, t \in Tokens :
        Passes(decision[r][t]) => Answered(r, t, L)

AnsweredInv(L) == TypeOK /\ ItemsAnswered(L) /\ DecisionsAnswered(L)

\* Read now, a decision passes with the answers of L only.
ReadsAnswered(L) ==
    \A p \in Procs :
        pipes[p].pc = "read" /\ Stage(p) = "decision" =>
            \A i \in DecisionItems(p) :
                Passes(i.outcome) => Answered(i.run, i.token, L)

LEMMA NoneIsNoPass == ~Passes("none")
  BY DEF Passes, PassOutcomes

\* An upsert leaves the answers that were there.
LEMMA AnswersStay ==
    ASSUME NEW L \in SUBSET Layers, RowsOK, NEW i \in Items, NEW l \in Layers, NEW v \in Findings(l),
           SaveRow(i, l, v), NEW r \in Runs, NEW t \in Tokens
    PROVE  /\ Answered(r, t, L) => Answered(r, t, L)'
           /\ \A k \in Layers : row[r][t][k] # "none" => row'[r][t][k] # "none"
  <1>1. v # "none"  BY DEF Findings
  <1>2. \A k \in Layers : row[r][t][k] # "none" => row'[r][t][k] # "none"
    BY <1>1, SavedRow
  <1>. QED  BY <1>2 DEF Answered

\* Items of one process change, the tables do not lose an answer.
LEMMA ItemsStep ==
    ASSUME NEW L \in SUBSET Layers, TypeOK, ItemsAnswered(L), NEW p \in Procs, NEW q,
           pipes' = [pipes EXCEPT ![p] = q],
           \A i \in q.todo : Passes(i.outcome) => Answered(i.run, i.token, L)',
           \A r \in Runs, t \in Tokens : Answered(r, t, L) => Answered(r, t, L)'
    PROVE  ItemsAnswered(L)'
  <1>. SUFFICES ASSUME NEW o \in Procs, NEW i \in pipes'[o].todo,
                       Passes(i.outcome)
                PROVE  Answered(i.run, i.token, L)'
    BY DEF ItemsAnswered
  <1>1. pipes \in [Procs -> Pipes]  BY DEF TypeOK, PipesOK
  <1>2. CASE o = p
    <2>1. pipes'[o] = q  BY <1>1, <1>2
    <2>. QED  BY <2>1
  <1>3. CASE o # p
    <2>1. pipes'[o] = pipes[o]  BY <1>1, <1>3
    <2>2. i.run \in Runs /\ i.token \in Tokens
      BY <1>1, <2>1 DEF Pipes, Items
    <2>3. Answered(i.run, i.token, L)  BY <2>1 DEF ItemsAnswered
    <2>. QED  BY <2>2, <2>3
  <1>. QED  BY <1>2, <1>3

LEMMA AnsweredInit ==
    ASSUME NEW L \in SUBSET Layers, Init
    PROVE  AnsweredInv(L)
  BY NoneIsNoPass, TypeInit
     DEF Init, AnsweredInv, ItemsAnswered, DecisionsAnswered, IdlePipe, Pipe

LEMMA AnsweredStep ==
    ASSUME NEW L \in SUBSET Layers, AnsweredInv(L), ReadsAnswered(L),
           [Next]_vars
    PROVE  AnsweredInv(L)'
  <1>1. TypeOK /\ TypeOK' /\ ItemsAnswered(L)  BY TypeStep DEF AnsweredInv
  <1>2. pipes \in [Procs -> Pipes] /\ RowsOK /\ "server" \in Procs
        /\ "cli" \in Procs
    BY <1>1 DEF TypeOK, PipesOK, Procs
  <1>3. \A p \in Procs : pipes[p].todo \subseteq Items  BY <1>2 DEF Pipes
  <1>4. ASSUME UNCHANGED <<row, decision>> 
        PROVE  /\ DecisionsAnswered(L)'
               /\ \A r, t : Answered(r, t, L)' = Answered(r, t, L)
    BY <1>4 DEF AnsweredInv, DecisionsAnswered, Answered
  <1>5. ASSUME UNCHANGED <<row, decision>>, NEW p \in Procs, NEW q,
               pipes' = [pipes EXCEPT ![p] = q],
               \A i \in q.todo : Passes(i.outcome) => Answered(i.run, i.token, L)
        PROVE  AnsweredInv(L)'
    <2>1. ItemsAnswered(L)'  BY <1>1, <1>4, <1>5, ItemsStep
    <2>. QED  BY <1>1, <1>4, <1>5, <2>1 DEF AnsweredInv
  <1>6. CASE ServerIngests
    <2>. DEFINE q == Pipe("ingest", 0, 0, latest + 1, {})
    <2>1. q.todo = {}  BY DEF Pipe
    <2>2. pipes' = [pipes EXCEPT !["server"] = q] /\ UNCHANGED <<row, decision>>
      BY <1>6 DEF ServerIngests
    <2>. HIDE DEF q
    <2>. QED  BY <1>2, <1>5, <2>1, <2>2
  <1>7. CASE IngestionEnds
    <2>. DEFINE q == Pipe("read", 1, 10, pipes["server"].run, {})
    <2>1. q.todo = {}  BY DEF Pipe
    <2>2. pipes' = [pipes EXCEPT !["server"] = q] /\ UNCHANGED <<row, decision>>
      BY <1>7 DEF IngestionEnds
    <2>. HIDE DEF q
    <2>. QED  BY <1>2, <1>5, <2>1, <2>2
  <1>8. CASE CliIngests
    <2>1. UNCHANGED <<row, decision, pipes>>  BY <1>8 DEF CliIngests
    <2>2. ItemsAnswered(L)'  BY <1>1, <1>4, <2>1 DEF ItemsAnswered
    <2>. QED  BY <1>1, <1>4, <2>1, <2>2 DEF AnsweredInv
  <1>9. CASE CliStarts
    <2>1. PICK first \in 1..10, last \in 1..10 :
             pipes' = [pipes EXCEPT !["cli"] = Pipe("read", first, last, 0, {})]
      BY <1>9 DEF CliStarts
    <2>. DEFINE q == Pipe("read", first, last, 0, {})
    <2>2. q.todo = {}  BY DEF Pipe
    <2>3. pipes' = [pipes EXCEPT !["cli"] = q] /\ UNCHANGED <<row, decision>>
      BY <1>9, <2>1 DEF CliStarts
    <2>. HIDE DEF q
    <2>. QED  BY <1>2, <1>5, <2>2, <2>3
  <1>10. ASSUME NEW p \in Procs, StageReads(p) PROVE AnsweredInv(L)'
    <2>1. PICK items :
             /\ Has(p, items)
             /\ \A i \in items : Passes(i.outcome) => Answered(i.run, i.token, L)
      <3>1. CASE Stage(p) = "decision" /\ Has(p, DecisionItems(p))
        <4>1. pipes[p].pc = "read"  BY <1>10 DEF StageReads
        <4>. QED  BY <3>1, <4>1 DEF ReadsAnswered
      <3>2. CASE Has(p, {})
        BY <3>2
      <3>3. ASSUME NEW r, NEW S, Has(p, {Item(r, t) : t \in S})
            PROVE  \E items :
                     /\ Has(p, items)
                     /\ \A i \in items :
                           Passes(i.outcome) => Answered(i.run, i.token, L)
        <4>1. \A i \in {Item(r, t) : t \in S} : ~Passes(i.outcome)
          BY NoneIsNoPass DEF Item
        <4>. QED  BY <3>3, <4>1
      <3>. QED  BY <1>10, <3>1, <3>2, <3>3 DEF StageReads
    <2>. DEFINE q == Pipe("save", pipes[p].at, pipes[p].until, pipes[p].run, items)
    <2>2. q.todo = items  BY DEF Pipe
    <2>3. pipes' = [pipes EXCEPT ![p] = q] /\ UNCHANGED <<row, decision>>
      BY <1>10, <2>1 DEF StageReads, Has
    <2>. HIDE DEF q
    <2>. QED  BY <1>5, <2>1, <2>2, <2>3
  <1>11. ASSUME NEW p \in Procs, NEW i \in pipes[p].todo, NEW l \in Layers,
                NEW v \in Findings(l), SaveRow(i, l, v), decision' = decision,
                NEW items, pipes' = [pipes EXCEPT ![p].todo = items],
                \A j \in items : Passes(j.outcome) => 
                    \E k \in pipes[p].todo : /\ k.outcome = j.outcome
                                             /\ k.run = j.run
                                             /\ k.token = j.token
         PROVE  AnsweredInv(L)'
    <2>1. i \in Items  BY <1>3
    <2>2. \A r \in Runs, t \in Tokens : Answered(r, t, L) => Answered(r, t, L)'
      BY <1>2, <1>11, <2>1, AnswersStay
    <2>3. DecisionsAnswered(L)'
      <3>1. SUFFICES ASSUME NEW r \in Runs, NEW t \in Tokens,
                            Passes(decision'[r][t])
                     PROVE  Answered(r, t, L)'
        BY DEF DecisionsAnswered, Answered
      <3>2. Answered(r, t, L)
        BY <1>11, <3>1 DEF AnsweredInv, DecisionsAnswered, Answered
      <3>. QED  BY <2>2, <3>2
    <2>. DEFINE q == [pipes[p] EXCEPT !.todo = items]
    <2>4. q.todo = items  BY <1>2 DEF Pipes
    <2>5. pipes' = [pipes EXCEPT ![p] = q]  BY <1>11
    <2>6. \A j \in items : Passes(j.outcome) => Answered(j.run, j.token, L)'
      <3>1. SUFFICES ASSUME NEW j \in items, Passes(j.outcome)
                     PROVE  Answered(j.run, j.token, L)'
        OBVIOUS
      <3>2. PICK k \in pipes[p].todo : /\ k.outcome = j.outcome
                                       /\ k.run = j.run
                                       /\ k.token = j.token
        BY <1>11, <3>1
      <3>3. k.run \in Runs /\ k.token \in Tokens  BY <1>3 DEF Items
      <3>4. Answered(k.run, k.token, L)
        BY <1>1, <3>1, <3>2 DEF ItemsAnswered
      <3>. QED  BY <2>2, <3>2, <3>3, <3>4
    <2>7. ItemsAnswered(L)'
      <3>. HIDE DEF q
      <3>. QED  BY <1>1, <2>2, <2>4, <2>5, <2>6, ItemsStep
    <2>. QED  BY <1>1, <2>3, <2>7 DEF AnsweredInv
  <1>12. ASSUME NEW p \in Procs, StageSaves(p) PROVE AnsweredInv(L)'
    <2>1. pipes[p].at \in 1..10
      BY <1>1, <1>12 DEF StageSaves, TypeOK, PipesOK
    <2>2. Stage(p) \in Layers
      BY <1>12, <2>1, StageNames DEF StageSaves, Stage
    <2>3. PICK i \in pipes[p].todo, v \in Possible[Stage(p)] :
             /\ SaveRow(i, Stage(p), v)
             /\ \/ pipes' = [pipes EXCEPT ![p].todo = @ \ {i}]
                \/ pipes' = [pipes EXCEPT ![p].todo =
                      (@ \ {i}) \cup {[i EXCEPT !.labels = v]}]
      BY <1>12 DEF StageSaves
    <2>4. v \in Findings(Stage(p)) /\ i \in Items /\ decision' = decision
      BY <1>3, <1>12, <2>2, <2>3, PossibleAssumption DEF StageSaves
    <2>5. CASE pipes' = [pipes EXCEPT ![p].todo = @ \ {i}]
      <3>. DEFINE items == pipes[p].todo \ {i}
      <3>1. pipes' = [pipes EXCEPT ![p].todo = items]  BY <2>5
      <3>2. items \subseteq pipes[p].todo  OBVIOUS
      <3>. HIDE DEF items
      <3>. QED  BY <1>11, <2>2, <2>3, <2>4, <3>1, <3>2
    <2>6. CASE pipes' = [pipes EXCEPT ![p].todo =
                   (@ \ {i}) \cup {[i EXCEPT !.labels = v]}]
      <3>. DEFINE j == [i EXCEPT !.labels = v]
                  items == (pipes[p].todo \ {i}) \cup {j}
      <3>1. pipes' = [pipes EXCEPT ![p].todo = items]  BY <2>6
      <3>2. j.outcome = i.outcome /\ j.run = i.run /\ j.token = i.token
        BY <2>4 DEF Items
      <3>3. \A k \in items : k \in pipes[p].todo \/ k = j  OBVIOUS
      <3>. HIDE DEF items, j
      <3>. QED  BY <1>11, <2>2, <2>3, <2>4, <3>1, <3>2, <3>3
    <2>. QED  BY <2>3, <2>5, <2>6
  <1>13. ASSUME NEW p \in Procs, UpstreamRecorded(p) PROVE AnsweredInv(L)'
    <2>1. PICK i \in pipes[p].todo :
             /\ SaveRow(i, Stage(p), "unknown")
             /\ pipes' = [pipes EXCEPT ![p].todo = @ \ {i}]
      BY <1>13 DEF UpstreamRecorded
    <2>2. /\ Stage(p) \in Layers /\ "unknown" \in Findings(Stage(p))
          /\ decision' = decision
      BY <1>13 DEF UpstreamRecorded, Findings, Layers
    <2>. DEFINE items == pipes[p].todo \ {i}
    <2>3. pipes' = [pipes EXCEPT ![p].todo = items]  BY <2>1
    <2>4. items \subseteq pipes[p].todo  OBVIOUS
    <2>. HIDE DEF items
    <2>. QED  BY <1>11, <2>1, <2>2, <2>3, <2>4
  <1>14. ASSUME NEW p \in Procs, DecisionSaves(p) PROVE AnsweredInv(L)'
    <2>1. PICK i \in pipes[p].todo :
             /\ decision' = [decision EXCEPT ![i.run] =
                    [decision[i.run] EXCEPT ![i.token] = i.outcome]]
             /\ pipes' = [pipes EXCEPT ![p].todo = @ \ {i}]
      BY <1>14 DEF DecisionSaves
    <2>2. row' = row /\ i.run \in Runs /\ i.token \in Tokens
      BY <1>3, <1>14 DEF DecisionSaves, Items
    <2>3. \A r, t : Answered(r, t, L)' = Answered(r, t, L)
      BY <2>2 DEF Answered
    <2>4. DecisionsAnswered(L)'
      <3>1. SUFFICES ASSUME NEW r \in Runs, NEW t \in Tokens,
                            Passes(decision'[r][t])
                     PROVE  Answered(r, t, L)'
        BY DEF DecisionsAnswered, Answered
      <3>2. decision'[r][t] = IF r = i.run /\ t = i.token
                              THEN i.outcome ELSE decision[r][t]
        BY <1>1, <2>1, <2>2 DEF TypeOK
      <3>3. CASE r = i.run /\ t = i.token
        BY <1>1, <2>3, <3>1, <3>2, <3>3 DEF ItemsAnswered
      <3>4. CASE ~(r = i.run /\ t = i.token)
        <4>1. Passes(decision[r][t])  BY <3>1, <3>2, <3>4
        <4>2. Answered(r, t, L)
          BY <4>1 DEF AnsweredInv, DecisionsAnswered, Answered
        <4>. QED  BY <2>3, <4>2
      <3>. QED  BY <3>3, <3>4
    <2>. DEFINE items == pipes[p].todo \ {i}
                q == [pipes[p] EXCEPT !.todo = items]
    <2>5. q.todo = items  BY <1>2 DEF Pipes
    <2>6. pipes' = [pipes EXCEPT ![p] = q]  BY <2>1
    <2>7. \A j \in items : Passes(j.outcome) => Answered(j.run, j.token, L)'
      BY <1>1, <2>3 DEF ItemsAnswered
    <2>8. ItemsAnswered(L)'
      <3>. HIDE DEF q, items
      <3>. QED  BY <1>1, <2>3, <2>5, <2>6, <2>7, ItemsStep
    <2>. QED  BY <1>1, <2>4, <2>8 DEF AnsweredInv
  <1>15. IdlePipe.todo = {}  BY DEF IdlePipe, Pipe
  <1>16. ASSUME NEW p \in Procs, StageEnds(p) PROVE AnsweredInv(L)'
    <2>. DEFINE q == IF pipes[p].at = pipes[p].until THEN IdlePipe
                     ELSE Pipe("read", pipes[p].at + 1, pipes[p].until,
                               pipes[p].run, {})
    <2>1. q.todo = {}  BY <1>15 DEF Pipe
    <2>2. pipes' = [pipes EXCEPT ![p] = q] /\ UNCHANGED <<row, decision>>
      BY <1>16 DEF StageEnds
    <2>. HIDE DEF q
    <2>. QED  BY <1>5, <2>1, <2>2
  <1>17. ASSUME NEW p \in Procs, UpstreamAborts(p) \/ Stops(p)
         PROVE  AnsweredInv(L)'
    <2>1. pipes' = [pipes EXCEPT ![p] = IdlePipe] /\ UNCHANGED <<row, decision>>
      BY <1>17 DEF UpstreamAborts, Stops
    <2>. QED  BY <1>5, <1>15, <2>1
  <1>18. CASE UNCHANGED vars
    <2>1. UNCHANGED <<row, decision, pipes>>  BY <1>18 DEF vars
    <2>2. ItemsAnswered(L)'  BY <1>1, <1>4, <2>1 DEF ItemsAnswered
    <2>. QED  BY <1>1, <1>4, <2>1, <2>2 DEF AnsweredInv
  <1>. QED  BY <1>6, <1>7, <1>8, <1>9, <1>10, <1>12, <1>13, <1>14, <1>16,
               <1>17, <1>18 DEF Next

\* However many scripts run beside the server, on whichever runs, crash or
\* lose Helius, no token passes without the answers of the five layers.
THEOREM SafetyAnswers == Spec => []PassHasSafetyAnswers
  <1>. DEFINE L == SafetyLayers
  <1>1. L \in SUBSET Layers  BY DEF SafetyLayers, Layers
  <1>2. ReadsAnswered(L)
    <2>1. SUFFICES ASSUME NEW p \in Procs, NEW i \in DecisionItems(p),
                          Passes(i.outcome)
                   PROVE  Answered(i.run, i.token, L)
      BY DEF ReadsAnswered
    <2>2. PICK r, t : i = DecisionItem(r, t)  BY <2>1 DEF DecisionItems
    <2>3. i.run = r /\ i.token = t
          /\ Passes(classify_watchlist_decision(row[r][t]))
      BY <2>1, <2>2 DEF DecisionItem
    <2>4. \A l \in L : PassFlag(row[r][t][l])  BY <2>3, PassNeedsAnswers
    <2>. QED  BY <2>3, <2>4 DEF Answered, PassFlag
  <1>3. Init => AnsweredInv(L)  BY <1>1, AnsweredInit
  <1>4. AnsweredInv(L) /\ [Next]_vars => AnsweredInv(L)'
    BY <1>1, <1>2, AnsweredStep
  <1>5. AnsweredInv(L) => PassHasSafetyAnswers
    BY DEF AnsweredInv, DecisionsAnswered, Answered, PassHasSafetyAnswers
  <1>. QED  BY <1>3, <1>4, <1>5, PTL DEF Spec
-----------------------------------------------------------------------------
(***************************************************************************)
(* The server by itself, until the first script runs a stage.              *)
(***************************************************************************)
CliIdle == cliPasses = 0 /\ pipes["cli"] = IdlePipe

Server == pipes["server"]

Working == Server.pc \in {"read", "save"}

\* Stage n is over for the server's run, or has its items.
Behind(n) == Server.at > n \/ (Server.at = n /\ Server.pc = "save")

StillToDo(n, t) == Server.at = n /\ \E i \in Server.todo : i.token = t

\* The three stages whose rows the decision does not ask for.
Unasked == {6, 8, 9}

\* What obliges such a stage to look at a token.
Obliged(n, v) ==
    IF n = 6 THEN Judged(v["wallet"]) ELSE v["contract"] # "none"

Filled(n) ==
    IF n = 6 THEN "intelligence" ELSE IF n = 8 THEN "dev_audit" ELSE "dev_flow"

\* A token that such a stage had to look at has its row, or waits for it.
Covered ==
    Working =>
        \A n \in Unasked, t \in Tokens :
            Behind(n) /\ Obliged(n, row[Server.run][t]) =>
                \/ row[Server.run][t][Filled(n)] # "none"
                \/ StillToDo(n, t)

OwnItems == \A i \in Server.todo : i.run = Server.run

AloneInv == TypeOK /\ CliIdle /\ OwnItems /\ Covered

\* Scripts that have run a stage have done so for good.
LEMMA AloneBefore ==
    ASSUME TypeOK, [Next]_vars, cliPasses' = 0
    PROVE  cliPasses = 0
  <1>1. cliPasses \in Nat  BY MaxCliPassesAssumption DEF TypeOK
  <1>2. cliPasses' = cliPasses \/ cliPasses' = cliPasses + 1
    BY DEF Next, vars, ServerIngests, IngestionEnds, CliIngests, CliStarts,
           StageReads, StageSaves, DecisionSaves, StageEnds, UpstreamRecorded,
           UpstreamAborts, Stops
  <1>. QED  BY <1>1, <1>2

LEMMA AloneInit == Init => AloneInv
  <1>. SUFFICES ASSUME Init PROVE AloneInv  OBVIOUS
  <1>1. Server = IdlePipe /\ pipes["cli"] = IdlePipe
    BY DEF Init, Server, Procs
  <1>2. Server.todo = {} /\ Server.pc = "idle"  BY <1>1 DEF IdlePipe, Pipe
  <1>. QED  BY <1>1, <1>2, TypeInit
            DEF AloneInv, CliIdle, OwnItems, Covered, Working, Init

\* Only the server moves.
LEMMA OnlyServer ==
    ASSUME TypeOK, CliIdle, NEW p \in Procs, pipes[p].pc # "idle"
    PROVE  p = "server"
  BY DEF CliIdle, Procs, IdlePipe, Pipe

\* The server's pipe becomes q, no token is looked at.
LEMMA ServerMoves ==
    ASSUME AloneInv, TypeOK', NEW q, pipes' = [pipes EXCEPT !["server"] = q],
           cliPasses' = cliPasses
    PROVE  Server' = q /\ CliIdle'
  BY DEF AloneInv, TypeOK, PipesOK, CliIdle, Server, Procs

LEMMA AloneStep == AloneInv /\ [Next]_vars /\ cliPasses' = 0 => AloneInv'
  <1>. SUFFICES ASSUME AloneInv, [Next]_vars, cliPasses' = 0
                PROVE  AloneInv'
    OBVIOUS
  <1>1. TypeOK /\ TypeOK' /\ CliIdle /\ OwnItems /\ Covered
    BY TypeStep DEF AloneInv
  <1>2. /\ pipes \in [Procs -> Pipes] /\ RowsOK /\ "server" \in Procs
        /\ Server \in Pipes /\ Server = pipes["server"]
        /\ Working => Server.at \in 1..10 /\ Server.run \in Runs
    <2>1. PipesOK /\ RowsOK /\ latest \in 0..MaxRuns  BY <1>1 DEF TypeOK
    <2>2. "server" \in Procs /\ Server = pipes["server"]
      BY DEF Procs, Server
    <2>3. pipes \in [Procs -> Pipes] /\ Server \in Pipes
      BY <2>1, <2>2 DEF PipesOK
    <2>4. Working => Server.at \in 1..10 /\ Server.run \in 1..latest
      BY <2>1, <2>2 DEF PipesOK, Working
    <2>. QED  BY <2>1, <2>2, <2>3, <2>4, MaxRunsAssumption DEF Runs
  <1>3. ASSUME NEW q, pipes' = [pipes EXCEPT !["server"] = q], q.todo = {},
               ~(q.pc \in {"read", "save"}) \/ (q.pc = "read" /\ q.at = 1),
               cliPasses' = cliPasses
        PROVE  AloneInv'
    <2>1. Server' = q /\ CliIdle'  BY <1>1, <1>3, ServerMoves DEF AloneInv
    <2>2. OwnItems'  BY <1>3, <2>1 DEF OwnItems
    <2>3. Covered'
      BY <1>3, <2>1 DEF Covered, Working, Behind, Unasked
    <2>. QED  BY <1>1, <2>1, <2>2, <2>3 DEF AloneInv
  <1>4. IdlePipe.todo = {} /\ IdlePipe.pc = "idle"  BY DEF IdlePipe, Pipe
  <1>5. CASE ServerIngests
    <2>. DEFINE q == Pipe("ingest", 0, 0, latest + 1, {})
    <2>1. q.todo = {} /\ q.pc = "ingest"  BY DEF Pipe
    <2>2. pipes' = [pipes EXCEPT !["server"] = q] /\ cliPasses' = cliPasses
      BY <1>5 DEF ServerIngests
    <2>. HIDE DEF q
    <2>. QED  BY <1>3, <2>1, <2>2
  <1>6. CASE IngestionEnds
    <2>. DEFINE q == Pipe("read", 1, 10, pipes["server"].run, {})
    <2>1. q.todo = {} /\ q.pc = "read" /\ q.at = 1  BY DEF Pipe
    <2>2. pipes' = [pipes EXCEPT !["server"] = q] /\ cliPasses' = cliPasses
      BY <1>6 DEF IngestionEnds
    <2>. HIDE DEF q
    <2>. QED  BY <1>3, <2>1, <2>2
  <1>7. CASE CliIngests
    <2>1. UNCHANGED <<pipes, row, cliPasses>>  BY <1>7 DEF CliIngests
    <2>. QED  BY <1>1, <2>1 DEF AloneInv, CliIdle, OwnItems, Covered, Working,
                  Behind, StillToDo, Server
  <1>8. CASE CliStarts
    BY <1>1, <1>8 DEF CliStarts, CliIdle
  <1>9. ASSUME NEW p \in Procs, StageReads(p) PROVE AloneInv'
    <2>1. p = "server" /\ Server.pc = "read" /\ row' = row
          /\ cliPasses' = cliPasses /\ Working
      BY <1>1, <1>2, <1>9, OnlyServer DEF StageReads, Working
    <2>2. Server.run \in Runs /\ Server.run # 0 /\ RunsOf(p) = {Server.run}
          /\ Stage(p) = Stages[Server.at]
      BY <1>2, <2>1 DEF RunsOf, Runs, Stage
    <2>3. PICK items :
             /\ Has(p, items)
             /\ \A i \in items : i.run = Server.run
             /\ \A t \in Tokens :
                   /\ Server.at \in Unasked
                   /\ Obliged(Server.at, row[Server.run][t])
                   => \E i \in items : i.token = t
      <3>1. CASE Stage(p) = "decision" /\ Has(p, DecisionItems(p))
        <4>1. Server.at = 10  BY <1>2, <2>1, <2>2, <3>1, StageNames
        <4>2. \A i \in DecisionItems(p) : i.run = Server.run
          BY <1>2, <2>1 DEF DecisionItems, DecidedRuns, DecisionItem
        <4>. QED  BY <3>1, <4>1, <4>2 DEF Unasked
      <3>2. ASSUME NEW r \in RunsOf(p), NEW S \in Inputs(Stage(p), r),
                   Stage(p) # "decision", Has(p, {Item(r, t) : t \in S})
            PROVE  \E items :
                     /\ Has(p, items)
                     /\ \A i \in items : i.run = Server.run
                     /\ \A t \in Tokens :
                           /\ Server.at \in Unasked
                           /\ Obliged(Server.at, row[Server.run][t])
                           => \E i \in items : i.token = t
        <4>1. r = Server.run  BY <2>2, <3>2
        <4>. DEFINE items == {Item(r, t) : t \in S}
        <4>2. \A i \in items : i.run = Server.run  BY <4>1 DEF Item
        <4>3. ASSUME NEW t \in Tokens, Server.at \in Unasked,
                     Obliged(Server.at, row[Server.run][t])
              PROVE  t \in S
          <5>1. CASE Server.at = 6
            <6>1. Stage(p) = "intelligence"
              BY <1>2, <2>1, <2>2, <5>1, StageNames
            <6>2. Judged(row[r][t]["wallet"])
              BY <4>1, <4>3, <5>1 DEF Obliged
            <6>. QED  BY <3>2, <6>1, <6>2 DEF Inputs
          <5>2. CASE Server.at \in {8, 9}
            <6>1. Stage(p) \in {"dev_audit", "dev_flow"}
              BY <1>2, <2>1, <2>2, <5>2, StageNames
            <6>2. row[r][t]["contract"] # "none"
              BY <4>1, <4>3, <5>2 DEF Obliged
            <6>. QED  BY <3>2, <6>1, <6>2 DEF Inputs
          <5>. QED  BY <4>3, <5>1, <5>2 DEF Unasked
        <4>4. \A t \in Tokens :
                 /\ Server.at \in Unasked
                 /\ Obliged(Server.at, row[Server.run][t])
                 => \E i \in items : i.token = t
          <5>1. SUFFICES ASSUME NEW t \in Tokens, Server.at \in Unasked,
                                Obliged(Server.at, row[Server.run][t])
                         PROVE  \E i \in items : i.token = t
            OBVIOUS
          <5>2. Item(r, t) \in items  BY <4>3, <5>1
          <5>3. Item(r, t).token = t  BY DEF Item
          <5>. HIDE DEF items
          <5>. QED  BY <5>2, <5>3
        <4>5. Has(p, items)  BY <3>2
        <4>. HIDE DEF items
        <4>. QED  BY <4>2, <4>4, <4>5
      <3>. QED  BY <1>9, <2>2, <3>1, <3>2 DEF StageReads
    <2>. DEFINE q == Pipe("save", Server.at, Server.until, Server.run, items)
    <2>4. /\ q.pc = "save" /\ q.at = Server.at /\ q.run = Server.run
          /\ q.todo = items
      BY DEF Pipe
    <2>5. pipes' = [pipes EXCEPT !["server"] = q]
      BY <1>2, <2>1, <2>3 DEF Has
    <2>6. Server' = q /\ CliIdle'
      <3>. HIDE DEF q
      <3>. QED  BY <1>1, <2>1, <2>5, ServerMoves DEF AloneInv
    <2>. HIDE DEF q
    <2>7. OwnItems'  BY <2>3, <2>4, <2>6 DEF OwnItems
    <2>8. Covered'
      <3>1. SUFFICES ASSUME NEW n \in Unasked, NEW t \in Tokens, Behind(n)',
                            Obliged(n, row[Server.run][t])
                     PROVE  \/ row[Server.run][t][Filled(n)] # "none"
                            \/ StillToDo(n, t)'
        BY <2>1, <2>4, <2>6 DEF Covered
      <3>2. CASE Server.at = n
        BY <2>3, <2>4, <2>6, <3>1, <3>2 DEF StillToDo
      <3>3. CASE Server.at # n
        <4>1. Behind(n) /\ ~StillToDo(n, t)
          BY <2>4, <2>6, <3>1, <3>3 DEF Behind, StillToDo
        <4>. QED  BY <1>1, <2>1, <3>1, <4>1 DEF Covered
      <3>. QED  BY <3>2, <3>3
    <2>. QED  BY <1>1, <2>6, <2>7, <2>8 DEF AloneInv
  <1>10. ASSUME NEW p \in Procs, pipes[p].pc = "save", NEW i \in pipes[p].todo,
                NEW v \in Findings(Stage(p)), Stage(p) # "decision",
                SaveRow(i, Stage(p), v), cliPasses' = cliPasses,
                NEW items, pipes' = [pipes EXCEPT ![p].todo = items],
                \A j \in pipes[p].todo \ {i} : j \in items,
                \A j \in items : j.run = Server.run
         PROVE  AloneInv'
    <2>1. p = "server" /\ Server.pc = "save" /\ Working
      BY <1>1, <1>2, <1>10, OnlyServer DEF Working
    <2>2. /\ Server.at \in 1..10 /\ Server.run \in Runs
          /\ Stage(p) = Stages[Server.at] /\ Stage(p) \in Layers
      BY <1>2, <1>10, <2>1, StageNames DEF Stage
    <2>3. i \in Items /\ i.run = Server.run /\ i.token \in Tokens /\ v # "none"
      BY <1>1, <1>2, <1>10, <2>1 DEF Pipes, Items, OwnItems, Findings
    <2>4. \A t \in Tokens, k \in Layers :
             row'[Server.run][t][k] = IF t = i.token /\ k = Stage(p)
                                      THEN v ELSE row[Server.run][t][k]
      BY <1>2, <1>10, <2>2, <2>3, SavedRow
    <2>. DEFINE q == [Server EXCEPT !.todo = items]
    <2>5. /\ q.pc = Server.pc /\ q.at = Server.at /\ q.run = Server.run
          /\ q.todo = items
      BY <1>2 DEF Pipes
    <2>6. pipes' = [pipes EXCEPT !["server"] = q]  BY <1>2, <1>10, <2>1
    <2>7. Server' = q /\ CliIdle'
      <3>. HIDE DEF q
      <3>. QED  BY <1>1, <1>10, <2>6, ServerMoves DEF AloneInv
    <2>. HIDE DEF q
    <2>8. OwnItems'  BY <1>10, <2>5, <2>7 DEF OwnItems
    <2>9. Covered'
      <3>1. SUFFICES ASSUME NEW n \in Unasked, NEW t \in Tokens, Behind(n),
                            Obliged(n, row'[Server.run][t]),
                            row'[Server.run][t][Filled(n)] = "none"
                     PROVE  StillToDo(n, t)'
        BY <2>5, <2>7 DEF Covered, Behind
      <3>2. Server.at >= 6 /\ Stage(p) \notin {"wallet", "contract"}
        BY <2>2, <3>1, StageNames DEF Behind, Unasked
      <3>3. Obliged(n, row[Server.run][t])
        BY <2>4, <3>1, <3>2 DEF Obliged, Layers
      <3>4. Filled(n) \in Layers  BY DEF Filled, Layers
      <3>5. row[Server.run][t][Filled(n)] = "none"
        BY <2>3, <2>4, <3>1, <3>4
      <3>6. StillToDo(n, t)
        BY <1>1, <2>1, <3>1, <3>3, <3>5 DEF Covered
      <3>7. PICK j \in Server.todo : j.token = t  BY <3>6 DEF StillToDo
      <3>8. Server.at = n /\ Stage(p) = Filled(n)
        BY <2>2, <3>1, <3>6, StageNames DEF StillToDo, Unasked, Filled
      <3>9. t # i.token  BY <2>3, <2>4, <3>1, <3>4, <3>8
      <3>10. j \in items  BY <1>2, <1>10, <2>1, <3>7, <3>9
      <3>. QED  BY <2>5, <2>7, <3>7, <3>8, <3>10 DEF StillToDo
    <2>. QED  BY <1>1, <2>7, <2>8, <2>9 DEF AloneInv
  <1>11. ASSUME NEW p \in Procs, StageSaves(p) PROVE AloneInv'
    <2>1. p = "server" /\ Server.pc = "save" /\ Working
      BY <1>1, <1>2, <1>11, OnlyServer DEF StageSaves, Working
    <2>2. Stage(p) \in Layers
      BY <1>2, <1>11, <2>1, StageNames DEF StageSaves, Stage
    <2>3. PICK i \in pipes[p].todo, v \in Possible[Stage(p)] :
             /\ SaveRow(i, Stage(p), v)
             /\ \/ pipes' = [pipes EXCEPT ![p].todo = @ \ {i}]
                \/ pipes' = [pipes EXCEPT ![p].todo =
                      (@ \ {i}) \cup {[i EXCEPT !.labels = v]}]
      BY <1>11 DEF StageSaves
    <2>4. /\ v \in Findings(Stage(p)) /\ pipes[p].pc = "save"
          /\ Stage(p) # "decision" /\ cliPasses' = cliPasses
          /\ \A j \in pipes[p].todo : j.run = Server.run
      BY <1>1, <1>2, <1>11, <2>1, <2>2, <2>3, PossibleAssumption
         DEF StageSaves, OwnItems
    <2>5. CASE pipes' = [pipes EXCEPT ![p].todo = @ \ {i}]
      <3>. DEFINE items == pipes[p].todo \ {i}
      <3>1. pipes' = [pipes EXCEPT ![p].todo = items]  BY <2>5
      <3>2. /\ \A j \in pipes[p].todo \ {i} : j \in items
            /\ \A j \in items : j.run = Server.run
        BY <2>4
      <3>. HIDE DEF items
      <3>. QED  BY <1>10, <2>3, <2>4, <3>1, <3>2
    <2>6. CASE pipes' = [pipes EXCEPT ![p].todo =
                   (@ \ {i}) \cup {[i EXCEPT !.labels = v]}]
      <3>. DEFINE k == [i EXCEPT !.labels = v]
                  items == (pipes[p].todo \ {i}) \cup {k}
      <3>1. pipes' = [pipes EXCEPT ![p].todo = items]  BY <2>6
      <3>2. k.run = Server.run
        BY <1>2, <2>1, <2>4 DEF Pipes, Items
      <3>3. /\ \A j \in pipes[p].todo \ {i} : j \in items
            /\ \A j \in items : j.run = Server.run
        BY <2>4, <3>2
      <3>. HIDE DEF items, k
      <3>. QED  BY <1>10, <2>3, <2>4, <3>1, <3>3
    <2>. QED  BY <2>3, <2>5, <2>6
  <1>12. ASSUME NEW p \in Procs, UpstreamRecorded(p) PROVE AloneInv'
    <2>1. p = "server" /\ pipes[p].pc = "save" /\ cliPasses' = cliPasses
          /\ "unknown" \in Findings(Stage(p)) /\ Stage(p) # "decision"
      BY <1>1, <1>12, OnlyServer DEF UpstreamRecorded, Findings
    <2>2. PICK i \in pipes[p].todo :
             /\ SaveRow(i, Stage(p), "unknown")
             /\ pipes' = [pipes EXCEPT ![p].todo = @ \ {i}]
      BY <1>12 DEF UpstreamRecorded
    <2>. DEFINE items == pipes[p].todo \ {i}
    <2>3. pipes' = [pipes EXCEPT ![p].todo = items]  BY <2>2
    <2>4. /\ \A j \in pipes[p].todo \ {i} : j \in items
          /\ \A j \in items : j.run = Server.run
      BY <1>1, <1>2, <2>1 DEF OwnItems
    <2>. HIDE DEF items
    <2>. QED  BY <1>10, <2>1, <2>2, <2>3, <2>4
  <1>13. ASSUME NEW p \in Procs, DecisionSaves(p) PROVE AloneInv'
    <2>1. p = "server" /\ Server.pc = "save" /\ Working /\ row' = row
          /\ cliPasses' = cliPasses
      BY <1>1, <1>2, <1>13, OnlyServer DEF DecisionSaves, Working
    <2>2. Server.at = 10
      BY <1>2, <1>13, <2>1, StageNames DEF DecisionSaves, Stage
    <2>3. PICK i \in Server.todo : 
             pipes' = [pipes EXCEPT ![p].todo = Server.todo \ {i}]
      BY <1>2, <1>13, <2>1 DEF DecisionSaves
    <2>. DEFINE q == [Server EXCEPT !.todo = Server.todo \ {i}]
    <2>4. /\ q.pc = Server.pc /\ q.at = Server.at /\ q.run = Server.run
          /\ q.todo = Server.todo \ {i}
      BY <1>2 DEF Pipes
    <2>5. pipes' = [pipes EXCEPT !["server"] = q]  BY <1>2, <2>1, <2>3
    <2>6. Server' = q /\ CliIdle'
      <3>. HIDE DEF q
      <3>. QED  BY <1>1, <2>1, <2>5, ServerMoves DEF AloneInv
    <2>. HIDE DEF q
    <2>7. OwnItems'  BY <1>1, <2>4, <2>6 DEF OwnItems
    <2>8. Covered'
      BY <1>1, <2>1, <2>2, <2>4, <2>6
         DEF Covered, Behind, StillToDo, Unasked, Working
    <2>. QED  BY <1>1, <2>6, <2>7, <2>8 DEF AloneInv
  <1>14. ASSUME NEW p \in Procs, StageEnds(p) PROVE AloneInv'
    <2>1. p = "server" /\ Server.pc = "save" /\ Working /\ row' = row
          /\ cliPasses' = cliPasses /\ Server.todo = {}
      BY <1>1, <1>2, <1>14, OnlyServer DEF StageEnds, Working
    <2>2. CASE pipes' = [pipes EXCEPT ![p] = IdlePipe]
      BY <1>3, <1>4, <2>1, <2>2
    <2>3. CASE pipes' = [pipes EXCEPT ![p] =
                  Pipe("read", pipes[p].at + 1, pipes[p].until,
                       pipes[p].run, {})]
      <3>. DEFINE q == Pipe("read", Server.at + 1, Server.until, Server.run, {})
      <3>1. /\ q.pc = "read" /\ q.at = Server.at + 1 /\ q.run = Server.run
            /\ q.todo = {}
        BY DEF Pipe
      <3>2. pipes' = [pipes EXCEPT !["server"] = q]  BY <1>2, <2>1, <2>3
      <3>3. Server' = q /\ CliIdle'
        <4>. HIDE DEF q
        <4>. QED  BY <1>1, <2>1, <3>2, ServerMoves DEF AloneInv
      <3>. HIDE DEF q
      <3>4. OwnItems'  BY <3>1, <3>3 DEF OwnItems
      <3>5. ASSUME NEW n \in Unasked, Behind(n)'
            PROVE  Behind(n) /\ \A t : ~StillToDo(n, t)
        BY <1>2, <2>1, <3>1, <3>3, <3>5 DEF Behind, StillToDo, Unasked
      <3>6. Covered'
        BY <1>1, <2>1, <3>1, <3>3, <3>5 DEF Covered
      <3>. QED  BY <1>1, <3>3, <3>4, <3>6 DEF AloneInv
    <2>. QED  BY <1>14, <2>2, <2>3 DEF StageEnds
  <1>15. ASSUME NEW p \in Procs, UpstreamAborts(p) \/ Stops(p)
         PROVE  AloneInv'
    <2>1. p = "server" /\ cliPasses' = cliPasses
          /\ pipes' = [pipes EXCEPT ![p] = IdlePipe]
      BY <1>1, <1>15, OnlyServer DEF UpstreamAborts, Stops
    <2>. QED  BY <1>3, <1>4, <2>1
  <1>16. CASE UNCHANGED vars
    BY <1>1, <1>16 DEF vars, AloneInv, CliIdle, OwnItems, Covered, Working,
       Behind, StillToDo, Server
  <1>. QED  BY <1>5, <1>6, <1>7, <1>8, <1>9, <1>11, <1>12, <1>13, <1>14,
               <1>15, <1>16 DEF Next

\* Until a script runs a stage, a token that passes has an answer in all nine
\* layers, although the classification asks for five and the market only.
THEOREM EveryLayerSeen == Spec => []PassSawEveryLayer
  <1>1. Layers \in SUBSET Layers  OBVIOUS
  <1>2. AloneInv => ReadsAnswered(Layers)
    <2>1. SUFFICES ASSUME AloneInv, NEW p \in Procs, pipes[p].pc = "read",
                          Stage(p) = "decision", NEW i \in DecisionItems(p),
                          Passes(i.outcome)
                   PROVE  Answered(i.run, i.token, Layers)
      BY DEF ReadsAnswered
    <2>2. p = "server" /\ Server.pc = "read" /\ Working
      BY <2>1, OnlyServer DEF AloneInv, Working, Server
    <2>3. Server.at = 10
      BY <2>1, <2>2, StageNames
         DEF AloneInv, TypeOK, PipesOK, Working, Server, Stage, Procs
    <2>4. PICK t \in Tokens :
             /\ i = DecisionItem(Server.run, t)
             /\ row[Server.run][t]["market"] # "none"
      BY <2>2 DEF DecisionItems, DecidedRuns, Server
    <2>. DEFINE v == row[Server.run][t]
    <2>5. i.run = Server.run /\ i.token = t
          /\ Passes(classify_watchlist_decision(v))
      BY <2>1, <2>4 DEF DecisionItem
    <2>6. \A l \in SafetyLayers : PassFlag(v[l])
      <3>. HIDE DEF v
      <3>. QED  BY <2>5, PassNeedsAnswers
    <2>7. v["contract"] # "none" /\ Judged(v["wallet"])
      BY <2>6 DEF PassFlag, SafetyLayers, Judged
    <2>8. \A n \in Unasked : Behind(n) /\ ~StillToDo(n, t) /\ Obliged(n, v)
      BY <2>3, <2>7 DEF Unasked, Behind, StillToDo, Obliged
    <2>9. \A n \in Unasked : v[Filled(n)] # "none"
      BY <2>1, <2>2, <2>8 DEF AloneInv, Covered
    <2>10. \A l \in Layers : v[l] # "none"
      <3>1. v["intelligence"] # "none" /\ v["dev_audit"] # "none"
            /\ v["dev_flow"] # "none"
        BY <2>9 DEF Unasked, Filled
      <3>2. \A l \in SafetyLayers : v[l] # "none"  BY <2>6 DEF PassFlag
      <3>. QED  BY <2>4, <3>1, <3>2 DEF Layers, SafetyLayers
    <2>. QED  BY <2>5, <2>10 DEF Answered
  <1>. DEFINE Inv == /\ TypeOK
                     /\ cliPasses = 0 => AloneInv /\ AnsweredInv(Layers)
  <1>3. Init => Inv  BY <1>1, TypeInit, AloneInit, AnsweredInit
  <1>4. Inv /\ [Next]_vars => Inv'
    <2>1. SUFFICES ASSUME Inv, [Next]_vars, cliPasses' = 0
                   PROVE  AloneInv' /\ AnsweredInv(Layers)'
      BY TypeStep
    <2>2. AloneInv /\ AnsweredInv(Layers)  BY <2>1, AloneBefore
    <2>. QED  BY <1>1, <1>2, <2>1, <2>2, AloneStep, AnsweredStep
  <1>5. Inv => PassSawEveryLayer
    BY DEF AnsweredInv, DecisionsAnswered, Answered, PassSawEveryLayer
  <1>. QED  BY <1>3, <1>4, <1>5, PTL DEF Spec

-----------------------------------------------------------------------------
(***************************************************************************)
(* A run is decided once, last of all that is done for it.                 *)
(***************************************************************************)
Deciding == Server.at = 10 /\ Server.pc = "save"

\* Runs that have not begun, and the server's before its last stage.
Undecided ==
    \A r \in Runs, t \in Tokens :
        \/ r > latest
        \/ Server.pc # "idle" /\ ~Deciding /\ r = Server.run
        => decision[r][t] = "none"

ItemsCurrent ==
    Deciding =>
        \A i \in Server.todo :
            /\ i.outcome = classify_watchlist_decision(row[i.run][i.token])
            /\ i.labels = row[i.run][i.token]["intelligence"]

DecisionsMatch ==
    \A r \in Runs, t \in Tokens :
        decision[r][t] # "none" =>
            /\ decision[r][t] = classify_watchlist_decision(row[r][t])
            /\ summary[r][t] = row[r][t]["intelligence"]

CurrentInv == AloneInv /\ Undecided /\ ItemsCurrent /\ DecisionsMatch

LEMMA CurrentInit == Init => CurrentInv
  <1>. SUFFICES ASSUME Init PROVE CurrentInv  OBVIOUS
  <1>1. Server.todo = {} /\ Server.pc = "idle"
    BY DEF Init, Server, Procs, IdlePipe, Pipe
  <1>2. Undecided /\ DecisionsMatch
    BY <1>1 DEF Init, Undecided, DecisionsMatch
  <1>3. ItemsCurrent  BY <1>1 DEF ItemsCurrent
  <1>. QED  BY <1>2, <1>3, AloneInit DEF CurrentInv

LEMMA CurrentStep == CurrentInv /\ [Next]_vars /\ cliPasses' = 0 => CurrentInv'
  <1>. SUFFICES ASSUME CurrentInv, [Next]_vars, cliPasses' = 0
                PROVE  CurrentInv'
    OBVIOUS
  <1>1. AloneInv /\ AloneInv' /\ TypeOK /\ CliIdle /\ OwnItems
    BY AloneStep DEF CurrentInv, AloneInv
  <1>2. Undecided /\ ItemsCurrent /\ DecisionsMatch  BY DEF CurrentInv
  <1>3. /\ pipes \in [Procs -> Pipes] /\ RowsOK /\ "server" \in Procs
        /\ Server \in Pipes /\ Server = pipes["server"]
        /\ Working => Server.at \in 1..10
        /\ Server.pc # "idle" => Server.run \in 1..latest
        /\ latest \in 0..MaxRuns
    BY <1>1 DEF TypeOK, PipesOK, Procs, Server, Working
  <1>4. Server.pc # "idle" => Server.run \in Runs
    BY <1>3, MaxRunsAssumption DEF Runs
  <1>5. ASSUME UNCHANGED <<row, decision, summary>>
        PROVE  DecisionsMatch'
    BY <1>2, <1>5 DEF DecisionsMatch
  <1>6. ASSUME NEW q, pipes' = [pipes EXCEPT !["server"] = q]
        PROVE  Server' = q
    BY <1>3, <1>6 DEF Server
  \* The server goes on with its run, ends it, or begins the next one.
  <1>7. ASSUME UNCHANGED <<row, decision, summary>>,
               NEW q, pipes' = [pipes EXCEPT !["server"] = q],
               latest' \in Nat, latest' >= latest,
               ~(q.at = 10 /\ q.pc = "save"),
               \/ q.pc = "idle"
               \/ q.run = Server.run /\ Server.pc # "idle" /\ ~Deciding
               \/ q.run > latest
        PROVE  CurrentInv'
    <2>1. Server' = q  BY <1>6, <1>7
    <2>2. ItemsCurrent'  BY <1>7, <2>1 DEF ItemsCurrent, Deciding
    <2>3. Undecided'
      BY <1>2, <1>3, <1>7, <2>1 DEF Undecided, Deciding, Runs
    <2>. QED  BY <1>1, <1>5, <1>7, <2>2, <2>3 DEF CurrentInv
  <1>8. latest \in Nat  BY <1>3, MaxRunsAssumption
  <1>9. CASE ServerIngests
    <2>. DEFINE q == Pipe("ingest", 0, 0, latest + 1, {})
    <2>1. q.pc = "ingest" /\ q.run = latest + 1  BY DEF Pipe
    <2>2. /\ pipes' = [pipes EXCEPT !["server"] = q] /\ latest' = latest + 1
          /\ UNCHANGED <<row, decision, summary>>
      BY <1>9 DEF ServerIngests
    <2>. HIDE DEF q
    <2>3. latest' \in Nat /\ latest' >= latest /\ q.run > latest
      BY <1>8, <2>1, <2>2
    <2>. QED  BY <1>7, <2>1, <2>2, <2>3
  <1>10. CASE IngestionEnds
    <2>. DEFINE q == Pipe("read", 1, 10, pipes["server"].run, {})
    <2>1. q.pc = "read" /\ q.run = Server.run  BY <1>3 DEF Pipe
    <2>2. /\ pipes' = [pipes EXCEPT !["server"] = q] /\ latest' = latest
          /\ UNCHANGED <<row, decision, summary>> /\ Server.pc = "ingest"
      BY <1>3, <1>10 DEF IngestionEnds
    <2>3. latest' \in Nat /\ latest' >= latest /\ ~Deciding
      BY <1>8, <2>2 DEF Deciding
    <2>. HIDE DEF q
    <2>. QED  BY <1>7, <2>1, <2>2, <2>3
  <1>11. CASE CliIngests
    <2>1. UNCHANGED <<row, decision, summary, pipes>> /\ latest' = latest + 1
      BY <1>11 DEF CliIngests
    <2>2. Undecided'
      BY <1>2, <1>8, <2>1 DEF Undecided, Deciding, Server, Runs
    <2>3. ItemsCurrent'
      BY <1>2, <2>1 DEF ItemsCurrent, Deciding, Server
    <2>. QED  BY <1>1, <1>5, <2>1, <2>2, <2>3 DEF CurrentInv
  <1>12. CASE CliStarts
    BY <1>1, <1>12 DEF CliStarts, CliIdle
  <1>13. ASSUME NEW p \in Procs, pipes[p].pc # "idle"
         PROVE  p = "server" /\ Server.pc # "idle"
    BY <1>1, <1>3, <1>13, OnlyServer
  <1>14. ASSUME NEW p \in Procs, StageReads(p) PROVE CurrentInv'
    <2>1. /\ p = "server" /\ Server.pc = "read" /\ Working /\ ~Deciding
          /\ UNCHANGED <<row, decision, summary, latest>>
      BY <1>3, <1>13, <1>14 DEF StageReads, Working, Deciding
    <2>2. PICK items :
             /\ Has(p, items)
             /\ Stage(p) = "decision" => items = DecisionItems(p)
      BY <1>14 DEF StageReads
    <2>. DEFINE q == Pipe("save", Server.at, Server.until, Server.run, items)
    <2>3. /\ q.pc = "save" /\ q.at = Server.at /\ q.run = Server.run
          /\ q.todo = items
      BY DEF Pipe
    <2>4. pipes' = [pipes EXCEPT !["server"] = q]
      BY <1>3, <2>1, <2>2 DEF Has
    <2>. HIDE DEF q
    <2>5. Server' = q  BY <1>6, <2>4
    <2>6. Undecided'
      BY <1>2, <2>1, <2>3, <2>5 DEF Undecided, Deciding
    <2>7. ItemsCurrent'
      <3>1. SUFFICES ASSUME Deciding', NEW i \in items
                     PROVE  /\ i.outcome =
                                 classify_watchlist_decision(row[i.run][i.token])
                            /\ i.labels = row[i.run][i.token]["intelligence"]
        BY <2>1, <2>3, <2>5 DEF ItemsCurrent
      <3>2. Stage(p) = "decision"
        <4>1. Server.at = 10  BY <2>3, <2>5, <3>1 DEF Deciding
        <4>. QED  BY <1>3, <2>1, <4>1, StageNames DEF Stage
      <3>3. PICK r, t : i = DecisionItem(r, t)
        BY <2>2, <3>1, <3>2 DEF DecisionItems
      <3>. QED  BY <3>3 DEF DecisionItem
    <2>. QED  BY <1>1, <1>5, <2>1, <2>6, <2>7 DEF CurrentInv
  \* A stage before the last one writes to a run that is not decided yet.
  <1>15. ASSUME NEW p \in Procs, pipes[p].pc = "save", NEW i \in pipes[p].todo,
                NEW v \in Findings(Stage(p)), Stage(p) # "decision",
                SaveRow(i, Stage(p), v), UNCHANGED <<decision, summary, latest>>,
                NEW items, pipes' = [pipes EXCEPT ![p].todo = items]
         PROVE  CurrentInv'
    <2>1. p = "server" /\ Server.pc = "save" /\ Working
      BY <1>3, <1>13, <1>15 DEF Working
    <2>2. Server.at # 10 /\ Stage(p) \in Layers
      BY <1>3, <1>15, <2>1, StageNames DEF Stage
    <2>. DEFINE q == [Server EXCEPT !.todo = items]
    <2>3. q.pc = Server.pc /\ q.at = Server.at /\ q.run = Server.run
      BY <1>3 DEF Pipes
    <2>4. pipes' = [pipes EXCEPT !["server"] = q]  BY <1>3, <1>15, <2>1
    <2>. HIDE DEF q
    <2>5. Server' = q  BY <1>6, <2>4
    <2>6. Undecided' /\ ItemsCurrent'
      BY <1>2, <1>15, <2>2, <2>3, <2>5 DEF Undecided, ItemsCurrent, Deciding
    <2>7. i \in Items /\ i.run = Server.run
      BY <1>1, <1>3, <1>15, <2>1 DEF Pipes, OwnItems
    <2>8. ASSUME NEW r \in Runs, NEW t \in Tokens, decision[r][t] # "none"
          PROVE  row'[r][t] = row[r][t]
      <3>1. r # Server.run
        BY <1>2, <2>1, <2>2, <2>8 DEF Undecided, Deciding
      <3>. QED  BY <1>3, <1>15, <2>7, <3>1 DEF SaveRow, RowsOK, Items
    <2>9. DecisionsMatch'
      BY <1>2, <1>15, <2>8 DEF DecisionsMatch
    <2>. QED  BY <1>1, <2>6, <2>9 DEF CurrentInv
  <1>16. ASSUME NEW p \in Procs, StageSaves(p) PROVE CurrentInv'
    <2>1. pipes[p].pc = "save" /\ Stage(p) # "decision" /\ p = "server"
          /\ UNCHANGED <<decision, summary, latest>>
      BY <1>13, <1>16 DEF StageSaves
    <2>2. Stage(p) \in Layers
      BY <1>3, <2>1, StageNames DEF Stage, Working
    <2>3. PICK i \in pipes[p].todo, v \in Possible[Stage(p)] : \E items :
             SaveRow(i, Stage(p), v) /\ pipes' = [pipes EXCEPT ![p].todo = items]
      BY <1>16 DEF StageSaves
    <2>4. v \in Findings(Stage(p))  BY <2>2, <2>3, PossibleAssumption
    <2>5. PICK items : pipes' = [pipes EXCEPT ![p].todo = items]
      BY <2>3
    <2>. QED  BY <1>15, <2>1, <2>3, <2>4, <2>5
  <1>17. ASSUME NEW p \in Procs, UpstreamRecorded(p) PROVE CurrentInv'
    <2>1. pipes[p].pc = "save" /\ Stage(p) # "decision"
          /\ "unknown" \in Findings(Stage(p))
          /\ UNCHANGED <<decision, summary, latest>>
      BY <1>17 DEF UpstreamRecorded, Findings
    <2>2. PICK i \in pipes[p].todo :
             /\ SaveRow(i, Stage(p), "unknown")
             /\ \E items : pipes' = [pipes EXCEPT ![p].todo = items]
      BY <1>17 DEF UpstreamRecorded
    <2>3. PICK items : pipes' = [pipes EXCEPT ![p].todo = items]
      BY <2>2
    <2>. QED  BY <1>15, <2>1, <2>2, <2>3
  <1>18. ASSUME NEW p \in Procs, DecisionSaves(p) PROVE CurrentInv'
    <2>1. p = "server" /\ Server.pc = "save" /\ Working
          /\ UNCHANGED <<row, latest>>
      BY <1>3, <1>13, <1>18 DEF DecisionSaves, Working
    <2>2. Server.at = 10 /\ Deciding
      BY <1>3, <1>18, <2>1, StageNames DEF DecisionSaves, Stage, Deciding
    <2>3. PICK i \in Server.todo :
             /\ decision' = [decision EXCEPT ![i.run] =
                    [decision[i.run] EXCEPT ![i.token] = i.outcome]]
             /\ summary' = [summary EXCEPT ![i.run] =
                    [summary[i.run] EXCEPT ![i.token] = i.labels]]
             /\ pipes' = [pipes EXCEPT ![p].todo = @ \ {i}]
      BY <1>3, <1>18, <2>1 DEF DecisionSaves
    <2>4. /\ i.run = Server.run /\ i.run \in Runs /\ i.token \in Tokens
          /\ i.run <= latest
      BY <1>1, <1>3, <1>4, <2>1, <2>3 DEF Pipes, Items, OwnItems, Runs
    <2>5. \A r \in Runs, t \in Tokens :
             IF r = i.run /\ t = i.token
             THEN decision'[r][t] = i.outcome /\ summary'[r][t] = i.labels
             ELSE decision'[r][t] = decision[r][t] /\ summary'[r][t] = summary[r][t]
      BY <1>1, <2>3, <2>4 DEF TypeOK
    <2>. DEFINE q == [Server EXCEPT !.todo = Server.todo \ {i}]
    <2>6. /\ q.pc = Server.pc /\ q.at = Server.at /\ q.run = Server.run
          /\ q.todo = Server.todo \ {i}
      BY <1>3 DEF Pipes
    <2>7. pipes' = [pipes EXCEPT !["server"] = q]  BY <1>3, <2>1, <2>3
    <2>. HIDE DEF q
    <2>8. Server' = q  BY <1>6, <2>7
    <2>9. ItemsCurrent'
      BY <1>2, <2>1, <2>2, <2>6, <2>8 DEF ItemsCurrent, Deciding
    <2>10. Undecided'
      <3>1. \A r \in Runs, t \in Tokens :
               r > latest => decision'[r][t] = decision[r][t]
        BY <1>3, <2>4, <2>5 DEF Runs
      <3>. QED  BY <1>2, <2>1, <2>2, <2>6, <2>8, <3>1 DEF Undecided, Deciding
    <2>11. DecisionsMatch'
      BY <1>2, <2>1, <2>2, <2>3, <2>5 DEF DecisionsMatch, ItemsCurrent
    <2>. QED  BY <1>1, <2>9, <2>10, <2>11 DEF CurrentInv
  <1>19. ASSUME NEW p \in Procs, StageEnds(p) PROVE CurrentInv'
    <2>1. /\ p = "server" /\ Server.pc = "save" /\ Working
          /\ UNCHANGED <<row, decision, latest>>
      BY <1>3, <1>13, <1>19 DEF StageEnds, Working
    <2>2. summary' = summary
      <3>1. \A r \in Runs, t \in Tokens :
               RewrittenSummaries[r][t] = summary[r][t]
        BY <1>2 DEF RewrittenSummaries, DecisionsMatch
      <3>2. /\ RewrittenSummaries = [r \in Runs |-> RewrittenSummaries[r]]
            /\ \A r \in Runs : RewrittenSummaries[r] =
                   [t \in Tokens |-> RewrittenSummaries[r][t]]
        BY DEF RewrittenSummaries
      <3>3. /\ summary = [r \in Runs |-> summary[r]]
            /\ \A r \in Runs : summary[r] = [t \in Tokens |-> summary[r][t]]
        BY <1>1 DEF TypeOK
      <3>4. \A r \in Runs : RewrittenSummaries[r] = summary[r]
        BY <3>1, <3>2, <3>3
      <3>5. RewrittenSummaries = summary  BY <3>2, <3>3, <3>4
      <3>. QED  BY <1>19, <3>5 DEF StageEnds
    <2>3. CASE pipes' = [pipes EXCEPT ![p] = IdlePipe]
      <3>1. IdlePipe.pc = "idle"  BY DEF IdlePipe, Pipe
      <3>2. latest' \in Nat /\ latest' >= latest  BY <1>8, <2>1
      <3>. QED  BY <1>7, <2>1, <2>2, <2>3, <3>1, <3>2
    <2>4. CASE /\ Server.at # Server.until
               /\ pipes' = [pipes EXCEPT ![p] =
                     Pipe("read", Server.at + 1, Server.until, Server.run, {})]
      <3>. DEFINE q == Pipe("read", Server.at + 1, Server.until, Server.run, {})
      <3>1. q.pc = "read" /\ q.run = Server.run  BY DEF Pipe
      <3>2. pipes' = [pipes EXCEPT !["server"] = q]  BY <2>1, <2>4
      <3>. HIDE DEF q
      <3>3. ~Deciding
        <4>1. Server.until \in Server.at..10
          BY <1>1, <1>3, <2>1 DEF TypeOK, PipesOK
        <4>. QED  BY <1>3, <2>1, <2>4, <4>1 DEF Deciding
      <3>4. latest' \in Nat /\ latest' >= latest  BY <1>8, <2>1
      <3>. QED  BY <1>7, <2>1, <2>2, <3>1, <3>2, <3>3, <3>4
    <2>. QED  BY <1>3, <1>19, <2>1, <2>3, <2>4 DEF StageEnds
  <1>20. ASSUME NEW p \in Procs, UpstreamAborts(p) \/ Stops(p)
         PROVE  CurrentInv'
    <2>1. /\ p = "server" /\ pipes' = [pipes EXCEPT ![p] = IdlePipe]
          /\ UNCHANGED <<row, decision, summary, latest>>
      BY <1>13, <1>20 DEF UpstreamAborts, Stops
    <2>2. IdlePipe.pc = "idle"  BY DEF IdlePipe, Pipe
    <2>3. latest' \in Nat /\ latest' >= latest  BY <1>8, <2>1
    <2>. QED  BY <1>7, <2>1, <2>2, <2>3
  <1>21. CASE UNCHANGED vars
    <2>1. UNCHANGED <<row, decision, summary, pipes, latest>>
      BY <1>21 DEF vars
    <2>2. Undecided' /\ ItemsCurrent'
      BY <1>2, <2>1 DEF Undecided, ItemsCurrent, Deciding, Server
    <2>. QED  BY <1>1, <1>5, <2>1, <2>2 DEF CurrentInv
  <1>. QED  BY <1>9, <1>10, <1>11, <1>12, <1>14, <1>16, <1>17, <1>18, <1>19,
               <1>20, <1>21 DEF Next

\* Until a script runs a stage, a decision is at every moment the
\* classification of the rows as they are, and shows the labels it judged.
THEOREM DecisionsAreCurrent == Spec => []DecisionIsCurrent
  <1>. DEFINE Inv == TypeOK /\ (cliPasses = 0 => CurrentInv)
  <1>1. Init => Inv  BY TypeInit, CurrentInit
  <1>2. Inv /\ [Next]_vars => Inv'
    <2>1. SUFFICES ASSUME Inv, [Next]_vars, cliPasses' = 0
                   PROVE  CurrentInv'
      BY TypeStep
    <2>. QED  BY <2>1, AloneBefore, CurrentStep
  <1>3. Inv => DecisionIsCurrent  BY DEF CurrentInv, DecisionsMatch, DecisionIsCurrent
  <1>. QED  BY <1>1, <1>2, <1>3, PTL DEF Spec

-----------------------------------------------------------------------------
(***************************************************************************)
(* What a decision to watch a token says of the row it was made from.      *)
(***************************************************************************)
\* A row that passes has the answers of the five layers that must answer and
\* no danger in the others.
LEMMA PassRow ==
    ASSUME NEW r, Passes(classify_watchlist_decision(r))
    PROVE  /\ r["market"] # "danger"
           /\ \A l \in {"contract", "liquidity", "wallet", "cluster",
                        "manipulation"} : r[l] \in {"warning", "pass"}
           /\ r["dev_audit"] # "danger"
           /\ r["dev_flow"] \notin {"unknown", "danger"}
           /\ r["intelligence"] # "danger"
<1>1. /\ r["market"] # "danger"
      /\ r["contract"] \in {"warning", "pass"}
      /\ r["liquidity"] \in {"warning", "pass"}
      /\ r["wallet"] \in {"warning", "pass"}
      /\ r["cluster"] \in {"warning", "pass"}
      /\ r["manipulation"] \in {"warning", "pass"}
      /\ Passes(DevAndIntelligence(r))
  BY DEF Passes, PassOutcomes, classify_watchlist_decision, Gate, PassFlag
<1>2. /\ r["dev_audit"] # "danger"
      /\ r["dev_flow"] \notin {"unknown", "danger"}
      /\ r["intelligence"] # "danger"
  BY <1>1 DEF Passes, PassOutcomes, DevAndIntelligence
<1>. QED BY <1>1, <1>2

\* A row that passes without a warning has none in any layer that raises the
\* risk level.
LEMMA CleanRow ==
    ASSUME NEW r, classify_watchlist_decision(r) = "WATCHLIST_PASS"
    PROVE  \A l \in RaisesRisk : r[l] # "warning"
<1>1. DevAndIntelligence(r) = "WATCHLIST_PASS"
  BY DEF classify_watchlist_decision, Gate
<1>2. FinalPass(r) = "WATCHLIST_PASS"
  BY <1>1 DEF DevAndIntelligence
<1>. QED BY <1>2 DEF FinalPass

LEMMA RowOf ==
    ASSUME NEW e
    PROVE  /\ Row(e)["market"] = MarketVerdict(e)
           /\ Row(e)["contract"] = ContractVerdict(e)
           /\ Row(e)["liquidity"] = LiquidityVerdict(e)
           /\ Row(e)["wallet"] = WalletVerdict(e)
           /\ Row(e)["cluster"] = ClusterVerdict(e)
           /\ Row(e)["manipulation"] = ManipulationVerdict(e)
           /\ Row(e)["dev_audit"] = DevAuditVerdict(e)
           /\ Row(e)["dev_flow"] = DevFlowVerdict(e)
           /\ Row(e)["intelligence"] = IntelligenceVerdict(e)
  BY DEF Row, Verdict, Layers

\* Every stage of the pipeline writes one of the verdicts that Findings lists
\* for its layer, whatever the evidence is.
THEOREM VerdictsListed ==
    ASSUME NEW e, NEW l \in Layers
    PROVE  Row(e)[l] \in Findings(l)
<1>1. MarketVerdict(e) \in {"danger", "warning", "pass"}
  BY DEF MarketVerdict
<1>2. ContractVerdict(e) \in {"unknown", "danger", "warning", "pass"}
  BY DEF ContractVerdict
<1>3. LiquidityVerdict(e) \in {"unknown", "danger", "warning", "pass"}
  BY DEF LiquidityVerdict
<1>4. WalletVerdict(e) \in {"unknown", "danger", "warning", "pass"}
  BY DEF WalletVerdict
<1>5. ClusterVerdict(e) \in {"unknown", "danger", "warning", "pass"}
  BY DEF ClusterVerdict
<1>6. ManipulationVerdict(e) \in {"unknown", "danger", "warning", "pass"}
  BY DEF ManipulationVerdict
<1>7. DevAuditVerdict(e) \in {"unknown", "danger", "warning", "pass"}
  BY DEF DevAuditVerdict
<1>8. DevFlowVerdict(e) \in {"unknown", "danger", "warning", "pass"}
  BY DEF DevFlowVerdict
<1>9. IntelligenceVerdict(e) \in {"danger", "warning", "pass"}
  BY DEF IntelligenceVerdict
<1>. QED BY <1>1, <1>2, <1>3, <1>4, <1>5, <1>6, <1>7, <1>8, <1>9, RowOf
         DEF Layers, Findings

-----------------------------------------------------------------------------
(***************************************************************************)
(* Silence.                                                                *)
(***************************************************************************)
\* Missing data is never a pass: without an age, a market value, a volume or
\* liquidity, without holders or the means to look at their funders, the
\* decision is to wait or to reject.
THEOREM SilenceDoesNotPass ==
    ASSUME NEW e, IsEvidence(e), IsSilent(e)
    PROVE  ~Passes(Decision(e))
<1>. SUFFICES \/ MarketVerdict(e) = "danger"
              \/ LiquidityVerdict(e) = "unknown"
              \/ WalletVerdict(e) = "unknown"
              \/ ClusterVerdict(e) = "unknown"
  BY PassRow, RowOf DEF Decision
<1>1. CASE e.age = {}
  BY <1>1 DEF MarketVerdict, PassesEarly
<1>2. CASE e.mcap = {} \/ Window(e).volume = {}
  BY <1>2 DEF MarketVerdict, PassesActivity
<1>3. CASE \A l \in e.liquidity : l =< 0
  BY <1>3 DEF LiquidityVerdict, IsEvidence, IsOptional
<1>4. CASE Shares(e) = {}
  BY <1>4 DEF WalletVerdict
<1>5. CASE ~e.configured
  BY <1>5 DEF ClusterVerdict
<1>6. CASE e.funded < 2
  <2>1. e.largest < 2
    BY <1>6 DEF IsEvidence
  <2>2. ClusterHolders(e) \in Nat
    BY DEF IsEvidence, ClusterHolders, Smaller, Owners
  <2>3. ClusterHolders(e) \div 3 \in Int
    BY <2>2
  <2>4. e.funded < Larger(2, ClusterHolders(e) \div 3)
    BY <1>6, <2>3 DEF Larger, IsEvidence
  <2>. QED BY <2>1, <2>4 DEF ClusterVerdict, IsEvidence
<1>. QED BY <1>1, <1>2, <1>3, <1>4, <1>5, <1>6 DEF IsSilent

-----------------------------------------------------------------------------
(***************************************************************************)
(* The insider probability of a token that passes without a warning: no    *)
(* term of the sum can be larger than the last value before its warning.   *)
(***************************************************************************)
LEMMA ClusterTerm ==
    ASSUME NEW e, IsEvidence(e), ClusterVerdict(e) = "pass"
    PROVE  ClusterSize(e) = 0
  BY DEF IsEvidence, ClusterVerdict, ClusterSize

LEMMA ManipulationTerm ==
    ASSUME NEW e, IsEvidence(e), ManipulationVerdict(e) = "pass"
    PROVE  ManipulationPoints(e) \in 0..2
<1>1. Larger(e.largest, e.sponsored) \in Nat
  BY DEF IsEvidence, Larger
<1>2. \A n \in Nat : /\ Points(n, 2, 2, 3, 4) \in Nat
                     /\ Points(n, 2, 1, 4, 3) \in Nat
  BY DEF Points
<1>3. ManipulationPoints(e) \in Nat
  BY <1>1, <1>2 DEF IsEvidence, ManipulationPoints
<1>. QED BY <1>3 DEF ManipulationVerdict

\* The labels that no clean pass has, and the sniper it may have.
LEMMA WalletTerms ==
    ASSUME NEW e, IsEvidence(e), IntelligenceVerdict(e) = "pass"
    PROVE  /\ Count(HolderLabels(e), "SNIPER") \in 0..1
           /\ Count(HolderLabels(e), "FRESH_WALLET") = 0
<1>. DEFINE labels == HolderLabels(e)
<1>1. DOMAIN labels = DOMAIN e.wallets
  BY DEF HolderLabels
<1>2. \A l : Count(labels, l) \in Nat
  <2>. SUFFICES ASSUME NEW l PROVE Count(labels, l) \in Nat
    OBVIOUS
  <2>1. IsFiniteSet({h \in DOMAIN labels : l \in labels[h]})
    BY <1>1, FS_Subset DEF IsEvidence
  <2>. QED BY <2>1, FS_CardinalityType DEF Count
<1>3. ~(Count(labels, "FRESH_WALLET") >= 1) /\ ~(Count(labels, "SNIPER") >= 2)
  BY DEF IntelligenceVerdict
<1>. HIDE DEF labels
<1>4. Count(labels, "SNIPER") \in 0..1 /\ Count(labels, "FRESH_WALLET") = 0
  <2>1. Count(labels, "SNIPER") \in Nat /\ Count(labels, "FRESH_WALLET") \in Nat
    BY <1>2
  <2>. QED BY <1>3, <2>1
<1>. QED BY <1>4 DEF labels

LEMMA DevTerm ==
    ASSUME NEW e, DevAuditVerdict(e) \notin {"warning", "danger"}
    PROVE  DevPoints(e) = 0
<1>1. DevAuditStatus(e) \in {"DEV_UNKNOWN", "DEV_HOLDING"}
  BY DEF DevAuditVerdict
<1>. QED BY <1>1 DEF DevPoints

LEMMA HolderTerm ==
    ASSUME NEW e, IsEvidence(e), WalletVerdict(e) = "pass"
    PROVE  HolderPoints(e) \in 0..2
<1>1. \A s \in Shares(e) : s.top \in Int /\ s.ten \in Int
  BY DEF IsEvidence, Shares
<1>2. \A s \in Shares(e) : s.top < 20 /\ s.ten < 30
  BY <1>1 DEF WalletVerdict
<1>3. ~\E s \in Shares(e) : \/ s.ten >= 80 \/ s.ten >= 60 \/ s.ten >= 40
                            \/ s.ten >= 30 \/ s.top >= 25
  BY <1>1, <1>2
<1>. QED BY <1>3 DEF HolderPoints, Smaller

LEMMA FlowTerm ==
    ASSUME NEW e, IsEvidence(e), DevFlowVerdict(e) = "pass"
    PROVE  ShadowDevScore(e) \in 0..29
<1>1. DevHistory(e, e.flowAnswered).proxies \in Nat
  BY DEF IsEvidence, DevHistory
<1>2. ShadowDevScore(e) \in Nat
  <2>. DEFINE p == DevHistory(e, e.flowAnswered).proxies
  <2>1. \A direct, splits \in {0, 12, 25, 50} :
          Smaller(100, direct + splits + Smaller(50, 45 * p)) \in Nat
    BY <1>1 DEF Smaller
  <2>2. \A direct, splits \in {0, 12, 25, 50} :
          Smaller(100, direct + splits + 0) \in Nat
    BY DEF Smaller
  <2>. QED BY <2>1, <2>2 DEF ShadowDevScore
<1>. QED BY <1>2 DEF DevFlowVerdict

\* A token that passes without any warning has a low insider probability:
\* at most 22.15 of 100, below the 25 at which the level changes.
THEOREM CleanPassesAreLow ==
    ASSUME NEW e, IsEvidence(e), Decision(e) = "WATCHLIST_PASS"
    PROVE  InsiderPoints(e) =< 2215 /\ LevelIsLow(e)
<1>1. /\ ClusterVerdict(e) = "pass" /\ ManipulationVerdict(e) = "pass"
      /\ WalletVerdict(e) = "pass" /\ DevFlowVerdict(e) = "pass"
      /\ IntelligenceVerdict(e) = "pass"
      /\ DevAuditVerdict(e) \notin {"warning", "danger"}
  <2>1. Passes(classify_watchlist_decision(Row(e)))
    BY DEF Decision, Passes, PassOutcomes
  <2>2. \A l \in RaisesRisk : Row(e)[l] # "warning"
    BY CleanRow DEF Decision
  <2>3. \A l \in Layers : Row(e)[l] \in Findings(l)
    BY VerdictsListed
  <2>. QED BY <2>1, <2>2, <2>3, PassRow, RowOf DEF RaisesRisk, Layers, Findings
<1>. DEFINE cluster == AtLeast(Smaller(30, 4 * ClusterSize(e)), ClusterVerdict(e), 14, 24)
            manipulation == AtLeast(Smaller(30, 3 * Smaller(10, ManipulationPoints(e))),
                                    ManipulationVerdict(e), 14, 24)
            sniper == Smaller(20, 4 * Count(HolderLabels(e), "SNIPER"))
            fresh == FreshPoints(Count(HolderLabels(e), "FRESH_WALLET"))
            dev == DevPoints(e)
            holders == HolderPoints(e)
            flow == AtLeast(Smaller(3500, 35 * ShadowDevScore(e)),
                            DevFlowVerdict(e), 1400, 3000)
<1>2. InsiderPoints(e) =
        100 * (cluster + manipulation + sniper + fresh + dev + holders) + flow
  BY Zenon DEF InsiderPoints
<1>3. cluster = 0
  BY <1>1, ClusterTerm DEF AtLeast, Smaller
<1>4. manipulation \in 0..6
  BY <1>1, ManipulationTerm DEF AtLeast, Smaller
<1>5. sniper \in 0..4 /\ fresh = 0
  BY <1>1, WalletTerms DEF Smaller, FreshPoints
<1>6. dev = 0 /\ holders \in 0..2
  BY <1>1, DevTerm, HolderTerm
<1>7. flow \in 0..1015
  BY <1>1, FlowTerm DEF AtLeast, Smaller
<1>. HIDE DEF cluster, manipulation, sniper, fresh, dev, holders, flow
<1>8. 100 * (cluster + manipulation + sniper + fresh + dev + holders) + flow \in 0..2215
  BY <1>3, <1>4, <1>5, <1>6, <1>7
<1>. QED BY <1>2, <1>8 DEF LevelIsLow

-----------------------------------------------------------------------------
(***************************************************************************)
(* The decision, layer by layer.                                           *)
(***************************************************************************)
\* The classification is the first gate that does not lead on.
LEMMA Chain ==
    ASSUME NEW r
    PROVE  classify_watchlist_decision(r) =
             IF r["market"] = "danger" THEN "WATCHLIST_REJECT_MARKET"
             ELSE IF r["contract"] \in {"none", "unknown"} THEN "WATCHLIST_WAIT_SECURITY_DATA"
             ELSE IF ~PassFlag(r["contract"]) THEN "WATCHLIST_REJECT_CONTRACT_RISK"
             ELSE IF r["liquidity"] \in {"none", "unknown"} THEN "WATCHLIST_WAIT_LIQUIDITY"
             ELSE IF ~PassFlag(r["liquidity"]) THEN "WATCHLIST_REJECT_LIQUIDITY"
             ELSE IF r["wallet"] \in {"none", "unknown"} THEN "WATCHLIST_WAIT_WALLET_DATA"
             ELSE IF ~PassFlag(r["wallet"]) THEN "WATCHLIST_REJECT_WALLET_RISK"
             ELSE IF r["cluster"] \in {"none", "unknown"} THEN "WATCHLIST_WAIT_CLUSTER_DATA"
             ELSE IF ~PassFlag(r["cluster"]) THEN "WATCHLIST_REJECT_CLUSTER_RISK"
             ELSE IF r["manipulation"] \in {"none", "unknown"}
             THEN "WATCHLIST_WAIT_MANIPULATION_DATA"
             ELSE IF ~PassFlag(r["manipulation"]) THEN "WATCHLIST_REJECT_WALLET_MANIPULATION"
             ELSE DevAndIntelligence(r)
  BY DEF classify_watchlist_decision, Gate

\* What each layer of a row may hold.
LEMMA RowValues ==
    ASSUME NEW r, IsRow(r)
    PROVE  /\ r["market"] \in {"danger", "warning", "pass"}
           /\ \A l \in MustAnswer : r[l] \in {"none", "unknown", "danger", "warning", "pass"}
           /\ r["dev_audit"] \in {"none", "unknown", "danger", "warning", "pass"}
           /\ r["dev_flow"] \in {"none", "unknown", "danger", "warning", "pass"}
           /\ r["intelligence"] \in {"none", "danger", "warning", "pass"}
  BY DEF IsRow, Findings, Layers, MustAnswer, Verdicts

\* A pass needs the answers of the five layers that must answer and no danger
\* in any of the nine, whatever row the stages leave (classify_watchlist_decision).
THEOREM PassesAreAnswered == ASSUME NEW r PROVE PassIsAnswered(r)
<1>. SUFFICES ASSUME Passes(classify_watchlist_decision(r))
              PROVE  /\ \A l \in MustAnswer : PassFlag(r[l])
                     /\ \A l \in Layers : r[l] # "danger"
  BY DEF PassIsAnswered
<1>. QED BY PassRow DEF MustAnswer, Layers, PassFlag

\* Without an objection before the developer's layers, those decide.
LEMMA LateLayers ==
    ASSUME NEW r, IsRow(r), r["market"] # "danger", \A l \in MustAnswer : ~Objects(r, l)
    PROVE  classify_watchlist_decision(r) = DevAndIntelligence(r)
  BY Chain, RowValues DEF Objects, MustAnswer, PassFlag

\* The final pass lets a row through: every layer that is asked has answered.
LEMMA FinalPasses ==
    ASSUME NEW r, IsRow(r), \A l \in Layers : ~Objects(r, l)
    PROVE  Passes(FinalPass(r))
<1>1. \A l \in MustAnswer : r[l] \in {"warning", "pass"}
  BY RowValues DEF Objects, Layers, MustAnswer
<1>2. r["market"] \in {"warning", "pass"}
  BY RowValues DEF Objects, Layers
<1>. QED BY <1>1, <1>2 DEF FinalPass, Passes, PassOutcomes, PassFlag, MustAnswer, RaisesRisk, Layers

\* The decision names the first layer that objects, in the documented order,
\* and a row without objections passes: WATCHLIST_REVIEW is never the outcome
\* (classify_watchlist_decision).
THEOREM FirstObjectionIsNamed == ASSUME NEW r, IsRow(r) PROVE FirstObjectionNamed(r)
<1>. DEFINE c == classify_watchlist_decision(r)
            First(l) == IsFirstObjection(r, l)
<1>1. CASE Objects(r, "market")
  <2>1. c \in OutcomesOf["market"]
    BY <1>1, Chain, RowValues DEF Objects, OutcomesOf, MustAnswer
  <2>2. First("market")
    BY <1>1 DEF IsFirstObjection, Position, Layers
  <2>. QED BY <2>1, <2>2 DEF FirstObjectionNamed, Layers
<1>2. CASE ~Objects(r, "market") /\ Objects(r, "contract")
  <2>1. c \in OutcomesOf["contract"]
    BY <1>2, Chain, RowValues DEF Objects, OutcomesOf, MustAnswer, PassFlag
  <2>2. First("contract")
    BY <1>2 DEF IsFirstObjection, Position, Layers
  <2>. QED BY <2>1, <2>2 DEF FirstObjectionNamed, Layers
<1>3. CASE /\ ~Objects(r, "market") /\ ~Objects(r, "contract") /\ Objects(r, "liquidity")
  <2>1. c \in OutcomesOf["liquidity"]
    BY <1>3, Chain, RowValues DEF Objects, OutcomesOf, MustAnswer, PassFlag
  <2>2. First("liquidity")
    BY <1>3 DEF IsFirstObjection, Position, Layers
  <2>. QED BY <2>1, <2>2 DEF FirstObjectionNamed, Layers
<1>4. CASE /\ ~Objects(r, "market") /\ ~Objects(r, "contract") /\ ~Objects(r, "liquidity")
           /\ Objects(r, "wallet")
  <2>1. c \in OutcomesOf["wallet"]
    BY <1>4, Chain, RowValues DEF Objects, OutcomesOf, MustAnswer, PassFlag
  <2>2. First("wallet")
    BY <1>4 DEF IsFirstObjection, Position, Layers
  <2>. QED BY <2>1, <2>2 DEF FirstObjectionNamed, Layers
<1>5. CASE /\ ~Objects(r, "market") /\ ~Objects(r, "contract") /\ ~Objects(r, "liquidity")
           /\ ~Objects(r, "wallet") /\ Objects(r, "cluster")
  <2>1. c \in OutcomesOf["cluster"]
    BY <1>5, Chain, RowValues DEF Objects, OutcomesOf, MustAnswer, PassFlag
  <2>2. First("cluster")
    BY <1>5 DEF IsFirstObjection, Position, Layers
  <2>. QED BY <2>1, <2>2 DEF FirstObjectionNamed, Layers
<1>6. CASE /\ ~Objects(r, "market") /\ ~Objects(r, "contract") /\ ~Objects(r, "liquidity")
           /\ ~Objects(r, "wallet") /\ ~Objects(r, "cluster") /\ Objects(r, "manipulation")
  <2>1. c \in OutcomesOf["manipulation"]
    BY <1>6, Chain, RowValues DEF Objects, OutcomesOf, MustAnswer, PassFlag
  <2>2. First("manipulation")
    BY <1>6 DEF IsFirstObjection, Position, Layers
  <2>. QED BY <2>1, <2>2 DEF FirstObjectionNamed, Layers
<1>7. CASE ~Objects(r, "market") /\ \A l \in MustAnswer : ~Objects(r, l)
  <2>. DEFINE Before == {"market", "contract", "liquidity", "wallet", "cluster", "manipulation"}
  <2>1. c = DevAndIntelligence(r) /\ \A l \in Before : ~Objects(r, l)
    BY <1>7, LateLayers DEF Objects, MustAnswer
  <2>2. CASE Objects(r, "dev_audit")
    <3>1. c \in OutcomesOf["dev_audit"]
      BY <2>1, <2>2 DEF DevAndIntelligence, Objects, OutcomesOf, MustAnswer
    <3>2. First("dev_audit")
      BY <2>1, <2>2 DEF IsFirstObjection, Position, Layers
    <3>. QED BY <3>1, <3>2 DEF FirstObjectionNamed, Layers
  <2>3. CASE ~Objects(r, "dev_audit") /\ Objects(r, "dev_flow")
    <3>1. c \in OutcomesOf["dev_flow"]
      BY <2>1, <2>3 DEF DevAndIntelligence, Objects, OutcomesOf, MustAnswer
    <3>2. First("dev_flow")
      BY <2>1, <2>3 DEF IsFirstObjection, Position, Layers
    <3>. QED BY <3>1, <3>2 DEF FirstObjectionNamed, Layers
  <2>4. CASE ~Objects(r, "dev_audit") /\ ~Objects(r, "dev_flow") /\ Objects(r, "intelligence")
    <3>1. c \in OutcomesOf["intelligence"]
      BY <2>1, <2>4 DEF DevAndIntelligence, Objects, OutcomesOf, MustAnswer
    <3>2. First("intelligence")
      BY <2>1, <2>4 DEF IsFirstObjection, Position, Layers
    <3>. QED BY <3>1, <3>2 DEF FirstObjectionNamed, Layers
  <2>5. CASE ~Objects(r, "dev_audit") /\ ~Objects(r, "dev_flow") /\ ~Objects(r, "intelligence")
    <3>1. \A l \in Layers : ~Objects(r, l)
      BY <2>1, <2>5 DEF Layers
    <3>2. c = FinalPass(r)
      BY <2>1, <2>5 DEF DevAndIntelligence, Objects, MustAnswer
    <3>. QED BY <3>1, <3>2, FinalPasses DEF FirstObjectionNamed
  <2>. QED BY <2>2, <2>3, <2>4, <2>5
<1>. QED BY <1>1, <1>2, <1>3, <1>4, <1>5, <1>6, <1>7 DEF MustAnswer

\* When a row passes, the outcome is that of the final pass, and the same holds
\* of a row that differs in a "pass" instead of a "warning".
LEMMA PassesAsFinal ==
    ASSUME NEW r, Passes(classify_watchlist_decision(r))
    PROVE  classify_watchlist_decision(r) = FinalPass(r)
<1>1. classify_watchlist_decision(r) = DevAndIntelligence(r)
  BY Chain DEF Passes, PassOutcomes
<1>. QED BY <1>1 DEF DevAndIntelligence, Passes, PassOutcomes

LEMMA CautionOf ==
    ASSUME NEW o
    PROVE  /\ Caution(o) \in {0, 1, 2}
           /\ ~Passes(o) => Caution(o) = 2
           /\ o = "WATCHLIST_PASS" => Caution(o) = 0
           /\ o = "WATCHLIST_PASS_HIGH_RISK" => Caution(o) = 1
  BY DEF Caution, Passes, PassOutcomes

\* A worse finding in one layer, or a lost answer of a layer that must have
\* one, never makes the decision less cautious (classify_watchlist_decision).
THEOREM WorseningNeverRescues ==
    ASSUME NEW r, IsRow(r), NEW l \in Layers, NEW w, WorseFinding(l, r[l], w)
    PROVE  Caution(classify_watchlist_decision(r)) =<
              Caution(classify_watchlist_decision([r EXCEPT ![l] = w]))
<1>. DEFINE s == [r EXCEPT ![l] = w]
            a == classify_watchlist_decision(r)
            b == classify_watchlist_decision(s)
<1>. SUFFICES Caution(a) =< Caution(b)
  OBVIOUS
<1>1. s[l] = w /\ \A k \in Layers \ {l} : s[k] = r[k]
  BY DEF IsRow
<1>2. CASE ~Passes(b)
  <2>1. Caution(b) = 2 /\ Caution(a) \in {0, 1, 2}
    BY <1>2, CautionOf
  <2>. HIDE DEF a, b
  <2>. QED BY <2>1
<1>3. CASE Passes(b)
  <2>1. r[l] = "pass" /\ w = "warning"
    <3>1. w # "danger"
      BY <1>1, <1>3, PassesAreAnswered DEF PassIsAnswered
    <3>2. l \in MustAnswer => w \notin {"none", "unknown"}
      BY <1>1, <1>3, PassesAreAnswered DEF PassIsAnswered, PassFlag
    <3>. QED BY <3>1, <3>2 DEF WorseFinding
  <2>2. b = FinalPass(s)
    BY <1>3, PassesAsFinal
  <2>3. /\ s["market"] # "danger"
        /\ \A k \in MustAnswer : s[k] \in {"warning", "pass"}
        /\ s["dev_audit"] # "danger"
        /\ s["dev_flow"] \notin {"unknown", "danger"}
        /\ s["intelligence"] # "danger"
    BY <1>3, PassRow DEF MustAnswer
  <2>. HIDE DEF s
  <2>4. /\ r["market"] # "danger"
        /\ \A k \in MustAnswer : r[k] \in {"warning", "pass"}
        /\ r["dev_audit"] # "danger"
        /\ r["dev_flow"] \notin {"unknown", "danger"}
        /\ r["intelligence"] # "danger"
    BY <1>1, <2>1, <2>3 DEF MustAnswer, Layers
  <2>5. a = FinalPass(r)
    BY <2>4, Chain DEF DevAndIntelligence, MustAnswer, PassFlag
  <2>6. CASE l \in RaisesRisk
    <3>1. b = "WATCHLIST_PASS_HIGH_RISK"
      BY <2>6, <1>1, <2>1, <2>2 DEF FinalPass
    <3>2. a \in {"WATCHLIST_PASS", "WATCHLIST_PASS_HIGH_RISK"}
      <4>1. r["market"] \in {"warning", "pass"}
        BY <2>4, RowValues
      <4>. QED BY <2>4, <2>5, <4>1 DEF FinalPass, MustAnswer, PassFlag, RaisesRisk, Layers
    <3>3. Caution(b) = 1 /\ Caution(a) \in {0, 1}
      BY <3>1, <3>2, CautionOf
    <3>. HIDE DEF a, b
    <3>. QED BY <3>3
  <2>7. CASE l \notin RaisesRisk
    <3>1. l = "contract"
      BY <2>7 DEF RaisesRisk, Layers
    <3>2. \A k \in Layers : k # "contract" => s[k] = r[k]
      BY <3>1, <1>1
    <3>3. FinalPass(s) = FinalPass(r)
      BY <3>2, <2>3, <2>4 DEF FinalPass, PassFlag, MustAnswer, RaisesRisk, Layers
    <3>4. Caution(b) = Caution(a) /\ Caution(a) \in {0, 1, 2}
      BY <3>3, <2>2, <2>5, CautionOf
    <3>. HIDE DEF a, b
    <3>. QED BY <3>4
  <2>. QED BY <2>6, <2>7
<1>. QED BY <1>2, <1>3

-----------------------------------------------------------------------------
(***************************************************************************)
(* Better and worse: every order below is on the facts alone, and says when*)
(* d has nothing that speaks for the token more than e does.               *)
(***************************************************************************)
\* A number that is missing stays so, and one that is known does not grow.
Sinks(x, y) == (x = {} <=> y = {}) /\ \A b \in x, a \in y : a =< b

\* A price that has risen much makes a fall count: h1 sinks from below that mark.
PriceNoBetter(e, d) ==
    /\ d.age = e.age /\ d.mcap = e.mcap
    /\ d.trades5 = e.trades5 /\ d.trades1 = e.trades1
    /\ d.volume5 = e.volume5 /\ d.volume1 = e.volume1
    /\ Sinks(e.m5, d.m5)
    /\ d.h1 = e.h1 \/ (Sinks(e.h1, d.h1) /\ \A x \in e.h1 : x < 100)
    /\ d.liquidity = {} \/ Sinks(e.liquidity, d.liquidity)

Lower(s, t) == /\ s.top =< t.top /\ s.ten =< t.ten
               /\ s.twenty =< t.twenty /\ s.held =< t.held

\* Less of the liquidity is locked.
LockNoBetter(x, y) ==
    \/ x = y
    \/ \E a, b \in Int : b =< a /\ x = LpLock({a}, FALSE) /\ y = LpLock({b}, FALSE)

ReportNoBetter(e, d) ==
    /\ d.answered => e.answered
    /\ Stated0(e.totals.supply) => Stated0(d.totals.supply)
    /\ Stated0(e.totals.cap) => Stated0(d.totals.cap)
    /\ Stated0(e.totals.holders) => Stated0(d.totals.holders)
    /\ e.mint => d.mint
    /\ e.freeze => d.freeze
    /\ e.risks \subseteq d.risks
    /\ d.owners = e.owners \/ d.owners = 0
    /\ d.shares # {} => e.shares # {}
    /\ \A s \in e.shares, t \in d.shares : Lower(s, t)
    /\ LockNoBetter(e.lp, d.lp)
    /\ d.dev => e.dev
    /\ d.balance =< e.balance

HoldersNoBetter(e, d) ==
    /\ d.configured => e.configured
    /\ d.funded =< e.funded
    /\ e.largest =< d.largest /\ e.sponsored =< d.sponsored
    /\ e.distributed =< d.distributed /\ e.linked =< d.linked /\ e.dumped =< d.dumped

\* Sales are worse where the audit hears of them; to the flow stage alone they
\* only make what the developer had at first larger.
DevNoBetter(e, d) ==
    /\ d.auditAnswered = e.auditAnswered /\ d.flowAnswered = e.flowAnswered
    /\ d.bought = e.bought /\ d.moved = e.moved
    /\ d.sold = e.sold \/ (e.sold =< d.sold /\ e.auditAnswered)
    /\ e.direct =< d.direct
    /\ e.splitters =< d.splitters /\ e.proxies =< d.proxies

\* A wallet has the labels it had, SMART_WALLET aside, and no better score.
Suspects(w) == WalletLabels(w) \ {"SMART_WALLET"}

WalletsNoBetter(e, d) ==
    /\ DOMAIN d.wallets = DOMAIN e.wallets
    /\ d.wallets = << >> => e.wallets = << >>
    /\ \A h \in DOMAIN e.wallets :
          \/ d.wallets[h] = e.wallets[h]
          \/ /\ Suspects(Fetched(e, e.wallets[h])) \subseteq Suspects(Fetched(d, d.wallets[h]))
             /\ WalletScore(Fetched(d, d.wallets[h])) =< WalletScore(Fetched(e, e.wallets[h]))

NoBetter(e, d) ==
    /\ PriceNoBetter(e, d) /\ ReportNoBetter(e, d) /\ HoldersNoBetter(e, d)
    /\ DevNoBetter(e, d) /\ WalletsNoBetter(e, d)

-----------------------------------------------------------------------------
\* What is a dump stays one.
LEMMA DumpWorse ==
    ASSUME NEW e, NEW d, IsEvidence(e), IsEvidence(d), PriceNoBetter(e, d), DumpRisk(e)
    PROVE  DumpRisk(d)
<1>1. /\ IsOptional(e.m5) /\ IsOptional(d.m5) /\ IsOptional(e.h1) /\ IsOptional(d.h1)
  BY DEF IsEvidence
<1>2. ASSUME NEW k \in Int, \E x \in e.m5 : x =< k PROVE \E x \in d.m5 : x =< k
  BY <1>1, <1>2 DEF PriceNoBetter, Sinks, IsOptional
<1>3. CASE \E x \in e.m5 : x =< -20
  <2>1. \E x \in d.m5 : x =< -20
    BY <1>2, <1>3
  <2>. QED BY <2>1 DEF DumpRisk
<1>4. CASE \E x \in e.h1 : x =< -40
  <2>1. \E x \in d.h1 : x =< -40
    BY <1>1, <1>4 DEF PriceNoBetter, Sinks, IsOptional
  <2>. QED BY <2>1 DEF DumpRisk
<1>5. CASE (\E x \in e.h1 : x >= 100) /\ (\E x \in e.m5 : x =< -15)
  <2>1. \E x \in d.m5 : x =< -15
    BY <1>2, <1>5
  <2>2. d.h1 = e.h1
    BY <1>1, <1>5 DEF PriceNoBetter, IsOptional
  <2>. QED BY <2>1, <2>2, <1>5 DEF DumpRisk
<1>. QED BY <1>3, <1>4, <1>5 DEF DumpRisk, PriceNoBetter

\* The warnings of the market, one by one.
LEMMA WarningsAre ==
    ASSUME NEW e, NEW x
    PROVE  x \in MarketWarnings(e) <=>
             \/ x = "1H_PRICE_WEAKNESS" /\ (\E y \in e.h1 : y =< -20)
             \/ x = "5M_SHORT_TERM_WEAKNESS" /\ (\E y \in e.m5 : y =< -10)
             \/ x = "EXTREME_VOLUME_TO_MCAP" /\ (VolumeToMcapOver(e, 10))
             \/ x = "VERY_EXTREME_VOLUME_TO_MCAP" /\ (VolumeToMcapOver(e, 20))
             \/ x = "LIQUIDITY_UNKNOWN_OR_LOW" /\ (\A y \in e.liquidity : y < 5000)
             \/ x = "MICRO_MARKET_CAP" /\ (\E y \in e.mcap : y < 5000)
<1>. DEFINE W1 == When(\E y \in e.h1 : y =< -20, "1H_PRICE_WEAKNESS")
            W2 == When(\E y \in e.m5 : y =< -10, "5M_SHORT_TERM_WEAKNESS")
            W3 == When(VolumeToMcapOver(e, 10), "EXTREME_VOLUME_TO_MCAP")
            W4 == When(VolumeToMcapOver(e, 20), "VERY_EXTREME_VOLUME_TO_MCAP")
            W5 == When(\A y \in e.liquidity : y < 5000, "LIQUIDITY_UNKNOWN_OR_LOW")
            W6 == When(\E y \in e.mcap : y < 5000, "MICRO_MARKET_CAP")
<1>1. x \in MarketWarnings(e) <=>
        x \in W1 \/ x \in W2 \/ x \in W3 \/ x \in W4 \/ x \in W5 \/ x \in W6
  BY Zenon DEF MarketWarnings
<1>2. x \in W1 <=> x = "1H_PRICE_WEAKNESS" /\ (\E y \in e.h1 : y =< -20)
  BY DEF When
<1>3. x \in W2 <=> x = "5M_SHORT_TERM_WEAKNESS" /\ (\E y \in e.m5 : y =< -10)
  BY DEF When
<1>4. x \in W3 <=> x = "EXTREME_VOLUME_TO_MCAP" /\ (VolumeToMcapOver(e, 10))
  BY DEF When
<1>5. x \in W4 <=> x = "VERY_EXTREME_VOLUME_TO_MCAP" /\ (VolumeToMcapOver(e, 20))
  BY DEF When
<1>6. x \in W5 <=> x = "LIQUIDITY_UNKNOWN_OR_LOW" /\ (\A y \in e.liquidity : y < 5000)
  BY DEF When
<1>7. x \in W6 <=> x = "MICRO_MARKET_CAP" /\ (\E y \in e.mcap : y < 5000)
  BY DEF When
<1>. HIDE DEF W1, W2, W3, W4, W5, W6
<1>. QED BY <1>1, <1>2, <1>3, <1>4, <1>5, <1>6, <1>7

\* They can be counted.
LEMMA WarningsFinite == ASSUME NEW e PROVE IsFiniteSet(MarketWarnings(e))
<1>. DEFINE few == {"1H_PRICE_WEAKNESS", "5M_SHORT_TERM_WEAKNESS", "EXTREME_VOLUME_TO_MCAP"}
            more == {"VERY_EXTREME_VOLUME_TO_MCAP", "LIQUIDITY_UNKNOWN_OR_LOW",
                     "MICRO_MARKET_CAP"}
<1>1. MarketWarnings(e) \subseteq few \cup more
  BY WarningsAre
<1>2. \A a, b, c : IsFiniteSet({a, b, c})
  <2>. SUFFICES ASSUME NEW a, NEW b, NEW c PROVE IsFiniteSet({a, b, c})
    OBVIOUS
  <2>1. IsFiniteSet({a}) /\ IsFiniteSet({a} \cup {b})
    BY FS_Singleton, FS_AddElement
  <2>2. IsFiniteSet(({a} \cup {b}) \cup {c})
    BY <2>1, FS_AddElement
  <2>3. ({a} \cup {b}) \cup {c} = {a, b, c}
    OBVIOUS
  <2>. QED BY <2>2, <2>3
<1>3. IsFiniteSet(few) /\ IsFiniteSet(more)
  BY <1>2
<1>. HIDE DEF few, more
<1>. QED BY <1>1, <1>3, FS_Union, FS_Subset

\* No warning goes away.
LEMMA WarningsWorse ==
    ASSUME NEW e, NEW d, IsEvidence(e), IsEvidence(d), PriceNoBetter(e, d)
    PROVE  MarketWarnings(e) \subseteq MarketWarnings(d)
<1>1. /\ IsOptional(e.m5) /\ IsOptional(d.m5) /\ IsOptional(e.h1) /\ IsOptional(d.h1)
      /\ IsOptional(e.liquidity) /\ IsOptional(d.liquidity)
  BY DEF IsEvidence
<1>2. (\E x \in e.h1 : x =< -20) => (\E x \in d.h1 : x =< -20)
  BY <1>1 DEF PriceNoBetter, Sinks, IsOptional
<1>3. (\E x \in e.m5 : x =< -10) => (\E x \in d.m5 : x =< -10)
  BY <1>1 DEF PriceNoBetter, Sinks, IsOptional
<1>4. /\ VolumeToMcapOver(e, 10) => VolumeToMcapOver(d, 10)
      /\ VolumeToMcapOver(e, 20) => VolumeToMcapOver(d, 20)
  BY DEF PriceNoBetter, VolumeToMcapOver, Window
<1>5. (\A x \in e.liquidity : x < 5000) => (\A x \in d.liquidity : x < 5000)
  BY <1>1 DEF PriceNoBetter, Sinks, IsOptional
<1>6. (\E x \in e.mcap : x < 5000) => (\E x \in d.mcap : x < 5000)
  BY DEF PriceNoBetter
<1>. QED BY <1>2, <1>3, <1>4, <1>5, <1>6, WarningsAre

\* The market filter is not milder.
LEMMA MarketWorse ==
    ASSUME NEW e, NEW d, IsEvidence(e), IsEvidence(d), PriceNoBetter(e, d),
           MarketVerdict(d) # "danger"
    PROVE  /\ MarketVerdict(e) # "danger"
           /\ MarketVerdict(e) = "warning" => MarketVerdict(d) = "warning"
<1>1. ~DumpRisk(e)
  BY DumpWorse DEF MarketVerdict
<1>2. PassesEarly(e) /\ PassesActivity(e)
  BY DEF MarketVerdict, PassesEarly, PassesActivity, Window, PriceNoBetter
<1>3. Cardinality(MarketWarnings(e)) =< Cardinality(MarketWarnings(d))
      /\ Cardinality(MarketWarnings(e)) \in Nat /\ Cardinality(MarketWarnings(d)) \in Nat
  <2>3. IsFiniteSet(MarketWarnings(d))
    BY WarningsFinite
  <2>4. MarketWarnings(e) \subseteq MarketWarnings(d)
    BY WarningsWorse
  <2>5. /\ IsFiniteSet(MarketWarnings(e))
        /\ Cardinality(MarketWarnings(e)) =< Cardinality(MarketWarnings(d))
    BY <2>3, <2>4, FS_Subset
  <2>. QED BY <2>3, <2>5, FS_CardinalityType
<1>. QED BY <1>1, <1>2, <1>3 DEF MarketVerdict

-----------------------------------------------------------------------------
\* A wallet verdict needs the owners and their shares, in e as in d.
LEMMA SharesKnown ==
    ASSUME NEW e, NEW d, IsEvidence(e), IsEvidence(d), ReportNoBetter(e, d),
           WalletVerdict(d) # "unknown"
    PROVE  /\ e.answered /\ d.answered /\ d.owners = e.owners /\ e.owners > 0
           /\ Shares(e) = e.shares /\ Shares(d) = d.shares
           /\ e.shares # {} /\ d.shares # {}
<1>1. Shares(d) # {}
  BY DEF WalletVerdict
<1>2. d.answered /\ d.owners > 0 /\ d.shares # {} /\ Shares(d) = d.shares
  BY <1>1 DEF Shares
<1>3. e.answered /\ e.shares # {} /\ d.owners = e.owners
  BY <1>2 DEF ReportNoBetter
<1>. QED BY <1>2, <1>3 DEF Shares

\* The contract stage is not milder.
LEMMA ContractWorse ==
    ASSUME NEW e, NEW d, IsEvidence(e), IsEvidence(d), ReportNoBetter(e, d),
           WalletVerdict(d) # "unknown", ContractVerdict(d) \in {"warning", "pass"}
    PROVE  /\ ContractVerdict(e) \in {"warning", "pass"}
<1>1. /\ e.answered /\ d.answered /\ d.owners = e.owners
      /\ Shares(e) = e.shares /\ Shares(d) = d.shares /\ d.shares # {}
  BY SharesKnown
<1>2. ~HasNoData(e)
  <2>1. ~HasNoData(d)
    BY <1>1 DEF ContractVerdict
  <2>. QED BY <1>1, <2>1 DEF HasNoData, ReportNoBetter
<1>3. ~d.mint /\ ~d.freeze /\ ~(\E s \in d.shares : s.held >= 50) /\ "critical" \notin d.risks
  BY <1>1 DEF ContractVerdict
<1>4. ~\E s \in e.shares : s.held >= 50
  <2>. SUFFICES ASSUME NEW s \in e.shares, s.held >= 50 PROVE FALSE
    OBVIOUS
  <2>1. PICK t \in d.shares : TRUE
    BY <1>1
  <2>2. s.held =< t.held /\ s.held \in Int /\ t.held \in Int
    BY DEF ReportNoBetter, Lower, IsEvidence
  <2>. QED BY <1>3, <2>2
<1>. QED BY <1>1, <1>2, <1>3, <1>4 DEF ContractVerdict, ReportNoBetter

\* Neither is the distribution of the holders.
LEMMA WalletWorse ==
    ASSUME NEW e, NEW d, IsEvidence(e), IsEvidence(d), ReportNoBetter(e, d),
           WalletVerdict(d) \in {"warning", "pass"}
    PROVE  /\ WalletVerdict(e) \in {"warning", "pass"}
           /\ WalletVerdict(e) = "warning" => WalletVerdict(d) = "warning"
<1>1. /\ Shares(e) = e.shares /\ Shares(d) = d.shares
      /\ e.shares # {} /\ d.shares # {}
  BY SharesKnown
<1>2. PICK t \in d.shares : TRUE
  BY <1>1
<1>3. \A s \in e.shares : /\ s.top =< t.top /\ s.ten =< t.ten /\ s.twenty =< t.twenty
                         /\ s.top \in Int /\ s.ten \in Int /\ s.twenty \in Int
  BY DEF ReportNoBetter, Lower, IsEvidence
<1>4. t.top \in Int /\ t.ten \in Int /\ t.twenty \in Int
  BY DEF IsEvidence
<1>5. ~(t.top >= 20 \/ t.ten >= 50 \/ t.twenty >= 70)
  BY <1>1 DEF WalletVerdict
<1>6. ~\E s \in e.shares : s.top >= 20 \/ s.ten >= 50 \/ s.twenty >= 70
  BY <1>3, <1>4, <1>5
<1>7. (\E s \in e.shares : s.ten >= 30) => (\E s \in d.shares : s.ten >= 30)
  BY <1>3, <1>4
<1>. QED BY <1>1, <1>6, <1>7 DEF WalletVerdict

-----------------------------------------------------------------------------
\* The points of a lock that says a share.
LEMMA LockPoints ==
    ASSUME NEW e, NEW a \in Int, Lock(e) = LpLock({a}, FALSE)
    PROVE  LpLockPoints(e) =
             IF a >= 95 THEN 0 ELSE IF a >= 70 THEN 4 ELSE IF a < 50 THEN 22 ELSE 10
<1>1. /\ (\E k \in Lock(e) : k.burned \/ \E x \in k.pct : x >= 95) <=> a >= 95
      /\ (\E k \in Lock(e) : \E x \in k.pct : x >= 70) <=> a >= 70
      /\ (\E k \in Lock(e) : \E x \in k.pct : x < 50) <=> a < 50
  BY DEF LpLock
<1>. QED BY <1>1 DEF LpLockPoints

\* A lock that holds less has no fewer points.
LEMMA LockWorse ==
    ASSUME NEW e, NEW d, ReportNoBetter(e, d), e.answered, d.answered
    PROVE  /\ LpLockPoints(e) \in Nat /\ LpLockPoints(d) \in Nat
           /\ LpLockPoints(e) =< LpLockPoints(d)
<1>1. CASE e.lp = d.lp
  <2>1. LpLockPoints(e) = LpLockPoints(d)
    BY <1>1 DEF LpLockPoints, Lock
  <2>2. LpLockPoints(e) \in {0, 4, 10, 22}
    BY Zenon DEF LpLockPoints
  <2>. QED BY <2>1, <2>2
<1>2. ASSUME NEW a \in Int, NEW b \in Int, b =< a,
             e.lp = LpLock({a}, FALSE), d.lp = LpLock({b}, FALSE)
      PROVE  /\ LpLockPoints(e) \in Nat /\ LpLockPoints(d) \in Nat
             /\ LpLockPoints(e) =< LpLockPoints(d)
  <2>1. Lock(e) = LpLock({a}, FALSE) /\ Lock(d) = LpLock({b}, FALSE)
    BY <1>2 DEF Lock
  <2>2. LpLockPoints(e) = IF a >= 95 THEN 0 ELSE IF a >= 70 THEN 4 ELSE IF a < 50 THEN 22 ELSE 10
    BY <2>1, LockPoints
  <2>3. LpLockPoints(d) = IF b >= 95 THEN 0 ELSE IF b >= 70 THEN 4 ELSE IF b < 50 THEN 22 ELSE 10
    BY <2>1, LockPoints
  <2>. QED BY <1>2, <2>2, <2>3
<1>3. CASE \E a, b \in Int : b =< a /\ e.lp = LpLock({a}, FALSE) /\ d.lp = LpLock({b}, FALSE)
  <2>1. PICK a \in Int, b \in Int : b =< a /\ e.lp = LpLock({a}, FALSE) /\ d.lp = LpLock({b}, FALSE)
    BY <1>3
  <2>. QED BY <1>2, <2>1
<1>. QED BY <1>1, <1>3 DEF ReportNoBetter, LockNoBetter

\* The liquidity stage is not milder: each term of the trap score grows.
LEMMA LiquidityWorse ==
    ASSUME NEW e, NEW d, IsEvidence(e), IsEvidence(d), PriceNoBetter(e, d),
           ReportNoBetter(e, d), e.answered, d.answered,
           LiquidityVerdict(d) \in {"warning", "pass"}
    PROVE  /\ LiquidityVerdict(e) \in {"warning", "pass"}
           /\ LiquidityVerdict(e) = "warning" => LiquidityVerdict(d) = "warning"
<1>1. IsOptional(e.liquidity) /\ IsOptional(d.liquidity)
  BY DEF IsEvidence
<1>2. PICK y \in d.liquidity : y > 0
  BY DEF LiquidityVerdict
<1>3. PICK x \in e.liquidity : y =< x
  BY <1>2 DEF PriceNoBetter, Sinks
<1>4. x \in Int /\ y \in Int /\ e.liquidity = {x} /\ d.liquidity = {y}
  BY <1>1, <1>2, <1>3 DEF IsOptional
<1>5. \A v \in e.mcap \cup e.volume1 : v \in Int
  BY DEF IsEvidence, IsOptional
<1>6. d.mcap = e.mcap /\ d.volume1 = e.volume1
  BY DEF PriceNoBetter
<1>7. /\ Over(e.mcap, 5, e) => Over(e.mcap, 5, d)
      /\ Over(e.mcap, 10, e) => Over(e.mcap, 10, d)
      /\ Over(e.mcap, 20, e) => Over(e.mcap, 20, d)
      /\ Over(e.volume1, 10, e) => Over(e.volume1, 10, d)
      /\ Over(e.volume1, 20, e) => Over(e.volume1, 20, d)
  <2>1. \A v \in Int : /\ v > 5 * x => v > 5 * y
                       /\ v > 10 * x => v > 10 * y
                       /\ v > 20 * x => v > 20 * y
    BY <1>3, <1>4
  <2>. QED BY <1>4, <1>5, <2>1 DEF Over
<1>. DEFINE depth(z) == IF z < 3000 THEN 35 ELSE IF z < 10000 THEN 22
                        ELSE IF z < 25000 THEN 10 ELSE 0
            mcap(f) == IF Over(e.mcap, 20, f) THEN 35 ELSE IF Over(e.mcap, 10, f) THEN 24
                       ELSE IF Over(e.mcap, 5, f) THEN 12 ELSE 0
            volume(f) == IF Over(e.volume1, 20, f) THEN 20
                         ELSE IF Over(e.volume1, 10, f) THEN 12 ELSE 0
<1>8. /\ TrapScore(e) = Smaller(100, depth(x) + mcap(e) + volume(e) + LpLockPoints(e))
      /\ TrapScore(d) = Smaller(100, depth(y) + mcap(d) + volume(d) + LpLockPoints(d))
  <2>1. \A z \in Int : /\ (\E l \in e.liquidity : l < z) <=> x < z
                       /\ (\E l \in d.liquidity : l < z) <=> y < z
    BY <1>4
  <2>. QED BY <1>6, <2>1 DEF TrapScore
<1>9. depth(x) \in Nat /\ depth(y) \in Nat /\ depth(x) =< depth(y)
  BY <1>3, <1>4
<1>10. mcap(e) \in Nat /\ mcap(d) \in Nat /\ mcap(e) =< mcap(d)
  BY <1>7
<1>11. volume(e) \in Nat /\ volume(d) \in Nat /\ volume(e) =< volume(d)
  BY <1>7
<1>. HIDE DEF depth, mcap, volume
<1>12. TrapScore(e) \in Nat /\ TrapScore(d) \in Nat /\ TrapScore(e) =< TrapScore(d)
  BY <1>8, <1>9, <1>10, <1>11, LockWorse DEF Smaller
<1>13. ~(y < 3000) /\ ~Over(e.mcap, 20, d) /\ ~(TrapScore(d) >= 75)
  BY <1>4, <1>6 DEF LiquidityVerdict
<1>14. /\ ~(\E l \in e.liquidity : l < 3000) /\ ~Over(e.mcap, 20, e) /\ ~(TrapScore(e) >= 75)
       /\ \E l \in e.liquidity : l > 0
  BY <1>2, <1>3, <1>4, <1>7, <1>12, <1>13
<1>15. LiquidityVerdict(e) = "warning" =>
         y < 10000 \/ Over(e.mcap, 10, d) \/ Over(e.volume1, 10, d) \/ TrapScore(d) >= 25
  BY <1>3, <1>4, <1>7, <1>12 DEF LiquidityVerdict
<1>. QED BY <1>4, <1>6, <1>14, <1>15 DEF LiquidityVerdict

-----------------------------------------------------------------------------
\* The cluster stage is not milder: a holder of no known funder is in no cluster.
LEMMA ClusterWorse ==
    ASSUME NEW e, NEW d, IsEvidence(e), IsEvidence(d), HoldersNoBetter(e, d),
           ClusterHolders(e) = ClusterHolders(d),
           ClusterVerdict(d) \in {"warning", "pass"}
    PROVE  /\ ClusterVerdict(e) \in {"warning", "pass"}
           /\ ClusterVerdict(e) = "warning" => ClusterVerdict(d) = "warning"
<1>. DEFINE n == ClusterHolders(d)
            limit == Larger(2, n \div 3)
<1>1. n \in 0..10
  BY DEF ClusterHolders, Smaller, Owners, IsEvidence
<1>2. limit \in 2..3
  <2>1. n \div 3 \in 0..3
    BY <1>1
  <2>. QED BY <2>1 DEF Larger
<1>3. d.configured /\ e.configured /\ n # 0 /\ ClusterHolders(e) = n
  BY DEF ClusterVerdict, HoldersNoBetter
<1>4. /\ e.funded \in Nat /\ d.funded \in Nat /\ d.funded =< e.funded
      /\ e.largest \in Nat /\ d.largest \in Nat /\ e.largest =< d.largest
      /\ d.largest =< d.funded
  BY DEF IsEvidence, HoldersNoBetter
<1>5. /\ ClusterVerdict(e) = IF e.largest >= 5 THEN "danger"
                             ELSE IF e.largest >= 3 THEN "warning"
                             ELSE IF e.funded < limit THEN "unknown"
                             ELSE IF e.largest >= 2 THEN "warning" ELSE "pass"
      /\ ClusterVerdict(d) = IF d.largest >= 5 THEN "danger"
                             ELSE IF d.largest >= 3 THEN "warning"
                             ELSE IF d.funded < limit THEN "unknown"
                             ELSE IF d.largest >= 2 THEN "warning" ELSE "pass"
  BY <1>3 DEF ClusterVerdict
<1>. HIDE DEF limit
<1>. QED BY <1>2, <1>4, <1>5

\* Thresholds grow with the number.
LEMMA PointsGrow ==
    ASSUME NEW m \in Nat, NEW n \in Nat, m =< n
    PROVE  /\ Points(m, 2, 2, 3, 4) \in Nat /\ Points(n, 2, 2, 3, 4) \in Nat
           /\ Points(m, 2, 2, 3, 4) =< Points(n, 2, 2, 3, 4)
           /\ Points(m, 2, 1, 4, 3) \in Nat /\ Points(n, 2, 1, 4, 3) \in Nat
           /\ Points(m, 2, 1, 4, 3) =< Points(n, 2, 1, 4, 3)
  BY DEF Points

\* The manipulation stage is not milder: each of its four terms grows.
LEMMA ManipulationWorse ==
    ASSUME NEW e, NEW d, IsEvidence(e), IsEvidence(d), HoldersNoBetter(e, d),
           Owners(e) = Owners(d),
           ManipulationVerdict(d) \in {"warning", "pass"}
    PROVE  /\ ManipulationVerdict(e) \in {"warning", "pass"}
           /\ ManipulationVerdict(e) = "warning" => ManipulationVerdict(d) = "warning"
<1>1. d.configured /\ e.configured /\ Owners(d) # 0
  BY DEF ManipulationVerdict, HoldersNoBetter
<1>2. /\ Larger(e.largest, e.sponsored) \in Nat /\ Larger(d.largest, d.sponsored) \in Nat
      /\ Larger(e.largest, e.sponsored) =< Larger(d.largest, d.sponsored)
  BY DEF IsEvidence, HoldersNoBetter, Larger
<1>3. /\ e.distributed \in Nat /\ d.distributed \in Nat /\ e.distributed =< d.distributed
      /\ e.linked \in Nat /\ d.linked \in Nat /\ e.linked =< d.linked
      /\ e.dumped \in Nat /\ d.dumped \in Nat /\ e.dumped =< d.dumped
  BY DEF IsEvidence, HoldersNoBetter
<1>. DEFINE a1 == Points(Larger(e.largest, e.sponsored), 2, 2, 3, 4)
            b1 == Points(Larger(d.largest, d.sponsored), 2, 2, 3, 4)
            a2 == Points(e.distributed, 2, 2, 3, 4)
            b2 == Points(d.distributed, 2, 2, 3, 4)
            a3 == Points(e.linked, 2, 1, 4, 3)
            b3 == Points(d.linked, 2, 1, 4, 3)
            a4 == Points(e.dumped, 2, 2, 3, 4)
            b4 == Points(d.dumped, 2, 2, 3, 4)
<1>4. /\ a1 \in Nat /\ b1 \in Nat /\ a1 =< b1
      /\ a2 \in Nat /\ b2 \in Nat /\ a2 =< b2
      /\ a3 \in Nat /\ b3 \in Nat /\ a3 =< b3
      /\ a4 \in Nat /\ b4 \in Nat /\ a4 =< b4
  BY <1>2, <1>3, PointsGrow
<1>5. ManipulationPoints(e) = a1 + a2 + a3 + a4 /\ ManipulationPoints(d) = b1 + b2 + b3 + b4
  BY <1>1, Zenon DEF ManipulationPoints
<1>. HIDE DEF a1, b1, a2, b2, a3, b3, a4, b4
<1>6. /\ ManipulationPoints(e) \in Nat /\ ManipulationPoints(d) \in Nat
      /\ ManipulationPoints(e) =< ManipulationPoints(d)
  BY <1>4, <1>5
<1>. QED BY <1>1, <1>6 DEF ManipulationVerdict

-----------------------------------------------------------------------------
\* What is known of the developer are numbers of tokens.
LEMMA HistoryType ==
    ASSUME NEW e, IsEvidence(e), NEW a
    PROVE  LET h == DevHistory(e, a) IN
           /\ h.bought \in Nat /\ h.sold \in Nat /\ h.moved \in Nat /\ h.direct \in Nat
           /\ h.splitters \in Nat /\ h.proxies \in Nat /\ h.direct =< h.moved
           /\ Initial(e, h) \in Nat
<1>. DEFINE h == DevHistory(e, a)
<1>1. /\ h.bought \in Nat /\ h.sold \in Nat /\ h.moved \in Nat /\ h.direct \in Nat
      /\ h.splitters \in Nat /\ h.proxies \in Nat /\ h.direct =< h.moved
  BY DEF DevHistory, IsEvidence
<1>2. e.balance \in Nat
  BY DEF IsEvidence
<1>. HIDE DEF h
<1>3. Initial(e, h) \in Nat
  BY <1>1, <1>2 DEF Initial, Larger
<1>. QED BY <1>1, <1>3 DEF h

\* The verdict of the audit, by what the developer did.
LEMMA AuditSays ==
    ASSUME NEW e, IsEvidence(e)
    PROVE  LET h == DevHistory(e, e.auditAnswered) IN
           /\ DevAuditVerdict(e) \notin {"unknown", "danger"} <=> DevKnown(e) /\ h.sold = 0
           /\ DevAuditVerdict(e) = "pass" <=>
                 DevKnown(e) /\ h.sold = 0 /\ h.moved = 0 /\ e.balance # 0
<1>. DEFINE h == DevHistory(e, e.auditAnswered)
            initial == Initial(e, h)
<1>1. h.sold \in Nat /\ h.moved \in Nat /\ initial \in Nat
  BY HistoryType
<1>2. DevAuditStatus(e) =
        IF ~DevKnown(e) THEN "DEV_UNKNOWN"
        ELSE IF initial > 0 /\ 100 * h.sold >= 80 * initial THEN "DEV_SOLD_OUT"
        ELSE IF h.sold > 0 THEN "DEV_SOLD_PARTIAL"
        ELSE IF h.moved > 0 THEN "DEV_TRANSFERRED_TOKENS"
        ELSE IF e.balance = 0 THEN "DEV_NO_BALANCE"
        ELSE "DEV_HOLDING"
  BY DEF DevAuditStatus
<1>. HIDE DEF h, initial
<1>3. /\ DevAuditVerdict(e) \notin {"unknown", "danger"} <=> DevKnown(e) /\ h.sold = 0
      /\ DevAuditVerdict(e) = "pass" <=>
            DevKnown(e) /\ h.sold = 0 /\ h.moved = 0 /\ e.balance # 0
  BY <1>1, <1>2 DEF DevAuditVerdict
<1>. QED BY <1>3 DEF h

\* The audit is not milder, and lets nobody through who has sold.
LEMMA AuditWorse ==
    ASSUME NEW e, NEW d, IsEvidence(e), IsEvidence(d), ReportNoBetter(e, d),
           DevNoBetter(e, d), e.configured, d.configured,
           DevAuditVerdict(d) \in {"warning", "pass"}
    PROVE  /\ DevKnown(e) /\ DevKnown(d) /\ e.sold = d.sold
           /\ DevAuditVerdict(e) \in {"warning", "pass"}
           /\ DevAuditVerdict(e) = "warning" => DevAuditVerdict(d) = "warning"
<1>. DEFINE he == DevHistory(e, e.auditAnswered)
            hd == DevHistory(d, d.auditAnswered)
<1>1. DevKnown(d) /\ hd.sold = 0
  BY AuditSays
<1>2. DevKnown(e)
  BY <1>1 DEF DevKnown, ReportNoBetter
<1>3. e.sold = d.sold
  <2>1. CASE d.auditAnswered
    <3>1. d.sold = 0
      BY <1>1, <2>1 DEF DevHistory
    <3>. QED BY <3>1 DEF DevNoBetter, IsEvidence
  <2>2. CASE ~d.auditAnswered
    BY <2>2 DEF DevNoBetter
  <2>. QED BY <2>1, <2>2
<1>4. /\ he.sold = hd.sold
      /\ hd.moved = 0 => he.moved = 0
  BY <1>3 DEF DevHistory, DevNoBetter, IsEvidence
<1>5. d.balance # 0 => e.balance # 0
  BY DEF ReportNoBetter, IsEvidence
<1>6. DevAuditVerdict(e) \notin {"unknown", "danger"}
  BY <1>1, <1>2, <1>4, AuditSays
<1>7. DevAuditVerdict(d) = "pass" => DevAuditVerdict(e) = "pass"
  BY <1>1, <1>2, <1>4, <1>5, AuditSays
<1>8. DevAuditVerdict(e) \in {"unknown", "danger", "warning", "pass"}
  BY DEF DevAuditVerdict
<1>. QED BY <1>1, <1>2, <1>3, <1>6, <1>7, <1>8

\* What the developer hands out is no smaller a part of what he had: both grow
\* by the same, unless he has less left, and then only the whole shrinks.
LEMMA ShadowWorse ==
    ASSUME NEW e, NEW d, IsEvidence(e), IsEvidence(d), ReportNoBetter(e, d),
           DevNoBetter(e, d), e.configured, d.configured,
           DevKnown(e), DevKnown(d), e.sold = d.sold
    PROVE  /\ ShadowDevScore(e) \in Nat /\ ShadowDevScore(d) \in Nat
           /\ ShadowDevScore(e) =< ShadowDevScore(d)
<1>. DEFINE x == DevHistory(e, e.flowAnswered)
            y == DevHistory(d, d.flowAnswered)
            i == Initial(e, x)
            j == Initial(d, y)
            share(h, n) == IF n > 0 /\ 100 * h.direct >= 20 * n THEN 25
                           ELSE IF n > 0 /\ 100 * h.direct >= 5 * n THEN 12 ELSE 0
            splits(h) == IF h.direct > 0 /\ h.splitters > 0 THEN 50 ELSE 0
            dumps(h) == IF h.direct > 0 THEN Smaller(50, 45 * h.proxies) ELSE 0
<1>1. /\ ShadowDevScore(e) = Smaller(100, share(x, i) + splits(x) + dumps(x))
      /\ ShadowDevScore(d) = Smaller(100, share(y, j) + splits(y) + dumps(y))
  BY DEF ShadowDevScore
<1>2. CASE e.flowAnswered
  <2>1. /\ x.bought = e.bought /\ y.bought = e.bought /\ x.sold = e.sold /\ y.sold = e.sold
        /\ x.moved = e.moved + e.direct /\ y.moved = e.moved + d.direct
        /\ x.direct = e.direct /\ y.direct = d.direct
        /\ x.splitters = e.splitters /\ y.splitters = d.splitters
        /\ x.proxies = e.proxies /\ y.proxies = d.proxies
    BY <1>2 DEF DevHistory, DevNoBetter
  <2>2. /\ e.bought \in Nat /\ e.sold \in Nat /\ e.moved \in Nat
        /\ e.direct \in Nat /\ d.direct \in Nat /\ e.direct =< d.direct
        /\ e.balance \in Nat /\ d.balance \in Nat /\ d.balance =< e.balance
        /\ e.splitters \in Nat /\ d.splitters \in Nat /\ e.splitters =< d.splitters
        /\ e.proxies \in Nat /\ d.proxies \in Nat /\ e.proxies =< d.proxies
    BY DEF IsEvidence, DevNoBetter, ReportNoBetter
  <2>3. /\ i = Larger(e.bought, e.sold + e.moved + e.direct + e.balance)
        /\ j = Larger(e.bought, e.sold + e.moved + d.direct + d.balance)
    <3>. HIDE DEF x, y
    <3>1. /\ e.sold + (e.moved + e.direct) + e.balance = e.sold + e.moved + e.direct + e.balance
          /\ e.sold + (e.moved + d.direct) + d.balance = e.sold + e.moved + d.direct + d.balance
      BY <2>2
    <3>. QED BY <2>1, <3>1 DEF Initial
  <2>. HIDE DEF x, y, i, j
  <2>4. /\ i > 0 /\ 100 * x.direct >= 20 * i => j > 0 /\ 100 * y.direct >= 20 * j
        /\ i > 0 /\ 100 * x.direct >= 5 * i => j > 0 /\ 100 * y.direct >= 5 * j
    BY <2>1, <2>2, <2>3 DEF Larger
  <2>5. share(x, i) \in Nat /\ share(y, j) \in Nat /\ share(x, i) =< share(y, j)
    BY <2>4
  <2>6. splits(x) \in Nat /\ splits(y) \in Nat /\ splits(x) =< splits(y)
    BY <2>1, <2>2
  <2>7. dumps(x) \in Nat /\ dumps(y) \in Nat /\ dumps(x) =< dumps(y)
    BY <2>1, <2>2 DEF Smaller
  <2>. HIDE DEF share, splits, dumps
  <2>. QED BY <1>1, <2>5, <2>6, <2>7 DEF Smaller
<1>3. CASE ~e.flowAnswered
  <2>1. /\ x.direct = 0 /\ y.direct = 0 /\ i \in Nat /\ j \in Nat
    BY <1>3, HistoryType DEF DevHistory, DevNoBetter
  <2>. HIDE DEF x, y, i, j
  <2>2. share(x, i) = 0 /\ share(y, j) = 0 /\ splits(x) = 0 /\ splits(y) = 0
        /\ dumps(x) = 0 /\ dumps(y) = 0
    BY <2>1
  <2>. HIDE DEF share, splits, dumps
  <2>. QED BY <1>1, <2>2 DEF Smaller
<1>. QED BY <1>2, <1>3

\* The flow stage is not milder.
LEMMA FlowWorse ==
    ASSUME NEW e, NEW d, IsEvidence(e), IsEvidence(d), ReportNoBetter(e, d),
           DevNoBetter(e, d), e.configured, d.configured,
           DevKnown(e), DevKnown(d), e.sold = d.sold,
           DevFlowVerdict(d) \in {"warning", "pass"}
    PROVE  /\ DevFlowVerdict(e) \in {"warning", "pass"}
           /\ DevFlowVerdict(e) = "warning" => DevFlowVerdict(d) = "warning"
  BY ShadowWorse DEF DevFlowVerdict

-----------------------------------------------------------------------------
\* The labels of a holder's wallet.
LabelNames ==
    {"WHALE", "SNIPER", "FRESH_WALLET", "DUMPER", "DEV_RELATED", "BOT", "SMART_WALLET"}

\* The suspicions are six of the labels.
LEMMA SuspicionsAre ==
    ASSUME NEW w, NEW x
    PROVE  x \in Suspicions(w) =>
             x \in {"WHALE", "SNIPER", "FRESH_WALLET", "DUMPER", "DEV_RELATED", "BOT"}
  BY SMTT(30) DEF Suspicions, When

\* A wallet has finitely many labels, and its score is an integer.
LEMMA ScoreType ==
    ASSUME NEW w
    PROVE  WalletLabels(w) \subseteq LabelNames /\ IsFiniteSet(WalletLabels(w))
           /\ WalletScore(w) \in Int
<1>1. Suspicions(w) \subseteq LabelNames
  BY SuspicionsAre DEF LabelNames
<1>2. WalletLabels(w) \subseteq LabelNames
  <2>1. \A l : l \in WalletLabels(w) => l \in Suspicions(w) \/ l = "SMART_WALLET"
    BY SMT DEF WalletLabels, When
  <2>. QED BY <1>1, <2>1 DEF LabelNames
<1>3. IsFiniteSet(LabelNames)
  <2>1. \A a, b, c : IsFiniteSet({a, b, c})
    <3>. SUFFICES ASSUME NEW a, NEW b, NEW c PROVE IsFiniteSet({a, b, c})
      OBVIOUS
    <3>1. IsFiniteSet({a}) /\ IsFiniteSet({a} \cup {b})
      BY FS_Singleton, FS_AddElement
    <3>2. IsFiniteSet(({a} \cup {b}) \cup {c})
      BY <3>1, FS_AddElement
    <3>3. ({a} \cup {b}) \cup {c} = {a, b, c}
      OBVIOUS
    <3>. QED BY <3>2, <3>3
  <2>. DEFINE A == {"WHALE", "SNIPER", "FRESH_WALLET"}
              B == {"DUMPER", "DEV_RELATED", "BOT"}
  <2>2. IsFiniteSet(A) /\ IsFiniteSet(B)
    BY <2>1
  <2>3. LabelNames = (A \cup B) \cup {"SMART_WALLET"}
    BY DEF LabelNames
  <2>. HIDE DEF A, B
  <2>. QED BY <2>2, <2>3, FS_Union, FS_AddElement
<1>4. IsFiniteSet(WalletLabels(w))
  BY <1>2, <1>3, FS_Subset
<1>. DEFINE labels == [l \in WalletLabels(w) |-> LabelScore(l)]
<1>5. \A l \in WalletLabels(w) : LabelScore(l) \in Int
  BY <1>2 DEF LabelScore, LabelNames
<1>6. SumFunction(labels) = SumOf(labels)
  BY DEF SumFunction, SumFunctionOnSet, FoldFunctionOnSet, MapThenFoldSet, SumOf, Sums
<1>7. SumFunction(labels) \in Int
  BY <1>4, <1>5, <1>6, SumIsInt
<1>. DEFINE extra == (IF w.percent >= 200 THEN -3 ELSE IF w.percent >= 100 THEN -1 ELSE 0)
                     + (IF SoldPart(w, 80) THEN -2 ELSE 0) + (IF Busy(w) THEN -1 ELSE 0)
<1>8. WalletScore(w) = Larger(-10, Smaller(10, SumFunction(labels) + extra))
  BY DEF WalletScore
<1>9. extra \in Int
  OBVIOUS
<1>. HIDE DEF labels, extra
<1>10. WalletScore(w) \in Int
  BY <1>7, <1>8, <1>9 DEF Larger, Smaller
<1>. QED BY <1>2, <1>4, <1>10

\* The average of the scores is no higher.
LEMMA AverageWorse ==
    ASSUME NEW e, NEW d, IsEvidence(e), WalletsNoBetter(e, d), e.configured, d.configured,
           NEW x \in Int, AverageAtMost(e, x)
    PROVE  AverageAtMost(d, x)
<1>. DEFINE S == DOMAIN e.wallets
            f == [h \in S |-> WalletScore(Fetched(e, e.wallets[h]))]
            g == [h \in DOMAIN d.wallets |-> WalletScore(Fetched(d, d.wallets[h]))]
<1>1. DOMAIN d.wallets = S /\ IsFiniteSet(S)
  BY DEF WalletsNoBetter, IsEvidence
<1>2. \A h \in S : f[h] \in Int /\ g[h] \in Int
  BY <1>1, ScoreType
<1>3. \A h \in S : g[h] =< f[h]
  <2>. SUFFICES ASSUME NEW h \in S PROVE g[h] =< f[h]
    OBVIOUS
  <2>1. CASE d.wallets[h] = e.wallets[h]
    <3>1. g[h] = f[h]
      BY <1>1, <2>1 DEF Fetched
    <3>. QED BY <1>2, <3>1
  <2>2. CASE WalletScore(Fetched(d, d.wallets[h])) =< WalletScore(Fetched(e, e.wallets[h]))
    BY <1>1, <2>2
  <2>. QED BY <2>1, <2>2 DEF WalletsNoBetter
<1>4. SumFunction(f) = SumOf(f)
  BY DEF SumFunction, SumFunctionOnSet, FoldFunctionOnSet, MapThenFoldSet, SumOf, Sums
<1>5. SumFunction(g) = SumOf(g)
  BY DEF SumFunction, SumFunctionOnSet, FoldFunctionOnSet, MapThenFoldSet, SumOf, Sums
<1>6. DOMAIN f = S /\ DOMAIN g = S
  BY <1>1
<1>7. e.wallets # << >> /\ SumFunction(f) =< x * Cardinality(S)
  BY DEF AverageAtMost
<1>8. d.wallets # << >>
  BY <1>7 DEF WalletsNoBetter
<1>9. AverageAtMost(d, x) <=> d.wallets # << >> /\ SumFunction(g) =< x * Cardinality(S)
  BY <1>1 DEF AverageAtMost
<1>10. SumOf(g) =< SumOf(f) /\ SumOf(g) \in Int /\ SumOf(f) \in Int
  <2>. HIDE DEF f, g, S
  <2>. QED BY <1>1, <1>2, <1>3, <1>6, SumIsMonotone, SumIsInt
<1>11. x * Cardinality(S) \in Int
  BY <1>1, FS_CardinalityType
<1>. HIDE DEF f, g
<1>12. SumFunction(g) =< x * Cardinality(S)
  <2>. DEFINE k == x * Cardinality(S)
  <2>. HIDE DEF k
  <2>. QED BY <1>4, <1>5, <1>7, <1>10, <1>11 DEF k
<1>. QED BY <1>8, <1>9, <1>12

\* No label but SMART_WALLET is rarer.
LEMMA CountWorse ==
    ASSUME NEW e, NEW d, IsEvidence(e), IsEvidence(d), WalletsNoBetter(e, d),
           e.configured, d.configured, NEW l, l # "SMART_WALLET"
    PROVE  /\ Count(HolderLabels(e), l) \in Nat /\ Count(HolderLabels(d), l) \in Nat
           /\ Count(HolderLabels(e), l) =< Count(HolderLabels(d), l)
<1>. DEFINE S == DOMAIN e.wallets
            X == {h \in DOMAIN HolderLabels(e) : l \in HolderLabels(e)[h]}
            Y == {h \in DOMAIN HolderLabels(d) : l \in HolderLabels(d)[h]}
<1>1. DOMAIN d.wallets = S /\ IsFiniteSet(S)
  BY DEF WalletsNoBetter, IsEvidence
<1>2. /\ X = {h \in S : l \in WalletLabels(Fetched(e, e.wallets[h]))}
      /\ Y = {h \in S : l \in WalletLabels(Fetched(d, d.wallets[h]))}
  BY <1>1 DEF HolderLabels
<1>3. X \subseteq Y
  <2>. SUFFICES ASSUME NEW h \in S, l \in WalletLabels(Fetched(e, e.wallets[h]))
                PROVE  l \in WalletLabels(Fetched(d, d.wallets[h]))
    BY <1>2
  <2>1. CASE d.wallets[h] = e.wallets[h]
    BY <2>1 DEF Fetched
  <2>2. CASE Suspects(Fetched(e, e.wallets[h])) \subseteq Suspects(Fetched(d, d.wallets[h]))
    BY <2>2 DEF Suspects
  <2>. QED BY <2>1, <2>2 DEF WalletsNoBetter
<1>4. Y \subseteq S
  BY <1>2
<1>5. Count(HolderLabels(e), l) = Cardinality(X) /\ Count(HolderLabels(d), l) = Cardinality(Y)
  BY DEF Count
<1>. HIDE DEF X, Y, S
<1>. QED BY <1>1, <1>3, <1>4, <1>5, FS_Subset, FS_CardinalityType

\* The intelligence on the wallets is not milder.
LEMMA IntelligenceWorse ==
    ASSUME NEW e, NEW d, IsEvidence(e), IsEvidence(d), WalletsNoBetter(e, d),
           e.configured, d.configured, IntelligenceVerdict(d) # "danger"
    PROVE  /\ IntelligenceVerdict(e) # "danger"
           /\ IntelligenceVerdict(e) = "warning" => IntelligenceVerdict(d) = "warning"
<1>. DEFINE M(l) == Count(HolderLabels(e), l)
            N(l) == Count(HolderLabels(d), l)
            Bad(f, s, r, du, b) ==
                \/ f >= 2
                \/ f >= 1 /\ (s >= 1 \/ r >= 1)
                \/ r >= 2
                \/ /\ r >= 1
                   /\ du >= 1 \/ b >= 1 \/ s >= 1
                \/ b >= 3
                \/ du >= 4
                \/ s >= 5 /\ du >= 2
            Doubtful(f, s, w, du, b) == f >= 1 \/ s >= 2 \/ w >= 2 \/ du >= 1 \/ b >= 1
<1>1. \A l \in {"FRESH_WALLET", "SNIPER", "DEV_RELATED", "DUMPER", "BOT", "WHALE"} :
        M(l) \in Nat /\ N(l) \in Nat /\ M(l) =< N(l)
  BY CountWorse
<1>2. /\ AverageAtMost(e, -6) => AverageAtMost(d, -6)
      /\ AverageAtMost(e, -3) => AverageAtMost(d, -3)
  BY AverageWorse
<1>3. /\ IntelligenceVerdict(e) =
            IF Bad(M("FRESH_WALLET"), M("SNIPER"), M("DEV_RELATED"), M("DUMPER"), M("BOT"))
               \/ AverageAtMost(e, -6) THEN "danger"
            ELSE IF Doubtful(M("FRESH_WALLET"), M("SNIPER"), M("WHALE"), M("DUMPER"), M("BOT"))
                    \/ AverageAtMost(e, -3) THEN "warning"
            ELSE "pass"
      /\ IntelligenceVerdict(d) =
            IF Bad(N("FRESH_WALLET"), N("SNIPER"), N("DEV_RELATED"), N("DUMPER"), N("BOT"))
               \/ AverageAtMost(d, -6) THEN "danger"
            ELSE IF Doubtful(N("FRESH_WALLET"), N("SNIPER"), N("WHALE"), N("DUMPER"), N("BOT"))
                    \/ AverageAtMost(d, -3) THEN "warning"
            ELSE "pass"
  BY DEF IntelligenceVerdict
<1>. HIDE DEF M, N
<1>4. Bad(M("FRESH_WALLET"), M("SNIPER"), M("DEV_RELATED"), M("DUMPER"), M("BOT"))
        => Bad(N("FRESH_WALLET"), N("SNIPER"), N("DEV_RELATED"), N("DUMPER"), N("BOT"))
  BY <1>1
<1>5. Doubtful(M("FRESH_WALLET"), M("SNIPER"), M("WHALE"), M("DUMPER"), M("BOT"))
        => Doubtful(N("FRESH_WALLET"), N("SNIPER"), N("WHALE"), N("DUMPER"), N("BOT"))
  BY <1>1
<1>. HIDE DEF Bad, Doubtful
<1>. QED BY <1>2, <1>3, <1>4, <1>5

-----------------------------------------------------------------------------
\* Evidence that is no better in any fact never has a milder decision, whatever
\* the two say else (classify_watchlist_decision over all nine classifiers).
THEOREM WorseFactsNeverHelp ==
    ASSUME NEW e, NEW d, IsEvidence(e), IsEvidence(d), NoBetter(e, d)
    PROVE  Caution(Decision(e)) =< Caution(Decision(d))
<1>1. CASE ~Passes(Decision(d))
  <2>1. Caution(Decision(d)) = 2 /\ Caution(Decision(e)) \in {0, 1, 2}
    BY <1>1, CautionOf
  <2>. QED BY <2>1
<1>2. CASE Passes(Decision(d))
  <2>. DEFINE r == Row(e)
              s == Row(d)
  <2>1. /\ MarketVerdict(d) # "danger"
        /\ ContractVerdict(d) \in {"warning", "pass"}
        /\ LiquidityVerdict(d) \in {"warning", "pass"}
        /\ WalletVerdict(d) \in {"warning", "pass"}
        /\ ClusterVerdict(d) \in {"warning", "pass"}
        /\ ManipulationVerdict(d) \in {"warning", "pass"}
        /\ DevAuditVerdict(d) # "danger"
        /\ DevFlowVerdict(d) \notin {"unknown", "danger"}
        /\ IntelligenceVerdict(d) # "danger"
    BY <1>2, PassRow, RowOf DEF Decision
  <2>2. DevAuditVerdict(d) \in {"warning", "pass"} /\ DevFlowVerdict(d) \in {"warning", "pass"}
    <3>1. DevKnown(d)
      BY <2>1 DEF DevFlowVerdict
    <3>. QED BY <2>1, <3>1 DEF DevAuditVerdict, DevAuditStatus, DevFlowVerdict
  <2>3. /\ PriceNoBetter(e, d) /\ ReportNoBetter(e, d) /\ HoldersNoBetter(e, d)
        /\ DevNoBetter(e, d) /\ WalletsNoBetter(e, d)
    BY DEF NoBetter
  <2>4. e.answered /\ d.answered /\ e.owners = d.owners
    BY <2>1, <2>3, SharesKnown
  <2>5. ClusterHolders(e) = ClusterHolders(d) /\ Owners(e) = Owners(d)
    BY <2>4 DEF ClusterHolders, Owners
  <2>6. e.configured /\ d.configured
    BY <2>1, <2>3 DEF ClusterVerdict, HoldersNoBetter
  <2>7. /\ DevKnown(e) /\ DevKnown(d) /\ e.sold = d.sold
        /\ DevAuditVerdict(e) \in {"warning", "pass"}
        /\ DevAuditVerdict(e) = "warning" => DevAuditVerdict(d) = "warning"
    BY <2>2, <2>3, <2>6, AuditWorse
  <2>8. /\ MarketVerdict(e) # "danger"
        /\ MarketVerdict(e) = "warning" => MarketVerdict(d) = "warning"
    BY <2>1, <2>3, MarketWorse
  <2>9. ContractVerdict(e) \in {"warning", "pass"}
    BY <2>1, <2>3, ContractWorse
  <2>10. /\ LiquidityVerdict(e) \in {"warning", "pass"}
         /\ LiquidityVerdict(e) = "warning" => LiquidityVerdict(d) = "warning"
    BY <2>1, <2>3, <2>4, LiquidityWorse
  <2>11. /\ WalletVerdict(e) \in {"warning", "pass"}
         /\ WalletVerdict(e) = "warning" => WalletVerdict(d) = "warning"
    BY <2>1, <2>3, WalletWorse
  <2>12. /\ ClusterVerdict(e) \in {"warning", "pass"}
         /\ ClusterVerdict(e) = "warning" => ClusterVerdict(d) = "warning"
    BY <2>1, <2>3, <2>5, ClusterWorse
  <2>13. /\ ManipulationVerdict(e) \in {"warning", "pass"}
         /\ ManipulationVerdict(e) = "warning" => ManipulationVerdict(d) = "warning"
    BY <2>1, <2>3, <2>5, ManipulationWorse
  <2>14. /\ DevFlowVerdict(e) \in {"warning", "pass"}
         /\ DevFlowVerdict(e) = "warning" => DevFlowVerdict(d) = "warning"
    BY <2>2, <2>3, <2>6, <2>7, FlowWorse
  <2>15. /\ IntelligenceVerdict(e) # "danger"
         /\ IntelligenceVerdict(e) = "warning" => IntelligenceVerdict(d) = "warning"
    BY <2>1, <2>3, <2>6, IntelligenceWorse
  <2>16. \A l \in RaisesRisk : r[l] = "warning" => s[l] = "warning"
    BY <2>7, <2>8, <2>10, <2>11, <2>12, <2>13, <2>14, <2>15, RowOf DEF RaisesRisk, Layers
  <2>17. /\ r["market"] # "danger"
         /\ \A k \in MustAnswer : r[k] \in {"warning", "pass"}
         /\ r["dev_audit"] # "danger"
         /\ r["dev_flow"] \notin {"unknown", "danger"}
         /\ r["intelligence"] # "danger"
    BY <2>7, <2>8, <2>9, <2>10, <2>11, <2>12, <2>13, <2>14, <2>15, RowOf DEF MustAnswer
  <2>18. r["market"] \in {"warning", "pass"}
    BY <2>17, VerdictsListed DEF Layers, Findings
  <2>19. Decision(d) = FinalPass(s)
    BY <1>2, PassesAsFinal DEF Decision
  <2>. HIDE DEF r, s
  <2>20. classify_watchlist_decision(r) = FinalPass(r)
    BY <2>17, Chain DEF DevAndIntelligence, MustAnswer, PassFlag
  <2>21. FinalPass(r) \in {"WATCHLIST_PASS", "WATCHLIST_PASS_HIGH_RISK"}
    BY <2>17, <2>18 DEF FinalPass, MustAnswer, PassFlag, RaisesRisk, Layers
  <2>22. FinalPass(r) = "WATCHLIST_PASS_HIGH_RISK" => FinalPass(s) = "WATCHLIST_PASS_HIGH_RISK"
    BY <2>16 DEF FinalPass
  <2>23. FinalPass(s) \in {"WATCHLIST_PASS", "WATCHLIST_PASS_HIGH_RISK"}
    BY <1>2, <2>19 DEF Passes, PassOutcomes
  <2>24. Decision(e) = FinalPass(r)
    BY <2>20 DEF Decision, r
  <2>. QED BY <2>19, <2>21, <2>22, <2>23, <2>24, CautionOf
<1>. QED BY <1>1, <1>2

-----------------------------------------------------------------------------
(***************************************************************************)
(* The lists of the walk: a later value is another one and no better.      *)
(***************************************************************************)
\* The fields that have values from the best to the worst.
LEMMA Names ==
    DOMAIN Downhill = {"m5", "h1", "liquidity", "answered", "totals", "mint", "freeze",
                       "risks", "owners", "shares", "lp", "dev", "balance", "configured",
                       "funded", "largest", "sponsored", "distributed", "linked", "dumped",
                       "sold", "direct", "splitters", "proxies", "wallets"}
  BY DEF Downhill

\* Price changes and liquidity.
LEMMA PriceLists ==
    ASSUME NEW v, NEW w
    PROVE  /\ Worse("m5", v, w) => v # w /\ Sinks(v, w)
           /\ Worse("h1", v, w) => v # w /\ Sinks(v, w) /\ \A x \in v : x < 100
           /\ Worse("liquidity", v, w) => v # w /\ (w = {} \/ Sinks(v, w))
<1>1. Ranked("m5") = << {3}, {-10}, {-15}, {-20} >>
  BY Names DEF Ranked, Downhill
<1>2. Worse("m5", v, w) => v # w /\ Sinks(v, w)
  BY <1>1 DEF Worse, Sinks
<1>3. Ranked("h1") = << {20}, {-20}, {-40} >>
  BY Names DEF Ranked, Downhill
<1>4. Worse("h1", v, w) => v # w /\ Sinks(v, w) /\ \A x \in v : x < 100
  BY <1>3 DEF Worse, Sinks
<1>5. Ranked("liquidity") = << {30000}, {9999}, {4999}, {2999}, {0}, {} >>
  BY Names DEF Ranked, Downhill
<1>6. Worse("liquidity", v, w) => v # w /\ (w = {} \/ Sinks(v, w))
  BY <1>5 DEF Worse, Sinks
<1>. QED BY <1>2, <1>4, <1>6

\* The numbers that grow, and those that shrink.
LEMMA RisingLists ==
    ASSUME NEW v, NEW w,
           NEW f \in {"largest", "sponsored", "distributed", "linked", "dumped",
                      "sold", "direct", "splitters", "proxies"},
           Worse(f, v, w)
    PROVE  v # w /\ v =< w
<1>1. CASE f = "largest"
  <2>1. Ranked("largest") = << 1, 2, 3, 5 >>
    BY Names DEF Ranked, Downhill
  <2>. QED BY <1>1, <2>1 DEF Worse
<1>2. CASE f = "sponsored"
  <2>1. Ranked("sponsored") = << 1, 2, 3 >>
    BY Names DEF Ranked, Downhill
  <2>. QED BY <1>2, <2>1 DEF Worse
<1>3. CASE f \in {"distributed", "linked", "dumped"}
  <2>1. Ranked(f) = << 0, 2, 3 >>
    BY <1>3, Names DEF Ranked, Downhill
  <2>. QED BY <1>3, <2>1 DEF Worse
<1>4. CASE f = "sold"
  <2>1. Ranked("sold") = << 0, 79, 100 >>
    BY Names DEF Ranked, Downhill
  <2>. QED BY <1>4, <2>1 DEF Worse
<1>5. CASE f = "direct"
  <2>1. Ranked("direct") = << 0, 5, 20 >>
    BY Names DEF Ranked, Downhill
  <2>. QED BY <1>5, <2>1 DEF Worse
<1>6. CASE f = "splitters"
  <2>1. Ranked("splitters") = << 0, 1 >>
    BY Names DEF Ranked, Downhill
  <2>. QED BY <1>6, <2>1 DEF Worse
<1>7. CASE f = "proxies"
  <2>1. Ranked("proxies") = << 0, 1, 2 >>
    BY Names DEF Ranked, Downhill
  <2>. QED BY <1>7, <2>1 DEF Worse
<1>. QED BY <1>1, <1>2, <1>3, <1>4, <1>5, <1>6, <1>7

LEMMA FallingLists ==
    ASSUME NEW v, NEW w
    PROVE  /\ Worse("owners", v, w) => v # w /\ w = 0
           /\ Worse("balance", v, w) => v # w /\ w =< v
           /\ Worse("funded", v, w) => v # w /\ w =< v
<1>1. Ranked("owners") = << 20, 0 >> /\ Ranked("balance") = << 80, 0 >>
  BY Names DEF Ranked, Downhill
<1>2. Ranked("funded") = << 10, 3, 1 >>
  BY Names DEF Ranked, Downhill
<1>3. Worse("funded", v, w) => v # w /\ w =< v
  BY <1>2 DEF Worse
<1>. QED BY <1>1, <1>3 DEF Worse

\* A list of two values, and one of four.
LEMMA TwoValues ==
    ASSUME NEW f, NEW v, NEW w, DOMAIN Ranked(f) = 1..2, Worse(f, v, w)
    PROVE  v = Ranked(f)[1] /\ w = Ranked(f)[2]
  BY DEF Worse

LEMMA FourValues ==
    ASSUME NEW f, NEW v, NEW w, NEW p, NEW q, NEW r, NEW s,
           Ranked(f) = << p, q, r, s >>, Worse(f, v, w)
    PROVE  \/ v = p /\ w \in {q, r, s}
           \/ v = q /\ w \in {r, s}
           \/ v = r /\ w = s
  BY DEF Worse

\* The answers that are lost, and the rights that appear.
LEMMA SwitchLists ==
    ASSUME NEW v, NEW w
    PROVE  /\ \A f \in {"answered", "dev", "configured"} :
                 Worse(f, v, w) => v = TRUE /\ w = FALSE
           /\ \A f \in {"mint", "freeze"} : Worse(f, v, w) => v = FALSE /\ w = TRUE
<1>1. \A f \in {"answered", "dev", "configured", "mint", "freeze"} : Ranked(f) = Downhill[f]
  BY Names DEF Ranked
<1>2. /\ DOMAIN Downhill["answered"] = 1..2
      /\ Downhill["answered"][1] = TRUE /\ Downhill["answered"][2] = FALSE
  BY DEF Downhill
<1>3. /\ DOMAIN Downhill["dev"] = 1..2
      /\ Downhill["dev"][1] = TRUE /\ Downhill["dev"][2] = FALSE
  BY DEF Downhill
<1>4. /\ DOMAIN Downhill["configured"] = 1..2
      /\ Downhill["configured"][1] = TRUE /\ Downhill["configured"][2] = FALSE
  BY DEF Downhill
<1>5. /\ DOMAIN Downhill["mint"] = 1..2
      /\ Downhill["mint"][1] = FALSE /\ Downhill["mint"][2] = TRUE
  BY DEF Downhill
<1>6. /\ DOMAIN Downhill["freeze"] = 1..2
      /\ Downhill["freeze"][1] = FALSE /\ Downhill["freeze"][2] = TRUE
  BY DEF Downhill
<1>. QED BY <1>1, <1>2, <1>3, <1>4, <1>5, <1>6, TwoValues

\* What else RugCheck reports.
LEMMA ReportLists ==
    ASSUME NEW v, NEW w
    PROVE  /\ Worse("totals", v, w) =>
                /\ v # w
                /\ Stated0(w.supply) /\ Stated0(w.cap) /\ Stated0(w.holders)
           /\ Worse("risks", v, w) => v # w /\ v \subseteq w
           /\ Worse("shares", v, w) =>
                v # w /\ v # {} /\ \A s \in v, t \in w : Lower(s, t)
           /\ Worse("lp", v, w) => v # w /\ LockNoBetter(v, w)
<1>1. Worse("totals", v, w) => /\ v # w
                               /\ Stated0(w.supply) /\ Stated0(w.cap) /\ Stated0(w.holders)
  <2>. DEFINE known == Total({}, {1})
              none == Total({}, {0})
  <2>1. Ranked("totals") = << Totals(known, known, known), Totals(none, none, none) >>
    BY Names DEF Ranked, Downhill
  <2>2. Stated0(none) /\ known # none
    BY DEF Stated0, FirstOf, Total
  <2>. HIDE DEF known, none
  <2>3. Worse("totals", v, w) => v = Totals(known, known, known) /\ w = Totals(none, none, none)
    BY <2>1 DEF Worse
  <2>. QED BY <2>2, <2>3 DEF Totals
<1>2. Worse("risks", v, w) => v # w /\ v \subseteq w
  <2>1. Ranked("risks") = << {}, {"notice"}, {"notice", "critical"} >>
    BY Names DEF Ranked, Downhill
  <2>. QED BY <2>1 DEF Worse
<1>3. Worse("shares", v, w) => v # w /\ v # {} /\ \A s \in v, t \in w : Lower(s, t)
  <2>. DEFINE p == Concentration(5, 20, 25, 20)
              q == Concentration(19, 29, 40, 29)
              r == Concentration(19, 49, 69, 49)
              z == Concentration(19, 50, 69, 50)
              Below(x, y) == x # y /\ x # {} /\ \A s \in x, t \in y : Lower(s, t)
  <2>1. Ranked("shares") = << p, q, r, z >>
    BY Names DEF Ranked, Downhill
  <2>2. /\ p # {} /\ \A s \in p : s.top = 5 /\ s.ten = 20 /\ s.twenty = 25 /\ s.held = 20
        /\ q # {} /\ \A s \in q : s.top = 19 /\ s.ten = 29 /\ s.twenty = 40 /\ s.held = 29
        /\ r # {} /\ \A s \in r : s.top = 19 /\ s.ten = 49 /\ s.twenty = 69 /\ s.held = 49
        /\ z # {} /\ \A s \in z : s.top = 19 /\ s.ten = 50 /\ s.twenty = 69 /\ s.held = 50
    BY DEF Concentration
  <2>3. Below(p, q) /\ Below(p, r) /\ Below(p, z) /\ Below(q, r) /\ Below(q, z) /\ Below(r, z)
    <3>. HIDE DEF p, q, r, z
    <3>. QED BY <2>2 DEF Lower
  <2>4. Worse("shares", v, w) => Below(v, w)
    <3>. HIDE DEF p, q, r, z, Below
    <3>. QED BY <2>1, <2>3, FourValues
  <2>. QED BY <2>4
<1>4. Worse("lp", v, w) => v # w /\ LockNoBetter(v, w)
  <2>. DEFINE L(a) == LpLock({a}, FALSE)
  <2>1. /\ DOMAIN Ranked("lp") = 1..4
        /\ Ranked("lp")[1] = L(95) /\ Ranked("lp")[2] = L(70)
        /\ Ranked("lp")[3] = L(50) /\ Ranked("lp")[4] = L(49)
    BY Names DEF Ranked, Downhill
  <2>2. ASSUME NEW a \in Int, NEW b \in Int, b < a PROVE L(a) # L(b) /\ LockNoBetter(L(a), L(b))
    <3>1. PICK k \in LpLock({a}, FALSE) : k.pct = {a}
      BY DEF LpLock
    <3>2. \A j \in LpLock({b}, FALSE) : j.pct = {b}
      BY DEF LpLock
    <3>3. {a} # {b} /\ b =< a
      BY <2>2
    <3>. QED BY <3>1, <3>2, <3>3 DEF LockNoBetter
  <2>. HIDE DEF L
  <2>3. Worse("lp", v, w) => \E a, b \in Int : b < a /\ v = L(a) /\ w = L(b)
    BY <2>1 DEF Worse
  <2>. QED BY <2>2, <2>3
<1>. QED BY <1>1, <1>2, <1>3, <1>4

\* The labels of a wallet, one by one.
LooksRelated(w) ==
    \/ w.shared >= 3
    \/ w.shared >= 2 /\ (w.percent >= 10 \/ Sniper(w) \/ Whale(w))
LooksFresh(w) == w.txs < 100 /\ \E a \in w.age : 0 =< a /\ a =< 86400
LooksAutomated(w) ==
    \/ w.dex >= 25
    \/ w.dex >= 12 /\ \E s \in w.span : s =< 600
    \/ w.txs >= 15 /\ Busy(w)

LEMMA LabelsAre ==
    ASSUME NEW w, NEW x
    PROVE  x \in Suspicions(w) <=>
             \/ x = "WHALE" /\ Whale(w)
             \/ x = "SNIPER" /\ Sniper(w)
             \/ x = "FRESH_WALLET" /\ LooksFresh(w)
             \/ x = "DUMPER" /\ SoldPart(w, 65)
             \/ x = "DEV_RELATED" /\ LooksRelated(w)
             \/ x = "BOT" /\ LooksAutomated(w)
<1>1. /\ "WHALE" \in Suspicions(w) <=> Whale(w)
      /\ "SNIPER" \in Suspicions(w) <=> Sniper(w)
  BY SMTT(30) DEF Suspicions, When
<1>2. "FRESH_WALLET" \in Suspicions(w) <=> LooksFresh(w)
  BY SMTT(30) DEF Suspicions, When, LooksFresh
<1>3. "DUMPER" \in Suspicions(w) <=> SoldPart(w, 65)
  BY SMTT(30) DEF Suspicions, When
<1>4. "DEV_RELATED" \in Suspicions(w) <=> LooksRelated(w)
  BY SMTT(30) DEF Suspicions, When, LooksRelated
<1>5. "BOT" \in Suspicions(w) <=> LooksAutomated(w)
  BY SMTT(30) DEF Suspicions, When, LooksAutomated
<1>. QED BY <1>1, <1>2, <1>3, <1>4, <1>5, SuspicionsAre

\* A smart wallet has no suspicion but that of a whale.
LEMMA SmartIs ==
    ASSUME NEW w, NEW x
    PROVE  x \in WalletLabels(w) <=>
             \/ x \in Suspicions(w)
             \/ /\ x = "SMART_WALLET"
                /\ w.percent \in 2..80 /\ w.bought > w.sold
                /\ 100 * w.sold =< 20 * w.bought
                /\ \A y \in w.entry : y > 300
                /\ Suspicions(w) \subseteq {"WHALE"}
  BY DEF WalletLabels, When

\* The score of a wallet with one label and nothing that lowers it.
LEMMA ScoreOfOne ==
    ASSUME NEW w, NEW l \in LabelNames, WalletLabels(w) = {l},
           ~(w.percent >= 100), ~(w.percent >= 200), ~SoldPart(w, 80), ~Busy(w)
    PROVE  WalletScore(w) = LabelScore(l)
<1>. DEFINE labels == [k \in WalletLabels(w) |-> LabelScore(k)]
<1>1. LabelScore(l) \in -4..3
  BY DEF LabelScore, LabelNames
<1>2. SumFunction(labels) = SumOf(labels)
  BY DEF SumFunction, SumFunctionOnSet, FoldFunctionOnSet, MapThenFoldSet, SumOf, Sums
<1>3. DOMAIN labels = {l} /\ labels[l] = LabelScore(l)
  OBVIOUS
<1>4. SumFunction(labels) = LabelScore(l)
  <2>. HIDE DEF labels
  <2>. QED BY <1>1, <1>2, <1>3, SumOfOne
<1>5. WalletScore(w) = Larger(-10, Smaller(10, SumFunction(labels) + (0 + 0 + 0)))
  BY DEF WalletScore
<1>. HIDE DEF labels
<1>. QED BY <1>1, <1>4, <1>5 DEF Larger, Smaller

\* The three wallets the lists are made of.
LEMMA CalmIs == Suspicions(Calm) = {} /\ WalletScore(Calm) = 3
<1>1. /\ ~Whale(Calm) /\ ~Sniper(Calm) /\ ~SoldPart(Calm, 65) /\ ~SoldPart(Calm, 80)
      /\ ~Busy(Calm)
  BY SMT DEF Calm, Whale, Sniper, SoldPart, Busy
<1>2. ~LooksFresh(Calm) /\ ~LooksRelated(Calm) /\ ~LooksAutomated(Calm)
  BY SMT, <1>1 DEF Calm, LooksFresh, LooksRelated, LooksAutomated
<1>3. Suspicions(Calm) = {}
  BY <1>1, <1>2, LabelsAre
<1>4. /\ Calm.percent \in 2..80 /\ Calm.bought > Calm.sold
      /\ 100 * Calm.sold =< 20 * Calm.bought
      /\ \A y \in Calm.entry : y > 300
      /\ ~(Calm.percent >= 100) /\ ~(Calm.percent >= 200)
  BY SMT DEF Calm
<1>5. WalletLabels(Calm) = {"SMART_WALLET"}
  BY <1>3, <1>4, SmartIs
<1>6. WalletScore(Calm) = LabelScore("SMART_WALLET")
  BY <1>1, <1>4, <1>5, ScoreOfOne DEF LabelNames
<1>. QED BY <1>3, <1>6 DEF LabelScore

LEMMA SnipingIs == WalletScore(Sniping) = -2
<1>1. /\ ~Whale(Sniping) /\ Sniper(Sniping) /\ ~SoldPart(Sniping, 65) /\ ~SoldPart(Sniping, 80)
      /\ ~Busy(Sniping)
  BY SMT DEF Sniping, Calm, Whale, Sniper, SoldPart, Busy
<1>2. ~LooksFresh(Sniping) /\ ~LooksRelated(Sniping) /\ ~LooksAutomated(Sniping)
  BY SMT, <1>1 DEF Sniping, Calm, LooksFresh, LooksRelated, LooksAutomated
<1>3. Suspicions(Sniping) = {"SNIPER"}
  BY <1>1, <1>2, LabelsAre
<1>4. ~(Sniping.percent >= 100) /\ ~(Sniping.percent >= 200)
  BY SMT DEF Sniping, Calm
<1>5. WalletLabels(Sniping) = {"SNIPER"}
  BY <1>3, SmartIs
<1>6. WalletScore(Sniping) = LabelScore("SNIPER")
  BY <1>1, <1>4, <1>5, ScoreOfOne DEF LabelNames
<1>. QED BY <1>6 DEF LabelScore

LEMMA FreshIs == WalletScore(Fresh) = -4
<1>1. /\ ~Whale(Fresh) /\ ~Sniper(Fresh) /\ ~SoldPart(Fresh, 65) /\ ~SoldPart(Fresh, 80)
      /\ ~Busy(Fresh)
  BY SMT DEF Fresh, Calm, Whale, Sniper, SoldPart, Busy
<1>2. LooksFresh(Fresh) /\ ~LooksRelated(Fresh) /\ ~LooksAutomated(Fresh)
  BY SMT, <1>1 DEF Fresh, Calm, LooksFresh, LooksRelated, LooksAutomated
<1>3. Suspicions(Fresh) = {"FRESH_WALLET"}
  BY <1>1, <1>2, LabelsAre
<1>4. ~(Fresh.percent >= 100) /\ ~(Fresh.percent >= 200)
  BY SMT DEF Fresh, Calm
<1>5. WalletLabels(Fresh) = {"FRESH_WALLET"}
  BY <1>3, SmartIs
<1>6. WalletScore(Fresh) = LabelScore("FRESH_WALLET")
  BY <1>1, <1>4, <1>5, ScoreOfOne DEF LabelNames
<1>. QED BY <1>6 DEF LabelScore

\* A wallet nothing is known of looks the same to everybody.
LEMMA Unfetched ==
    ASSUME NEW e, ~e.configured, NEW w \in {Sniping, Fresh}
    PROVE  Fetched(e, w) = Fetched(e, Calm)
<1>1. Sniping.percent = 10 /\ Sniping.rank = 9 /\ Sniping.shared = 0
  BY SMT DEF Sniping, Calm
<1>2. Fresh.percent = 10 /\ Fresh.rank = 9 /\ Fresh.shared = 0
  BY SMT DEF Fresh, Calm
<1>3. Calm.percent = 10 /\ Calm.rank = 9 /\ Calm.shared = 0
  BY SMT DEF Calm
<1>. QED BY <1>1, <1>2, <1>3 DEF Fetched

\* A list of wallets that is worse has worse wallets, one by one.
LEMMA WalletLists ==
    ASSUME NEW e, NEW d, d.configured = e.configured, Worse("wallets", e.wallets, d.wallets)
    PROVE  e.wallets # d.wallets /\ WalletsNoBetter(e, d)
<1>. DEFINE A == Wallets(0, Calm, 0)
            B == Wallets(0, Calm, 1)
            C == Wallets(0, Calm, 2)
            D == Wallets(1, Fresh, 2)
            Suspect == {Sniping, Fresh}
            Step(x, y) == /\ DOMAIN x = 1..6 /\ DOMAIN y = 1..6 /\ x # y /\ y # << >>
                          /\ \A h \in 1..6 : y[h] = x[h] \/ (x[h] = Calm /\ y[h] \in Suspect)
<1>1. Ranked("wallets") = << A, B, C, D >>
  BY Names DEF Ranked, Downhill
<1>2. Calm # Sniping /\ Calm # Fresh
  BY CalmIs, SnipingIs, FreshIs
<1>3. /\ A = [h \in 1..6 |-> Calm]
      /\ B = [h \in 1..6 |-> IF h =< 1 THEN Sniping ELSE Calm]
      /\ C = [h \in 1..6 |-> IF h =< 2 THEN Sniping ELSE Calm]
      /\ D = [h \in 1..6 |-> IF h =< 2 THEN Sniping ELSE IF h =< 3 THEN Fresh ELSE Calm]
  BY DEF Wallets
<1>4. Step(A, B) /\ Step(A, C) /\ Step(A, D) /\ Step(B, C) /\ Step(B, D) /\ Step(C, D)
  <2>. HIDE DEF A, B, C, D
  <2>. QED BY <1>2, <1>3
<1>5. Step(e.wallets, d.wallets)
  <2>. HIDE DEF A, B, C, D, Step
  <2>. QED BY <1>1, <1>4, FourValues
<1>6. ASSUME NEW w \in Suspect
      PROVE  /\ Suspects(Fetched(e, Calm)) \subseteq Suspects(Fetched(d, w))
             /\ WalletScore(Fetched(d, w)) =< WalletScore(Fetched(e, Calm))
  <2>1. CASE e.configured
    <3>1. Fetched(e, Calm) = Calm /\ Fetched(d, w) = w
      BY <2>1 DEF Fetched
    <3>2. Suspects(Calm) = {}
      BY CalmIs, SmartIs DEF Suspects
    <3>3. WalletScore(w) =< WalletScore(Calm)
      BY CalmIs, SnipingIs, FreshIs
    <3>. QED BY <3>1, <3>2, <3>3
  <2>2. CASE ~e.configured
    <3>1. Fetched(d, w) = Fetched(d, Calm)
      BY <2>2, Unfetched
    <3>2. Fetched(d, Calm) = Fetched(e, Calm)
      BY <2>2 DEF Fetched
    <3>3. WalletScore(Fetched(e, Calm)) \in Int
      BY ScoreType
    <3>. QED BY <3>1, <3>2, <3>3
  <2>. QED BY <2>1, <2>2
<1>. QED BY <1>5, <1>6 DEF WalletsNoBetter

-----------------------------------------------------------------------------
(***************************************************************************)
(* The walk over the evidence.                                             *)
(***************************************************************************)
\* The inductive invariant: the verdicts are what the stages make of the evidence.
TableInv ==
    /\ DOMAIN evidence = Fields
    /\ IsEvidence(evidence) /\ verdicts = Row(evidence)

LEMMA TableInvariant == TableSpec => []TableInv
<1>1. TableInit => TableInv
  BY DEF TableInit, TableInv, Spotless
<1>2. TableInv /\ [TableNext]_tableVars => TableInv'
  <2>. SUFFICES ASSUME TableInv, [TableNext]_tableVars PROVE TableInv'
    OBVIOUS
  <2>1. CASE UNCHANGED tableVars
    BY <2>1 DEF TableInv, tableVars
  <2>2. CASE TableNext
    <3>1. PICK f \in Fields : LeavesSpotless(f) \/ GetsWorse(f)
      BY <2>2 DEF TableNext
    <3>2. \E w : Becomes(f, w)
      BY <3>1 DEF LeavesSpotless, GetsWorse
    <3>. QED BY <3>2 DEF Becomes, TableInv
  <2>. QED BY <2>1, <2>2
<1>. QED BY <1>1, <1>2, PTL DEF TableSpec

\* The rows of the walk are rows the decision may be asked about.
LEMMA RowOfTable == TableInv => IsRow(verdicts)
<1>. SUFFICES ASSUME TableInv PROVE IsRow(Row(evidence))
  BY DEF TableInv
<1>1. \A l \in Layers : Row(evidence)[l] \in Findings(l)
  BY VerdictsListed
<1>2. Row(evidence)["market"] # "none"
  BY <1>1 DEF Findings, Layers
<1>3. \A l \in Layers : Findings(l) \subseteq Verdicts
  BY DEF Findings, Verdicts
<1>4. Row(evidence) \in [Layers -> Verdicts]
  BY <1>1, <1>3 DEF Row
<1>. QED BY <1>1, <1>2, <1>4 DEF IsRow

\* Whatever the bound on the defects: each stage writes a verdict its layer has.
THEOREM TableVerdicts == TableSpec => []VerdictsAreFindings
<1>1. TableInv => VerdictsAreFindings
  BY VerdictsListed DEF TableInv, VerdictsAreFindings
<1>. QED BY <1>1, TableInvariant, PTL

\* Whatever the bound on the defects: missing data is never a pass.
THEOREM TableSilence == TableSpec => []SilenceNeverPasses
<1>1. TableInv => SilenceNeverPasses
  BY SilenceDoesNotPass DEF TableInv, SilenceNeverPasses, Decision
<1>. QED BY <1>1, TableInvariant, PTL

\* Whatever the bound on the defects: a token that passes without a warning
\* has a low insider probability.
THEOREM TableCleanPass == TableSpec => []CleanPassIsLow
<1>1. TableInv => CleanPassIsLow
  BY CleanPassesAreLow DEF TableInv, CleanPassIsLow, Decision
<1>. QED BY <1>1, TableInvariant, PTL

\* Whatever the bound on the defects: a pass needs every answer and no danger.
THEOREM TableFailsClosed == TableSpec => []FailsClosed
<1>1. TableInv => FailsClosed
  BY PassesAreAnswered DEF FailsClosed
<1>. QED BY <1>1, TableInvariant, PTL

\* Whatever the bound on the defects: the first objection names the outcome.
THEOREM TableFirstObjection == TableSpec => []FirstObjectionDecides
<1>1. TableInv => FirstObjectionDecides
  BY RowOfTable, FirstObjectionIsNamed DEF FirstObjectionDecides
<1>. QED BY <1>1, TableInvariant, PTL

-----------------------------------------------------------------------------
(***************************************************************************)
(* A step of the walk: one fact of d is worse than in e, the others are    *)
(* the same.                                                               *)
(***************************************************************************)
OneWorse(e, d, f) ==
    /\ f \in Fields /\ Worse(f, e[f], d[f])
    /\ \A g \in Fields \ {f} : d[g] = e[g]

\* The fields of the evidence.
LEMMA FieldNames ==
    Fields = DOMAIN Downhill \cup {"age", "trades5", "trades1", "volume5", "volume1", "mcap",
                                   "bought", "moved", "auditAnswered", "flowAnswered"}
  BY DEF Fields, Middling

\* Only the listed fields have better and worse values.
LEMMA WorseIsListed ==
    ASSUME NEW f, NEW v, NEW w, Worse(f, v, w)
    PROVE  f \in DOMAIN Downhill
  BY DEF Worse, Ranked

\* The order of a group of facts holds if the worse fact is in it, and if not.
LEMMA PriceStep ==
    ASSUME NEW e, NEW d, NEW f, IsEvidence(e), IsEvidence(d), OneWorse(e, d, f)
    PROVE  PriceNoBetter(e, d)
<1>1. /\ IsOptional(e.m5) /\ IsOptional(e.h1) /\ IsOptional(e.liquidity)
  BY DEF IsEvidence
<1>2. Sinks(e.m5, e.m5) /\ Sinks(e.h1, e.h1) /\ Sinks(e.liquidity, e.liquidity)
  BY <1>1 DEF Sinks, IsOptional
<1>3. \A g \in {"age", "mcap", "trades5", "trades1", "volume5", "volume1",
                "m5", "h1", "liquidity"} : d[g] = e[g] \/ g = f
  BY FieldNames, Names DEF OneWorse
<1>4. f \notin {"age", "mcap", "trades5", "trades1", "volume5", "volume1"}
  BY WorseIsListed, Names DEF OneWorse
<1>5. f = "m5" => Sinks(e.m5, d.m5)
  BY PriceLists DEF OneWorse
<1>6. f = "h1" => Sinks(e.h1, d.h1) /\ \A x \in e.h1 : x < 100
  BY PriceLists DEF OneWorse
<1>7. f = "liquidity" => d.liquidity = {} \/ Sinks(e.liquidity, d.liquidity)
  BY PriceLists DEF OneWorse
<1>. QED BY <1>2, <1>3, <1>4, <1>5, <1>6, <1>7 DEF PriceNoBetter

LEMMA ReportStep ==
    ASSUME NEW e, NEW d, NEW f, IsEvidence(e), IsEvidence(d), OneWorse(e, d, f)
    PROVE  ReportNoBetter(e, d)
<1>1. \A s, t \in e.shares : Lower(s, t)
  BY DEF IsEvidence, Lower
<1>2. e.balance \in Nat
  BY DEF IsEvidence
<1>3. \A g \in {"answered", "totals", "mint", "freeze", "risks", "owners",
                "shares", "lp", "dev", "balance"} : d[g] = e[g] \/ g = f
  BY FieldNames, Names DEF OneWorse
<1>4. /\ f = "answered" => e.answered = TRUE /\ d.answered = FALSE
      /\ f = "dev" => e.dev = TRUE /\ d.dev = FALSE
      /\ f = "mint" => e.mint = FALSE /\ d.mint = TRUE
      /\ f = "freeze" => e.freeze = FALSE /\ d.freeze = TRUE
  BY SwitchLists DEF OneWorse
<1>5. /\ f = "owners" => d.owners = 0
      /\ f = "balance" => d.balance =< e.balance
  BY FallingLists DEF OneWorse
<1>6. f = "totals" => /\ Stated0(d.totals.supply)
                      /\ Stated0(d.totals.cap) /\ Stated0(d.totals.holders)
  BY ReportLists DEF OneWorse
<1>7. f = "risks" => e.risks \subseteq d.risks
  BY ReportLists DEF OneWorse
<1>8. f = "shares" => e.shares # {} /\ \A s \in e.shares, t \in d.shares : Lower(s, t)
  BY ReportLists DEF OneWorse
<1>9. f = "lp" => LockNoBetter(e.lp, d.lp)
  BY ReportLists DEF OneWorse
<1>10. LockNoBetter(e.lp, e.lp)
  BY DEF LockNoBetter
<1>11. /\ d.answered => e.answered
       /\ d.dev => e.dev
       /\ e.mint => d.mint
       /\ e.freeze => d.freeze
  BY <1>3, <1>4
<1>12. /\ Stated0(e.totals.supply) => Stated0(d.totals.supply)
       /\ Stated0(e.totals.cap) => Stated0(d.totals.cap)
       /\ Stated0(e.totals.holders) => Stated0(d.totals.holders)
  BY <1>3, <1>6
<1>13. /\ e.risks \subseteq d.risks
       /\ d.owners = e.owners \/ d.owners = 0
       /\ d.balance =< e.balance
  BY <1>2, <1>3, <1>5, <1>7
<1>14. /\ d.shares # {} => e.shares # {}
       /\ \A s \in e.shares, t \in d.shares : Lower(s, t)
  BY <1>1, <1>3, <1>8
<1>15. LockNoBetter(e.lp, d.lp)
  BY <1>3, <1>9, <1>10
<1>. QED BY <1>11, <1>12, <1>13, <1>14, <1>15 DEF ReportNoBetter

LEMMA HoldersStep ==
    ASSUME NEW e, NEW d, NEW f, IsEvidence(e), IsEvidence(d), OneWorse(e, d, f)
    PROVE  HoldersNoBetter(e, d)
<1>1. /\ e.funded \in Nat /\ e.largest \in Nat /\ e.sponsored \in Nat
      /\ e.distributed \in Nat /\ e.linked \in Nat /\ e.dumped \in Nat
  BY DEF IsEvidence
<1>2. \A g \in {"configured", "funded", "largest", "sponsored", "distributed",
                "linked", "dumped"} : d[g] = e[g] \/ g = f
  BY FieldNames, Names DEF OneWorse
<1>3. f = "configured" => e.configured = TRUE /\ d.configured = FALSE
  BY SwitchLists DEF OneWorse
<1>4. f = "funded" => d.funded =< e.funded
  BY FallingLists DEF OneWorse
<1>5. f \in {"largest", "sponsored", "distributed", "linked", "dumped"} =>
        e[f] =< d[f]
  BY RisingLists DEF OneWorse
<1>6. d.configured => e.configured
  BY <1>2, <1>3
<1>7. d.funded =< e.funded
  BY <1>1, <1>2, <1>4
<1>8. /\ e.largest =< d.largest /\ e.sponsored =< d.sponsored
      /\ e.distributed =< d.distributed /\ e.linked =< d.linked /\ e.dumped =< d.dumped
  BY <1>1, <1>2, <1>5
<1>. QED BY <1>6, <1>7, <1>8 DEF HoldersNoBetter

LEMMA DevStep ==
    ASSUME NEW e, NEW d, NEW f, IsEvidence(e), IsEvidence(d), OneWorse(e, d, f),
           f = "sold" => e.auditAnswered
    PROVE  DevNoBetter(e, d)
<1>1. e.direct \in Nat /\ e.splitters \in Nat /\ e.proxies \in Nat
  BY DEF IsEvidence
<1>2. \A g \in {"auditAnswered", "flowAnswered", "bought", "moved", "sold", "direct",
                "splitters", "proxies"} : d[g] = e[g] \/ g = f
  BY FieldNames, Names DEF OneWorse
<1>3. f \notin {"auditAnswered", "flowAnswered", "bought", "moved"}
  BY WorseIsListed, Names DEF OneWorse
<1>4. f \in {"sold", "direct", "splitters", "proxies"} => e[f] =< d[f]
  BY RisingLists DEF OneWorse
<1>. QED BY <1>1, <1>2, <1>3, <1>4 DEF DevNoBetter

LEMMA WalletsStep ==
    ASSUME NEW e, NEW d, NEW f, OneWorse(e, d, f)
    PROVE  WalletsNoBetter(e, d)
<1>1. CASE f = "wallets"
  <2>1. d.configured = e.configured
    BY <1>1, FieldNames, Names DEF OneWorse
  <2>. QED BY <1>1, <2>1, WalletLists DEF OneWorse
<1>2. CASE f # "wallets"
  <2>1. d.wallets = e.wallets
    BY <1>2, FieldNames, Names DEF OneWorse
  <2>. QED BY <1>2, <2>1 DEF WalletsNoBetter
<1>. QED BY <1>1, <1>2

\* The lists have no value twice.
LEMMA WorseIsOther ==
    ASSUME NEW f, NEW v, NEW w, Worse(f, v, w)
    PROVE  v # w
<1>1. f \in DOMAIN Downhill
  BY WorseIsListed
<1>2. f \in {"m5", "h1", "liquidity"} => v # w
  BY PriceLists
<1>3. f \in {"totals", "risks", "shares", "lp"} => v # w
  BY ReportLists
<1>4. f \in {"answered", "dev", "configured", "mint", "freeze"} => v # w
  BY SwitchLists
<1>5. f \in {"owners", "balance", "funded"} => v # w
  BY FallingLists
<1>6. f \in {"largest", "sponsored", "distributed", "linked", "dumped",
             "sold", "direct", "splitters", "proxies"} => v # w
  BY RisingLists
<1>7. f = "wallets" => v # w
  <2>. DEFINE e == [configured |-> TRUE, wallets |-> v]
              d == [configured |-> TRUE, wallets |-> w]
  <2>1. Worse("wallets", v, w) => e.wallets # d.wallets
    BY WalletLists
  <2>. QED BY <2>1
<1>. QED BY <1>1, <1>2, <1>3, <1>4, <1>5, <1>6, <1>7, Names

\* One worse fact makes evidence that is no better.
LEMMA StepIsNoBetter ==
    ASSUME NEW e, NEW d, NEW f, IsEvidence(e), IsEvidence(d), OneWorse(e, d, f),
           f = "sold" => e.auditAnswered
    PROVE  NoBetter(e, d)
  BY PriceStep, ReportStep, HoldersStep, DevStep, WalletsStep DEF NoBetter

\* Whatever the bound on the defects, and however many facts are off already:
\* a fact that gets worse never makes the decision less cautious.
THEOREM TableWorse == TableSpec => WorseEvidenceNeverHelps
<1>1. ASSUME TableInv, TableInv', TableNext,
             NEW f \in Fields, Told(f), Worse(f, evidence[f], evidence'[f])
      PROVE  Caution(Decision(evidence)) =< Caution(Decision(evidence'))
  <2>1. PICK g \in Fields : \E w : evidence' = [evidence EXCEPT ![g] = w]
    BY <1>1 DEF TableNext, LeavesSpotless, GetsWorse, Becomes
  <2>2. DOMAIN evidence = Fields
    BY <1>1 DEF TableInv
  <2>3. g = f
    <3>1. evidence[f] # evidence'[f]
      BY <1>1, WorseIsOther
    <3>. QED BY <2>1, <2>2, <3>1
  <2>4. OneWorse(evidence, evidence', f)
    BY <1>1, <2>1, <2>2, <2>3 DEF OneWorse
  <2>5. f = "sold" => evidence.auditAnswered
    BY <1>1 DEF Told
  <2>6. IsEvidence(evidence) /\ IsEvidence(evidence')
    BY <1>1 DEF TableInv
  <2>7. NoBetter(evidence, evidence')
    BY <2>4, <2>5, <2>6, StepIsNoBetter
  <2>. QED BY <2>6, <2>7, WorseFactsNeverHelp
<1>2. TableInv /\ TableInv' /\ [TableNext]_tableVars =>
        [ (\E f \in Fields : Told(f) /\ Worse(f, evidence[f], evidence'[f])) =>
              Caution(classify_watchlist_decision(verdicts)) =<
                  Caution(classify_watchlist_decision(verdicts')) ]_tableVars
  BY <1>1 DEF TableInv, Decision
<1>. QED BY <1>2, TableInvariant, PTL DEF TableSpec, WorseEvidenceNeverHelps
=============================================================================
