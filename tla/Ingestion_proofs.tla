--------------------------- MODULE Ingestion_proofs ---------------------------
(***************************************************************************)
(* Proofs about Ingestion, for any tokens, pairs, observations, processes, *)
(* runs and faults.                                                        *)
(***************************************************************************)
EXTENDS Ingestion, FiniteSetTheorems, SequenceTheorems, TLAPS

-----------------------------------------------------------------------------
(***************************************************************************)
(* A process and how its statements change it.                             *)
(***************************************************************************)
AtItem == {"profile", "fetch", "trail_token", "trail", "snapshot", "token",
           "pair", "price", "checks"}
Places == AtItem \cup {"idle", "discover", "close", "fail"}

Process == [pc : Places, kind : {"scan", "manual"}, run : 0..MaxRuns,
            todo : Seq(Items), item : Items0, found : Nat, saved : Nat,
            errors : Nat, error : Errors]

LEMMA NoItemType ==
    /\ NoItem \in Items0 /\ NoItem.pair = NoPair /\ NoItem.token = NoToken
    /\ NoItem.seen \in Observations
BY ObservationsAssumption DEF NoItem, Items0

LEMMA EndedType ==
    /\ Ended \in Process /\ Ended.pc = "idle" /\ Ended.run = 0 /\ Ended.todo = <<>>
    /\ Ended.saved = 0 /\ Ended.errors = 0 /\ Ended.error = "none" /\ Ended.kind = "scan"
<1>1. <<>> \in Seq(Items) /\ 0 \in 0..MaxRuns
  BY BoundsAssumption
<1>. QED BY <1>1, NoItemType DEF Ended, Process, Places, Errors

LEMMA ItemsType ==
    ASSUME NEW i \in Items
    PROVE  i \in Items0 /\ i.token \in Tokens /\ i.pair \in Pairs \cup {NoPair} /\ i.seen \in Observations
BY DEF Items, Items0

\* The next token of the loop.
LEMMA NextTokenIs ==
    ASSUME NEW q \in Process
    PROVE  /\ NextToken(q) \in Process
           /\ IF q.todo = <<>>
              THEN /\ NextToken(q).pc = "close" /\ NextToken(q).todo = <<>>
                   /\ NextToken(q).item = q.item
              ELSE /\ NextToken(q).pc = "profile" /\ NextToken(q).todo = Tail(q.todo)
                   /\ NextToken(q).item = Head(q.todo) /\ Head(q.todo) \in Items
           /\ NextToken(q).kind = q.kind /\ NextToken(q).run = q.run
           /\ NextToken(q).found = q.found /\ NextToken(q).saved = q.saved
           /\ NextToken(q).errors = q.errors /\ NextToken(q).error = q.error
<1>1. CASE q.todo = <<>>
  BY <1>1 DEF NextToken, Process, Places
<1>2. CASE q.todo # <<>>
  <2>1. Head(q.todo) \in Items /\ Tail(q.todo) \in Seq(Items)
    BY <1>2, HeadTailProperties DEF Process
  <2>2. Head(q.todo) \in Items0
    BY <2>1, ItemsType
  <2>3. NextToken(q) = [q EXCEPT !.pc = "profile", !.item = Head(q.todo), !.todo = Tail(q.todo)]
    BY <1>2 DEF NextToken
  <2>. QED BY <1>2, <2>1, <2>2, <2>3 DEF Process, Places, AtItem
<1>. QED BY <1>1, <1>2

\* What an exception makes of a process.
LEMMA RaisedIs ==
    ASSUME NEW q \in Process, NEW e \in Errors
    PROVE  /\ Raised(q, e) \in Process
           /\ Raised(q, e).kind = q.kind /\ Raised(q, e).run = q.run
           /\ Raised(q, e).found = q.found /\ Raised(q, e).errors = q.errors + 1
           /\ Raised(q, e).pc # "idle"
           /\ IF q.kind = "scan" /\ q.pc \notin {"discover", "close"}
              THEN /\ Raised(q, e).saved = q.saved /\ Raised(q, e).error = q.error
                   /\ IF q.todo = <<>>
                      THEN /\ Raised(q, e).pc = "close" /\ Raised(q, e).todo = <<>>
                           /\ Raised(q, e).item = q.item
                      ELSE /\ Raised(q, e).pc = "profile" /\ Raised(q, e).todo = Tail(q.todo)
                           /\ Raised(q, e).item = Head(q.todo) /\ Head(q.todo) \in Items
              ELSE /\ Raised(q, e).pc = "fail" /\ Raised(q, e).error = e
                   /\ Raised(q, e).saved = (IF q.kind = "scan" THEN q.saved ELSE 0)
                   /\ Raised(q, e).item = q.item /\ Raised(q, e).todo = q.todo
<1>1. CASE q.kind = "scan" /\ q.pc \notin {"discover", "close"}
  <2>. DEFINE c == [q EXCEPT !.errors = @ + 1]
  <2>1. c \in Process /\ c.todo = q.todo /\ c.item = q.item /\ c.kind = q.kind
        /\ c.run = q.run /\ c.found = q.found /\ c.saved = q.saved
        /\ c.errors = q.errors + 1 /\ c.error = q.error
    BY DEF Process
  <2>2. Raised(q, e) = NextToken(c)
    BY <1>1 DEF Raised
  <2>. HIDE DEF c
  <2>. QED BY <1>1, <2>1, <2>2, NextTokenIs
<1>2. CASE ~(q.kind = "scan" /\ q.pc \notin {"discover", "close"})
  <2>1. PICK s \in Nat : s = IF q.kind = "scan" THEN q.saved ELSE 0
    BY DEF Process
  <2>2. PICK b : b = [q EXCEPT !.pc = "fail"]
    OBVIOUS
  <2>a. "fail" \in Places
    BY DEF Places
  <2>b. /\ b \in Process /\ b.pc = "fail" /\ b.errors = q.errors /\ b.kind = q.kind
        /\ b.run = q.run /\ b.found = q.found /\ b.item = q.item /\ b.todo = q.todo
    BY <2>2, <2>a DEF Process
  <2>c. PICK c : c = [b EXCEPT !.errors = q.errors + 1]
    OBVIOUS
  <2>3. /\ c \in Process /\ c.pc = "fail" /\ c.errors = q.errors + 1 /\ c.kind = q.kind
        /\ c.run = q.run /\ c.found = q.found /\ c.item = q.item /\ c.todo = q.todo
    BY <2>b, <2>c DEF Process
  <2>4. Raised(q, e) = [c EXCEPT !.error = e, !.saved = s]
    BY <1>2, <2>1, <2>2, <2>c DEF Raised
  <2>. QED BY <1>2, <2>1, <2>3, <2>4 DEF Process
<1>. QED BY <1>1, <1>2

\* A statement of p has ended.
LEMMA GoesIs ==
    ASSUME proc \in [Procs -> Process], NEW p \in Procs, NEW end \in Ends,
           NEW q \in Process, Goes(p, end, q)
    PROVE  /\ proc' \in [Procs -> Process] /\ \A o \in Procs \ {p} : proc'[o] = proc[o]
           /\ proc'[p] = IF end = "done" THEN q ELSE Raised(proc[p], "database")
           /\ IF end = "done" THEN faults' = faults ELSE faults > 0 /\ faults' = faults - 1
<1>1. Raised(proc[p], "database") \in Process
  BY RaisedIs DEF Errors
<1>. QED BY <1>1 DEF Goes

-----------------------------------------------------------------------------
(***************************************************************************)
(* The parts of the invariant.                                             *)
(***************************************************************************)
Tabled ==
    /\ tokens \subseteq Tokens
    /\ owner \in [Pairs -> Tokens \cup {NoToken}]
    /\ prices \subseteq Pairs
    /\ snapshots \subseteq [run : 1..MaxRuns, pair : Pairs]
    /\ checks \subseteq [run : 1..MaxRuns, token : Tokens, pair : Pairs,
                         seen : Observations]
    /\ trails \subseteq [run : 1..MaxRuns, token : Tokens]

Types ==
    /\ runs \in [1..MaxRuns -> [status : {"none", "running", "success", "failed"},
                               found : Nat, saved : Nat, errors : Nat, error : Errors]]
    /\ latest \in 0..MaxRuns
    /\ faults \in 0..MaxFaults
    /\ proc \in [Procs -> Process]
    /\ Tabled

\* A process works on a run of its own, which is open until it is closed.
Owned ==
    /\ \A p \in Procs :
          /\ proc[p].pc = "idle" => proc[p].run = 0
          /\ proc[p].pc # "idle" => /\ proc[p].run \in 1..latest
                                    /\ runs[proc[p].run].status # "none"
          /\ proc[p].pc \notin {"idle", "fail"} => runs[proc[p].run].status = "running"
    /\ \A p, o \in Procs : p # o /\ proc[p].pc # "idle" => proc[p].run # proc[o].run
    /\ \A r \in 1..MaxRuns : r > latest => runs[r] = NoRun
    /\ \A c \in checks : c.run =< latest

\* What a process q has behind it at its place.
Holds(q) ==
    /\ q.pc \in AtItem => q.item.token \in Tokens
    /\ q.pc = "profile" /\ q.kind = "scan" => q.item \in Items
    /\ q.pc \in {"snapshot", "token", "pair", "price", "checks"} =>
          q.item \in Items /\ q.item.pair # NoPair
    /\ q.pc \in {"token", "pair", "price", "checks"} =>
          [run |-> q.run, pair |-> q.item.pair] \in snapshots
    /\ q.pc \in {"pair", "price", "checks"} => q.item.token \in tokens
    /\ q.pc \in {"price", "checks"} => owner[q.item.pair] \in tokens
    /\ q.pc = "checks" => q.item.pair \in prices
    /\ q.pc \in {"fetch", "trail_token", "trail"} => q.kind = "manual"
    /\ q.pc = "discover" => q.kind = "scan" /\ q.error = "none"
    /\ q.error = "unavailable" => \E x \in trails : x.run = q.run

\* What a row of risk_checks has behind it.
Complete(c) ==
    /\ c.token \in tokens
    /\ owner[c.pair] \in tokens
    /\ c.pair \in prices
    /\ [run |-> c.run, pair |-> c.pair] \in snapshots

\* What no step takes back.
Grows ==
    /\ tokens \subseteq tokens' /\ snapshots \subseteq snapshots'
    /\ prices \subseteq prices' /\ trails \subseteq trails'
    /\ \A q \in Pairs : owner[q] \in tokens => owner'[q] \in tokens'

LEMMA HoldsKept ==
    ASSUME Grows, NEW q \in Process, Holds(q)
    PROVE  Holds(q)'
<1>1. q.item \in Items /\ q.item.pair # NoPair => q.item.pair \in Pairs
  BY ItemsType
<1>. QED BY <1>1 DEF Holds, Grows

LEMMA CompleteKept ==
    ASSUME Grows, NEW c, c.pair \in Pairs, Complete(c)
    PROVE  Complete(c)'
BY DEF Complete, Grows

LEMMA RaisedHolds ==
    ASSUME NEW q \in Process, Holds(q)', NEW e \in Errors,
           e = "unavailable" => \E x \in trails' : x.run = q.run
    PROVE  Holds(Raised(q, e))'
<1>1. PICK n : n = Raised(q, e)
  OBVIOUS
<1>2. \/ n.pc = "profile" /\ n.item \in Items /\ n.kind = "scan" /\ n.error = q.error
      \/ n.pc = "close" /\ n.error = q.error
      \/ n.pc = "fail" /\ n.error = e
  BY <1>1, RaisedIs
<1>3. n.run = q.run
  BY <1>1, RaisedIs
<1>4. Holds(n)'
  BY <1>2, <1>3, ItemsType DEF Holds, AtItem
<1>. QED BY <1>1, <1>4

-----------------------------------------------------------------------------
(***************************************************************************)
(* The steps inside a run.                                                 *)
(***************************************************************************)
CheckOf(q) == [run |-> q.run, token |-> q.item.token, pair |-> q.item.pair,
               seen |-> q.item.seen]

\* What the steps inside a run have in common.
Inner(p) ==
    /\ UNCHANGED <<runs, latest>>
    /\ proc[p].pc \in AtItem \cup {"discover"} /\ proc'[p].pc # "idle"
    /\ proc' \in [Procs -> Process] /\ proc'[p].run = proc[p].run
    /\ \A o \in Procs \ {p} : proc'[o] = proc[o]
    /\ faults' \in 0..faults
    /\ \/ checks' = checks
       \/ proc[p].pc = "checks" /\ checks' = checks \cup {CheckOf(proc[p])}

Safe(p) == Types /\ Owned /\ Holds(proc[p])

LEMMA GoesOn ==
    ASSUME NEW p \in Procs, Safe(p), Grows, UNCHANGED <<runs, latest>>,
           proc[p].pc \in AtItem \cup {"discover"},
           \/ checks' = checks
           \/ proc[p].pc = "checks" /\ checks' = checks \cup {CheckOf(proc[p])},
           NEW end \in Ends, NEW q \in Process, Goes(p, end, q),
           q.pc # "idle", q.run = proc[p].run, end = "done" => Holds(q)'
    PROVE  Inner(p) /\ Holds(proc[p])'
<1>1. /\ proc' \in [Procs -> Process] /\ \A o \in Procs \ {p} : proc'[o] = proc[o]
      /\ proc'[p] = IF end = "done" THEN q ELSE Raised(proc[p], "database")
      /\ IF end = "done" THEN faults' = faults ELSE faults > 0 /\ faults' = faults - 1
  BY GoesIs DEF Safe, Types
<1>2. faults' \in 0..faults
  BY <1>1 DEF Safe, Types
<1>3. PICK c : c = proc[p]
  OBVIOUS
<1>4. /\ c \in Process /\ Holds(c) /\ "database" \in Errors
  BY <1>3 DEF Safe, Types, Errors
<1>5. Holds(c)'
  BY <1>4, HoldsKept
<1>6. /\ Holds(Raised(c, "database"))' /\ Raised(c, "database").pc # "idle"
      /\ Raised(c, "database").run = c.run
  BY <1>4, <1>5, RaisedHolds, RaisedIs
<1>7. proc'[p].pc # "idle" /\ proc'[p].run = proc[p].run
  BY <1>1, <1>3, <1>6
<1>8. Holds(proc[p])'
  <2>1. CASE end = "done"
    BY <1>1, <2>1
  <2>2. CASE end # "done"
    <3>1. PICK n : n = Raised(c, "database")
      OBVIOUS
    <3>2. Holds(n)' /\ proc'[p] = n
      BY <1>1, <1>3, <1>6, <2>2, <3>1
    <3>. QED BY <3>2
  <2>. QED BY <2>1, <2>2
<1>. QED BY <1>1, <1>2, <1>7, <1>8 DEF Inner

\* A statement that goes on to the next place of the same item.
LEMMA StepsOn ==
    ASSUME NEW p \in Procs, Safe(p), Grows, UNCHANGED <<runs, latest, checks>>,
           proc[p].pc \in AtItem, NEW end \in Ends, NEW pc \in AtItem, Step(p, end, pc),
           NEW c, c = proc[p],
           end = "done" => \A q \in Process :
               q.pc = pc /\ q.run = c.run /\ q.item = c.item /\ q.kind = c.kind /\ q.error = c.error
                   => Holds(q)'
    PROVE  Inner(p) /\ Holds(proc[p])'
<1>1. PICK q : q = [c EXCEPT !.pc = pc]
  OBVIOUS
<1>2. pc \in Places /\ c \in Process /\ pc # "idle"
  BY DEF Places, AtItem, Safe, Types
<1>3. /\ q \in Process /\ q.pc = pc /\ q.run = c.run /\ q.item = c.item
      /\ q.kind = c.kind /\ q.error = c.error
  BY <1>1, <1>2 DEF Process
<1>4. Goes(p, end, q)
  BY <1>1 DEF Step
<1>5. end = "done" => Holds(q)'
  BY <1>3
<1>. QED BY <1>2, <1>3, <1>4, <1>5, GoesOn

LEMMA ProfileStep ==
    ASSUME NEW p \in Procs, Safe(p), NEW end \in Ends, SavesProfile(p, end)
    PROVE  Inner(p) /\ Tabled' /\ Grows /\ Holds(proc[p])'
<1>1. PICK c : c = proc[p]
  OBVIOUS
<1>2. c.pc = "profile" /\ c \in Process /\ Holds(c) /\ UNCHANGED <<runs, latest, tables>>
  BY <1>1 DEF SavesProfile, Safe, Types
<1>3. Grows /\ Tabled' /\ checks' = checks
  BY <1>2 DEF Grows, tables, Safe, Types, Tabled
<1>4. Holds(c)'
  BY <1>2, <1>3, HoldsKept
<1>5. PICK q : /\ q = IF c.kind # "scan" THEN [c EXCEPT !.pc = "fetch"]
                      ELSE IF c.item.pair = NoPair THEN Raised(c, "no_pair")
                      ELSE [c EXCEPT !.pc = "snapshot"]
              /\ Goes(p, end, q)
  BY <1>1 DEF SavesProfile, Pair
<1>6. q \in Process /\ q.pc # "idle" /\ q.run = c.run /\ Holds(q)'
  <2>1. CASE c.kind # "scan"
    <3>1. q = [c EXCEPT !.pc = "fetch"]
      BY <1>5, <2>1
    <3>2. /\ q \in Process /\ q.pc = "fetch" /\ q.run = c.run /\ q.item = c.item
          /\ q.kind = "manual" /\ q.error = c.error
      BY <1>2, <2>1, <3>1 DEF Process, Places, AtItem
    <3>. QED BY <1>2, <1>4, <3>2 DEF Holds, AtItem
  <2>2. CASE c.kind = "scan" /\ c.item.pair = NoPair
    <3>1. q = Raised(c, "no_pair") /\ "no_pair" \in Errors
      BY <1>5, <2>2 DEF Errors
    <3>. QED BY <1>2, <1>4, <3>1, RaisedIs, RaisedHolds
  <2>3. CASE c.kind = "scan" /\ c.item.pair # NoPair
    <3>1. q = [c EXCEPT !.pc = "snapshot"]
      BY <1>5, <2>3
    <3>2. /\ q \in Process /\ q.pc = "snapshot" /\ q.run = c.run /\ q.item = c.item
          /\ q.kind = "scan" /\ q.error = c.error
      BY <1>2, <2>3, <3>1 DEF Process, Places, AtItem
    <3>. QED BY <1>2, <1>4, <2>3, <3>2 DEF Holds, AtItem
  <2>. QED BY <2>1, <2>2, <2>3
<1>. QED BY <1>1, <1>2, <1>3, <1>5, <1>6, GoesOn DEF AtItem

LEMMA FetchStep ==
    ASSUME NEW p \in Procs, Safe(p), FindsPair(p) \/ FindsNoPair(p) \/ FetchFails(p)
    PROVE  Inner(p) /\ Tabled' /\ Grows /\ Holds(proc[p])'
<1>1. PICK c : c = proc[p]
  OBVIOUS
<1>2. /\ c.pc = "fetch" /\ c \in Process /\ Holds(c) /\ UNCHANGED <<runs, latest, tables, faults>>
      /\ proc \in [Procs -> Process]
  BY <1>1 DEF FindsPair, FindsNoPair, FetchFails, Safe, Types
<1>3. Grows /\ Tabled' /\ checks' = checks
  BY <1>2 DEF Grows, tables, Safe, Types, Tabled
<1>4. Holds(c)'
  BY <1>2, <1>3, HoldsKept
<1>5. PICK q \in Process : /\ proc' = [proc EXCEPT ![p] = q] /\ q.pc # "idle" /\ q.run = c.run
                           /\ Holds(q)'
  <2>1. ASSUME FindsPair(p)
        PROVE  \E q \in Process : /\ proc' = [proc EXCEPT ![p] = q] /\ q.pc # "idle"
                                  /\ q.run = c.run /\ Holds(q)'
    <3>1. PICK i \in Items : /\ i.pair # NoPair
                             /\ proc' = [proc EXCEPT ![p].pc = "snapshot", ![p].item = i]
      BY <2>1 DEF FindsPair
    <3>2. PICK q : q = [c EXCEPT !.pc = "snapshot", !.item = i]
      OBVIOUS
    <3>3. /\ q \in Process /\ q.pc = "snapshot" /\ q.run = c.run /\ q.item = i
          /\ q.kind = c.kind /\ q.error = c.error
      BY <1>2, <3>2, ItemsType DEF Process, Places, AtItem
    <3>4. proc' = [proc EXCEPT ![p] = q]
      BY <1>1, <1>2, <3>1, <3>2
    <3>5. Holds(q)'
      BY <1>4, <3>1, <3>3, ItemsType DEF Holds, AtItem
    <3>. QED BY <3>3, <3>4, <3>5
  <2>2. ASSUME FindsNoPair(p)
        PROVE  \E q \in Process : /\ proc' = [proc EXCEPT ![p] = q] /\ q.pc # "idle"
                                  /\ q.run = c.run /\ Holds(q)'
    <3>1. PICK q : q = Raised(c, "no_pair")
      OBVIOUS
    <3>2. q \in Process /\ q.pc # "idle" /\ q.run = c.run /\ Holds(q)'
      BY <1>2, <1>4, <3>1, RaisedIs, RaisedHolds DEF Errors
    <3>. QED BY <1>1, <2>2, <3>1, <3>2 DEF FindsNoPair
  <2>3. ASSUME FetchFails(p)
        PROVE  \E q \in Process : /\ proc' = [proc EXCEPT ![p] = q] /\ q.pc # "idle"
                                  /\ q.run = c.run /\ Holds(q)'
    <3>1. PICK q : q = [c EXCEPT !.pc = "trail_token"]
      OBVIOUS
    <3>2. /\ q \in Process /\ q.pc = "trail_token" /\ q.run = c.run /\ q.item = c.item
          /\ q.kind = c.kind /\ q.error = c.error
      BY <1>2, <3>1 DEF Process, Places, AtItem
    <3>3. Holds(q)'
      BY <1>2, <1>4, <3>2 DEF Holds, AtItem
    <3>4. proc' = [proc EXCEPT ![p] = q]
      BY <1>1, <1>2, <2>3, <3>1 DEF FetchFails
    <3>. QED BY <3>2, <3>3, <3>4
  <2>. QED BY <2>1, <2>2, <2>3
<1>6. Holds(proc[p])' /\ proc'[p].pc # "idle" /\ proc'[p].run = c.run
  BY <1>2, <1>5
<1>7. faults' \in 0..faults
  BY <1>2 DEF Safe, Types
<1>. QED BY <1>1, <1>2, <1>3, <1>5, <1>6, <1>7 DEF Inner, AtItem

LEMMA TrailStep ==
    ASSUME NEW p \in Procs, Safe(p), NEW end \in Ends,
           SavesTrailToken(p, end) \/ record_data_unavailable(p, end)
    PROVE  Inner(p) /\ Tabled' /\ Grows /\ Holds(proc[p])'
<1>1. PICK c : c = proc[p]
  OBVIOUS
<1>2. /\ c.pc \in {"trail_token", "trail"} /\ c \in Process /\ Holds(c) /\ c.item.token \in Tokens
      /\ UNCHANGED <<runs, latest, owner, prices, snapshots, checks>>
      /\ c.kind = "manual"
  BY <1>1 DEF SavesTrailToken, record_data_unavailable, Safe, Types, Holds, AtItem
<1>3. ASSUME SavesTrailToken(p, end)
      PROVE  Inner(p) /\ Tabled' /\ Grows /\ Holds(proc[p])'
  <2>1. /\ tokens' = With(tokens, c.item.token, end) /\ trails' = trails
        /\ Step(p, end, "trail") /\ c.pc = "trail_token"
    BY <1>1, <1>3 DEF SavesTrailToken, Token
  <2>2. Grows /\ Tabled'
    BY <1>2, <2>1 DEF With, Grows, Safe, Types, Tabled
  <2>3. Holds(c)'
    BY <1>2, <2>2, HoldsKept
  <2>4. \A q \in Process :
          q.pc = "trail" /\ q.run = c.run /\ q.item = c.item /\ q.kind = c.kind /\ q.error = c.error
              => Holds(q)'
    BY <1>2, <2>3 DEF Holds, AtItem
  <2>. QED BY <1>1, <1>2, <2>1, <2>2, <2>4, StepsOn DEF AtItem
<1>4. ASSUME record_data_unavailable(p, end)
      PROVE  Inner(p) /\ Tabled' /\ Grows /\ Holds(proc[p])'
  <2>1. /\ trails' = With(trails, [run |-> c.run, token |-> c.item.token], end) /\ tokens' = tokens
        /\ Goes(p, end, Raised(c, "unavailable")) /\ c.pc = "trail"
    BY <1>1, <1>4 DEF record_data_unavailable, Token, Run
  <2>2. c.run \in 1..MaxRuns
    BY <1>1, <2>1, BoundsAssumption DEF Safe, Owned, Types
  <2>3. [run |-> c.run, token |-> c.item.token] \in [run : 1..MaxRuns, token : Tokens]
    BY <1>2, <2>2
  <2>4. Grows /\ Tabled'
    BY <1>2, <2>1, <2>3 DEF With, Grows, Safe, Types, Tabled
  <2>5. Holds(c)'
    BY <1>2, <2>4, HoldsKept
  <2>6. PICK q : q = Raised(c, "unavailable")
    OBVIOUS
  <2>7. q \in Process /\ q.pc # "idle" /\ q.run = c.run
    BY <1>2, <2>6, RaisedIs DEF Errors
  <2>8. end = "done" => Holds(q)'
    <3>1. end = "done" => \E x \in trails' : x.run = c.run
      <4>1. PICK x : x = [run |-> c.run, token |-> c.item.token]
        OBVIOUS
      <4>2. x.run = c.run /\ (end = "done" => x \in trails')
        BY <2>1, <4>1 DEF With
      <4>. QED BY <4>2
    <3>. QED BY <1>2, <2>5, <2>6, <3>1, RaisedHolds DEF Errors
  <2>9. Goes(p, end, q)
    BY <2>1, <2>6
  <2>. QED BY <1>1, <1>2, <2>1, <2>4, <2>7, <2>8, <2>9, GoesOn DEF AtItem
<1>. QED BY <1>3, <1>4

LEMMA SnapshotStep ==
    ASSUME NEW p \in Procs, Safe(p), NEW end \in Ends, SavesSnapshot(p, end)
    PROVE  Inner(p) /\ Tabled' /\ Grows /\ Holds(proc[p])'
<1>1. PICK c, x : c = proc[p] /\ x = [run |-> c.run, pair |-> c.item.pair]
  OBVIOUS
<1>2. /\ c.pc = "snapshot" /\ c \in Process /\ Holds(c) /\ snapshots' = With(snapshots, x, end)
      /\ UNCHANGED <<runs, latest, tokens, owner, prices, checks, trails>> /\ Step(p, end, "token")
  BY <1>1 DEF SavesSnapshot, Run, Pair, Safe, Types
<1>3. c.item.pair \in Pairs /\ c.run \in 1..MaxRuns
  BY <1>1, <1>2, ItemsType, BoundsAssumption DEF Holds, Safe, Owned, Types
<1>4. Grows /\ Tabled'
  BY <1>1, <1>2, <1>3 DEF With, Grows, Safe, Types, Tabled
<1>5. Holds(c)'
  BY <1>2, <1>4, HoldsKept
<1>6. end = "done" => \A q \in Process :
        q.pc = "token" /\ q.run = c.run /\ q.item = c.item /\ q.kind = c.kind /\ q.error = c.error
            => Holds(q)'
  BY <1>1, <1>2, <1>5 DEF Holds, AtItem, With
<1>. QED BY <1>1, <1>2, <1>4, <1>6, StepsOn DEF AtItem

LEMMA TokenStep ==
    ASSUME NEW p \in Procs, Safe(p), NEW end \in Ends, upsert_token(p, end)
    PROVE  Inner(p) /\ Tabled' /\ Grows /\ Holds(proc[p])'
<1>1. PICK c : c = proc[p]
  OBVIOUS
<1>2. /\ c.pc = "token" /\ c \in Process /\ Holds(c) /\ tokens' = With(tokens, c.item.token, end)
      /\ UNCHANGED <<runs, latest, owner, prices, snapshots, checks, trails>> /\ Step(p, end, "pair")
  BY <1>1 DEF upsert_token, Token, Safe, Types
<1>3. Grows /\ Tabled'
  BY <1>2 DEF With, Grows, Safe, Types, Tabled, Holds, AtItem
<1>4. Holds(c)'
  BY <1>2, <1>3, HoldsKept
<1>5. end = "done" => \A q \in Process :
        q.pc = "pair" /\ q.run = c.run /\ q.item = c.item /\ q.kind = c.kind /\ q.error = c.error
            => Holds(q)'
  BY <1>2, <1>4 DEF Holds, AtItem, With
<1>. QED BY <1>1, <1>2, <1>3, <1>5, StepsOn DEF AtItem

LEMMA PairStep ==
    ASSUME NEW p \in Procs, Safe(p), NEW end \in Ends, upsert_token_pair(p, end)
    PROVE  Inner(p) /\ Tabled' /\ Grows /\ Holds(proc[p])'
<1>1. PICK c : c = proc[p]
  OBVIOUS
<1>2. /\ c.pc = "pair" /\ c \in Process /\ Holds(c)
      /\ owner' = IF end = "failed" THEN owner ELSE [owner EXCEPT ![c.item.pair] = c.item.token]
      /\ UNCHANGED <<runs, latest, tokens, prices, snapshots, checks, trails>> /\ Step(p, end, "price")
  BY <1>1 DEF upsert_token_pair, Token, Pair, Safe, Types
<1>3. c.item.pair \in Pairs /\ c.item.token \in tokens /\ c.item.token \in Tokens
  BY <1>2, ItemsType DEF Holds, AtItem
<1>4. Grows /\ Tabled'
  BY <1>2, <1>3 DEF Grows, Safe, Types, Tabled
<1>5. Holds(c)'
  BY <1>2, <1>4, HoldsKept
<1>6. end = "done" => owner'[c.item.pair] \in tokens'
  BY <1>2, <1>3 DEF Safe, Types, Tabled
<1>7. end = "done" => \A q \in Process :
        q.pc = "price" /\ q.run = c.run /\ q.item = c.item /\ q.kind = c.kind /\ q.error = c.error
            => Holds(q)'
  BY <1>2, <1>5, <1>6 DEF Holds, AtItem
<1>. QED BY <1>1, <1>2, <1>4, <1>7, StepsOn DEF AtItem

LEMMA PriceStep ==
    ASSUME NEW p \in Procs, Safe(p), NEW end \in Ends, upsert_token_price(p, end)
    PROVE  Inner(p) /\ Tabled' /\ Grows /\ Holds(proc[p])'
<1>1. PICK c : c = proc[p]
  OBVIOUS
<1>2. /\ c.pc = "price" /\ c \in Process /\ Holds(c) /\ prices' = With(prices, c.item.pair, end)
      /\ UNCHANGED <<runs, latest, tokens, owner, snapshots, checks, trails>> /\ Step(p, end, "checks")
  BY <1>1 DEF upsert_token_price, Pair, Safe, Types
<1>3. c.item.pair \in Pairs
  BY <1>2, ItemsType DEF Holds
<1>4. Grows /\ Tabled'
  BY <1>2, <1>3 DEF With, Grows, Safe, Types, Tabled
<1>5. Holds(c)'
  BY <1>2, <1>4, HoldsKept
<1>6. end = "done" => \A q \in Process :
        q.pc = "checks" /\ q.run = c.run /\ q.item = c.item /\ q.kind = c.kind /\ q.error = c.error
            => Holds(q)'
  BY <1>2, <1>5 DEF Holds, AtItem, With
<1>. QED BY <1>1, <1>2, <1>4, <1>6, StepsOn DEF AtItem

\* A process that has stored its token.
StoredNext(c) ==
    LET q == [c EXCEPT !.saved = @ + 1]
    IN IF q.kind = "scan" THEN NextToken(q) ELSE [q EXCEPT !.pc = "close"]

LEMMA StoredNextIs ==
    ASSUME NEW c \in Process
    PROVE  /\ StoredNext(c) \in Process
           /\ StoredNext(c).kind = c.kind /\ StoredNext(c).run = c.run
           /\ StoredNext(c).found = c.found /\ StoredNext(c).saved = c.saved + 1
           /\ StoredNext(c).errors = c.errors /\ StoredNext(c).error = c.error
           /\ IF c.kind = "scan" /\ c.todo # <<>>
              THEN /\ StoredNext(c).pc = "profile" /\ StoredNext(c).todo = Tail(c.todo)
                   /\ StoredNext(c).item = Head(c.todo) /\ Head(c.todo) \in Items
              ELSE StoredNext(c).pc = "close" /\ StoredNext(c).todo = c.todo
<1>1. PICK q : q = [c EXCEPT !.saved = @ + 1]
  OBVIOUS
<1>2. /\ q \in Process /\ q.kind = c.kind /\ q.run = c.run /\ q.found = c.found
      /\ q.saved = c.saved + 1 /\ q.errors = c.errors /\ q.error = c.error
      /\ q.todo = c.todo
  BY <1>1 DEF Process
<1>3. StoredNext(c) = IF q.kind = "scan" THEN NextToken(q) ELSE [q EXCEPT !.pc = "close"]
  BY <1>1 DEF StoredNext
<1>4. CASE q.kind = "scan"
  BY <1>2, <1>3, <1>4, NextTokenIs
<1>5. CASE q.kind # "scan"
  BY <1>2, <1>3, <1>5 DEF Process, Places
<1>. QED BY <1>4, <1>5

LEMMA CheckStep ==
    ASSUME NEW p \in Procs, Safe(p), NEW end \in Ends, insert_risk_checks(p, end)
    PROVE  Inner(p) /\ Tabled' /\ Grows /\ Holds(proc[p])'
<1>1. PICK c, x : c = proc[p] /\ x = CheckOf(c)
  OBVIOUS
<1>2. /\ c.pc = "checks" /\ c \in Process /\ Holds(c) /\ checks' = With(checks, x, end)
      /\ UNCHANGED <<runs, latest, tokens, owner, prices, snapshots, trails>>
      /\ Goes(p, end, StoredNext(c))
  BY <1>1 DEF insert_risk_checks, StoredNext, CheckOf, Run, Token, Pair, Safe, Types
<1>3. /\ c.item.pair \in Pairs /\ c.item.token \in Tokens /\ c.item.seen \in Observations
      /\ c.run \in 1..MaxRuns
  BY <1>1, <1>2, ItemsType, BoundsAssumption DEF Holds, Safe, Owned, Types
<1>4. Grows /\ Tabled'
  BY <1>1, <1>2, <1>3 DEF With, CheckOf, Grows, Safe, Types, Tabled
<1>5. Holds(c)'
  BY <1>2, <1>4, HoldsKept
<1>6. PICK q : q = StoredNext(c)
  OBVIOUS
<1>7. /\ q \in Process /\ q.run = c.run /\ q.error = c.error
      /\ q.pc = "close" \/ (q.pc = "profile" /\ q.item \in Items /\ q.kind = "scan")
  BY <1>2, <1>6, StoredNextIs
<1>8. Holds(q)'
  BY <1>5, <1>7, ItemsType DEF Holds, AtItem
<1>9. \/ checks' = checks
      \/ proc[p].pc = "checks" /\ checks' = checks \cup {CheckOf(proc[p])}
  BY <1>1, <1>2 DEF With
<1>. QED BY <1>1, <1>2, <1>4, <1>6, <1>7, <1>8, <1>9, GoesOn DEF AtItem

\* The tokens of a list are each there once.
Once(l) == \A i, j \in 1..Len(l) : l[i].token = l[j].token => i = j

LEMMA DiscoversIs ==
    ASSUME NEW p \in Procs, Types, Discovers(p)
    PROVE  \E q \in Process :
              /\ proc' = [proc EXCEPT ![p] = NextToken(q)]
              /\ Len(q.todo) = Min2(q.found, MaxTokens) /\ Once(q.todo)
              /\ q.run = proc[p].run /\ q.kind = proc[p].kind /\ q.saved = proc[p].saved
              /\ q.errors = proc[p].errors /\ q.error = proc[p].error
<1>1. PICK c \in Process : c = proc[p]
  BY DEF Types
<1>2. PICK l \in Discovered :
          proc' = [proc EXCEPT ![p] = NextToken(
                      [c EXCEPT !.found = Len(l), !.todo = SubSeq(l, 1, Min2(Len(l), MaxTokens))])]
  BY <1>1 DEF Discovers
<1>3. PICK n \in 0..Cardinality(Tokens) : l \in [1..n -> Items]
  BY DEF Discovered
<1>4. n \in Nat
  BY <1>3, TokensAssumption, FS_CardinalityType
<1>5. l \in Seq(Items) /\ Len(l) = n
  BY <1>3, <1>4, SeqDef, LenProperties
<1>6. \A i, j \in 1..n : l[i].token = l[j].token => i = j
  BY <1>3 DEF Discovered
<1>7. PICK m, t : m = Min2(n, MaxTokens) /\ t = SubSeq(l, 1, m)
  OBVIOUS
<1>8. m \in Nat /\ m =< n
  BY <1>4, <1>7, BoundsAssumption DEF Min2
<1>9. \A i \in 1..m : l[i] \in Items
  BY <1>3, <1>8
<1>10. t \in Seq(Items) /\ Len(t) = m /\ \A i \in 1..m : t[i] = l[i]
  BY <1>7, <1>8, <1>9, SubSeqProperties
<1>11. Once(t)
  BY <1>6, <1>8, <1>10 DEF Once
<1>12. PICK q : q = [c EXCEPT !.found = n, !.todo = t]
  OBVIOUS
<1>13. /\ q \in Process /\ q.found = n /\ q.todo = t /\ q.run = c.run /\ q.kind = c.kind
       /\ q.saved = c.saved /\ q.errors = c.errors /\ q.error = c.error
  BY <1>4, <1>10, <1>12 DEF Process
<1>14. proc' = [proc EXCEPT ![p] = NextToken(q)]
  BY <1>2, <1>5, <1>7, <1>12
<1>. QED BY <1>1, <1>7, <1>10, <1>11, <1>13, <1>14

LEMMA DiscoverStep ==
    ASSUME NEW p \in Procs, Safe(p), Discovers(p) \/ DiscoveryBreaks(p)
    PROVE  Inner(p) /\ Tabled' /\ Grows /\ Holds(proc[p])'
<1>1. PICK c : c = proc[p]
  OBVIOUS
<1>2. /\ c.pc = "discover" /\ c \in Process /\ Holds(c) /\ UNCHANGED <<runs, latest, tables>>
      /\ proc \in [Procs -> Process]
  BY <1>1 DEF Discovers, DiscoveryBreaks, Safe, Types
<1>3. Grows /\ Tabled' /\ checks' = checks
  BY <1>2 DEF Grows, tables, Safe, Types, Tabled
<1>4. ASSUME Discovers(p)
      PROVE  Inner(p) /\ Holds(proc[p])'
  <2>1. PICK q \in Process :
              /\ proc' = [proc EXCEPT ![p] = NextToken(q)]
              /\ q.run = c.run /\ q.kind = c.kind /\ q.error = c.error
    BY <1>1, <1>4, DiscoversIs DEF Safe
  <2>2. PICK n : n = NextToken(q)
    OBVIOUS
  <2>3. /\ n \in Process /\ n.run = c.run /\ n.error = c.error /\ n.kind = c.kind
        /\ n.pc = "close" \/ (n.pc = "profile" /\ n.item \in Items)
    BY <2>1, <2>2, NextTokenIs
  <2>4. Holds(n)'
    BY <1>2, <2>3, ItemsType DEF Holds, AtItem
  <2>5. proc' \in [Procs -> Process] /\ proc'[p] = n /\ \A o \in Procs \ {p} : proc'[o] = proc[o]
    BY <1>2, <2>1, <2>2, <2>3
  <2>6. Holds(proc[p])'
    BY <2>4, <2>5
  <2>7. faults' \in 0..faults
    <3>1. faults' = faults
      BY <1>4 DEF Discovers
    <3>. QED BY <3>1 DEF Safe, Types
  <2>. QED BY <1>1, <1>2, <1>3, <2>3, <2>5, <2>6, <2>7 DEF Inner
<1>5. ASSUME DiscoveryBreaks(p)
      PROVE  Inner(p) /\ Holds(proc[p])'
  BY <1>1, <1>2, <1>3, <1>5, GoesOn DEF DiscoveryBreaks, Ends
<1>. QED BY <1>3, <1>4, <1>5

\* The steps inside a run, all of them.
InnerStep(p) ==
    \/ Discovers(p) \/ DiscoveryBreaks(p)
    \/ FindsPair(p) \/ FindsNoPair(p) \/ FetchFails(p)
    \/ \E end \in Ends :
          \/ SavesProfile(p, end) \/ SavesTrailToken(p, end)
          \/ record_data_unavailable(p, end) \/ SavesSnapshot(p, end)
          \/ upsert_token(p, end) \/ upsert_token_pair(p, end)
          \/ upsert_token_price(p, end) \/ insert_risk_checks(p, end)

LEMMA InnerSteps ==
    ASSUME NEW p \in Procs, Safe(p), InnerStep(p)
    PROVE  Inner(p) /\ Tabled' /\ Grows /\ Holds(proc[p])'
BY DiscoverStep, FetchStep, ProfileStep, TrailStep, SnapshotStep, TokenStep, PairStep,
   PriceStep, CheckStep DEF InnerStep

LEMMA NextIs ==
    Next <=> \E p \in Procs :
        \/ Begins(p) \/ InnerStep(p) \/ Dies(p)
        \/ \E end \in Ends : Closes(p, end) \/ ClosesFailed(p, end)
BY DEF Next, Proceeds, Fetch, Statement, InnerStep

-----------------------------------------------------------------------------
(***************************************************************************)
(* The first part of the invariant: types, whose run is whose, and what a  *)
(* process, a row of checks and a run have behind them.                    *)
(***************************************************************************)
RunTrails ==
    \A r \in 1..MaxRuns :
        runs[r].error = "unavailable" => \E x \in trails : x.run = r

Base ==
    /\ Types /\ Owned /\ RunTrails
    /\ \A p \in Procs : Holds(proc[p])
    /\ \A c \in checks : Complete(c)

LEMMA HoldEnded == Holds(Ended)'
BY EndedType DEF Holds, AtItem

\* No other process is touched.
Others(p) == proc' \in [Procs -> Process] /\ \A o \in Procs \ {p} : proc'[o] = proc[o]

LEMMA AllHold ==
    ASSUME Base, Grows, NEW p \in Procs, Others(p), Holds(proc[p])'
    PROVE  \A o \in Procs : Holds(proc[o])'
<1>. SUFFICES ASSUME NEW o \in Procs \ {p} PROVE Holds(proc[o])'
  OBVIOUS
<1>1. PICK q : q = proc[o]
  OBVIOUS
<1>2. q \in Process /\ Holds(q)
  BY <1>1 DEF Base, Types
<1>3. Holds(q)'
  BY <1>2, HoldsKept
<1>4. proc'[o] = q
  BY <1>1 DEF Others
<1>. QED BY <1>3, <1>4

LEMMA BaseInner ==
    ASSUME Base, NEW p \in Procs, InnerStep(p)
    PROVE  Base'
<1>1. Inner(p) /\ Tabled' /\ Grows /\ Holds(proc[p])'
  BY InnerSteps DEF Base, Safe
<1>a. faults' \in 0..MaxFaults
  BY <1>1, BoundsAssumption DEF Base, Types, Inner
<1>2. Types'
  BY <1>1, <1>a DEF Base, Types, Inner
<1>3. Owned'
  <2>1. proc[p].pc \notin {"idle", "fail"} /\ proc[p].run =< latest
    BY <1>1 DEF Inner, AtItem, Base, Owned, Types
  <2>2. \A c \in checks' : c.run =< latest
    BY <1>1, <2>1 DEF Inner, CheckOf, Base, Owned
  <2>. QED BY <1>1, <2>1, <2>2 DEF Base, Owned, Inner
<1>4. \A o \in Procs : Holds(proc[o])'
  BY <1>1, AllHold DEF Others, Inner
<1>5. RunTrails'
  BY <1>1 DEF Base, RunTrails, Grows, Inner
<1>6. ASSUME NEW c \in checks'
      PROVE  Complete(c)'
  <2>1. CASE c \in checks
    BY <1>1, <2>1, CompleteKept DEF Base, Types, Tabled
  <2>2. CASE c \notin checks
    <3>1. PICK q \in Process : q = proc[p]
      BY DEF Base, Types
    <3>2. /\ q.pc = "checks" /\ Holds(q) /\ c.token = q.item.token /\ c.pair = q.item.pair
          /\ c.run = q.run
      BY <1>1, <1>6, <2>2, <3>1 DEF Inner, CheckOf, Base
    <3>3. Holds(q)'
      BY <1>1, <3>2, HoldsKept
    <3>. QED BY <3>2, <3>3 DEF Holds, Complete
  <2>. QED BY <2>1, <2>2
<1>. QED BY <1>2, <1>3, <1>4, <1>5, <1>6 DEF Base

\* The steps at the ends of a run leave the tables alone.
LEMMA TablesKept ==
    ASSUME Base, UNCHANGED tables
    PROVE  Grows /\ Tabled' /\ \A c \in checks' : Complete(c)'
BY DEF Base, Types, Tabled, Grows, Complete, tables

\* A run is closed, once or again, or not when the statement fails.
ClosesRun(p) == runs' = runs \/ \E status \in {"success", "failed"} : runs' = Finished(p, status)

LEMMA ClosesRunIs ==
    ASSUME Base, NEW p \in Procs, proc[p].pc # "idle", ClosesRun(p), UNCHANGED tables
    PROVE  /\ runs' \in [1..MaxRuns -> [status : {"none", "running", "success", "failed"},
                               found : Nat, saved : Nat, errors : Nat, error : Errors]]
           /\ proc[p].run \in 1..MaxRuns /\ proc[p].run \in 1..latest
           /\ \A r \in (1..MaxRuns) \ {proc[p].run} : runs'[r] = runs[r]
           /\ runs'[proc[p].run].status # "none"
           /\ RunTrails'
<1>1. PICK c \in Process : c = proc[p]
  BY DEF Base, Types
<1>2. c.run \in 1..latest /\ c.run \in 1..MaxRuns /\ runs[c.run].status # "none"
  BY <1>1, BoundsAssumption DEF Base, Types, Owned
<1>3. CASE runs' = runs
  BY <1>1, <1>2, <1>3 DEF Base, Types, RunTrails, tables
<1>4. ASSUME NEW status \in {"success", "failed"}, runs' = Finished(p, status)
      PROVE  /\ runs' \in [1..MaxRuns -> [status : {"none", "running", "success", "failed"},
                               found : Nat, saved : Nat, errors : Nat, error : Errors]]
             /\ \A r \in (1..MaxRuns) \ {c.run} : runs'[r] = runs[r]
             /\ runs'[c.run].status # "none" /\ RunTrails'
  <2>1. PICK n : n = [status |-> status, found |-> c.found, saved |-> c.saved,
                      errors |-> c.errors, error |-> c.error]
    OBVIOUS
  <2>2. /\ n \in [status : {"none", "running", "success", "failed"},
                   found : Nat, saved : Nat, errors : Nat, error : Errors]
        /\ n.status # "none" /\ n.error = c.error
    BY <2>1 DEF Process
  <2>3. runs' = [runs EXCEPT ![c.run] = n]
    BY <1>1, <1>4, <2>1 DEF Finished, Run
  <2>4. Holds(c)
    BY <1>1 DEF Base
  <2>5. \A r \in 1..MaxRuns : runs'[r] = IF r = c.run THEN n ELSE runs[r]
    BY <1>2, <2>3 DEF Base, Types
  <2>6. RunTrails'
    BY <2>2, <2>4, <2>5 DEF RunTrails, Base, Holds, tables
  <2>. QED BY <1>2, <2>2, <2>3, <2>5, <2>6 DEF Base, Types
<1>. QED BY <1>1, <1>2, <1>3, <1>4 DEF ClosesRun

LEMMA ClosesIs ==
    ASSUME Base, NEW p \in Procs, NEW end \in Ends, Closes(p, end) \/ ClosesFailed(p, end)
    PROVE  /\ ClosesRun(p) /\ UNCHANGED <<latest, tables>> /\ Others(p)
           /\ proc[p].pc \in {"close", "fail"}
           /\ \/ proc'[p] = Ended
              \/ proc[p].pc = "close" /\ proc'[p] = Raised(proc[p], "database")
           /\ faults' \in 0..faults
           /\ end # "done" => faults' =< faults - 1
           /\ end # "failed" => runs'[proc[p].run].status # "running"
<1>1. PICK c \in Process : c = proc[p]
  BY DEF Base, Types
<1>2. faults \in Nat /\ proc \in [Procs -> Process]
  BY DEF Base, Types
<1>3. ASSUME Closes(p, end)
      PROVE  /\ ClosesRun(p) /\ UNCHANGED <<latest, tables>> /\ Others(p)
             /\ c.pc = "close"
             /\ proc'[p] = IF end = "done" THEN Ended ELSE Raised(c, "database")
             /\ faults' \in 0..faults
             /\ end # "done" => faults' =< faults - 1
             /\ end # "failed" => runs' = Finished(p, "success")
  BY <1>1, <1>2, <1>3, GoesIs, EndedType DEF Closes, ClosesRun, Others
<1>4. ASSUME ClosesFailed(p, end)
      PROVE  /\ ClosesRun(p) /\ UNCHANGED <<latest, tables>> /\ Others(p)
             /\ c.pc = "fail" /\ proc'[p] = Ended
             /\ faults' \in 0..faults
             /\ end # "done" => faults' =< faults - 1
             /\ end # "failed" => runs' = Finished(p, "failed")
  BY <1>1, <1>2, <1>4, EndedType DEF ClosesFailed, ClosesRun, Others
<1>5. c.run \in 1..MaxRuns
  BY <1>1, <1>3, <1>4, BoundsAssumption DEF Base, Types, Owned
<1>6. \A status \in {"success", "failed"} :
        runs' = Finished(p, status) => runs'[c.run].status = status
  BY <1>1, <1>5 DEF Finished, Run, Base, Types
<1>7. end # "failed" => runs'[c.run].status # "running"
  BY <1>3, <1>4, <1>6
<1>8. CASE Closes(p, end)
  BY <1>1, <1>3, <1>7, <1>8
<1>9. CASE ClosesFailed(p, end)
  BY <1>1, <1>4, <1>7, <1>9
<1>. QED BY <1>8, <1>9

LEMMA BaseCloses ==
    ASSUME Base, NEW p \in Procs, NEW end \in Ends, Closes(p, end) \/ ClosesFailed(p, end)
    PROVE  Base'
<1>1. PICK c \in Process : c = proc[p]
  BY DEF Base, Types
<1>2. /\ ClosesRun(p) /\ UNCHANGED <<latest, tables>> /\ Others(p)
      /\ c.pc \in {"close", "fail"}
      /\ \/ proc'[p] = Ended
         \/ c.pc = "close" /\ proc'[p] = Raised(c, "database")
      /\ faults' \in 0..faults
  BY <1>1, ClosesIs
<1>3. /\ runs' \in [1..MaxRuns -> [status : {"none", "running", "success", "failed"},
                               found : Nat, saved : Nat, errors : Nat, error : Errors]]
      /\ c.run \in 1..MaxRuns /\ c.run \in 1..latest
      /\ \A r \in (1..MaxRuns) \ {c.run} : runs'[r] = runs[r]
      /\ runs'[c.run].status # "none"
      /\ RunTrails'
  BY <1>1, <1>2, ClosesRunIs
<1>4. Grows /\ Tabled' /\ \A x \in checks' : Complete(x)'
  BY <1>2, TablesKept
<1>5. PICK n \in Process : proc'[p] = n
  BY <1>2 DEF Others
<1>6. /\ n = Ended \/ (n.pc = "fail" /\ n.run = c.run /\ n = Raised(c, "database"))
  BY <1>2, <1>5, RaisedIs DEF Errors
<1>7. Holds(n)'
  <2>1. CASE n = Ended
    BY <2>1, HoldEnded
  <2>2. CASE n = Raised(c, "database")
    <3>1. Holds(c)'
      BY <1>1, <1>4, HoldsKept DEF Base
    <3>. QED BY <2>2, <3>1, RaisedHolds DEF Errors
  <2>. QED BY <1>6, <2>1, <2>2
<1>8. Holds(proc[p])'
  BY <1>5, <1>7
<1>9. \A o \in Procs : Holds(proc[o])'
  BY <1>2, <1>4, <1>8, AllHold
<1>10. faults' \in 0..MaxFaults
  BY <1>2, BoundsAssumption DEF Base, Types
<1>11. Types'
  BY <1>2, <1>3, <1>4, <1>10 DEF Types, Base, Others
<1>12. Owned'
  <2>1. /\ \A o \in Procs \ {p} : proc'[o] = proc[o] /\ (proc[o].pc # "idle" => proc[o].run # c.run)
        /\ \A o \in Procs : proc[o].run # 0 => proc[o].pc # "idle"
    BY <1>1, <1>2 DEF Others, Base, Owned
  <2>2. /\ n.pc = "idle" => n.run = 0
        /\ n.pc # "idle" => n.pc = "fail" /\ n.run = c.run
    BY <1>6, EndedType
  <2>3. c.pc # "idle" /\ proc[p].run = c.run
    BY <1>1, <1>2
  <2>4. /\ \A r \in 1..MaxRuns : r > latest => runs'[r] = NoRun
        /\ \A x \in checks' : x.run =< latest
    BY <1>2, <1>3 DEF Base, Owned, Types, tables
  <2>5. ASSUME NEW o \in Procs
        PROVE  /\ proc'[o].pc = "idle" => proc'[o].run = 0
               /\ proc'[o].pc # "idle" => /\ proc'[o].run \in 1..latest
                                         /\ runs'[proc'[o].run].status # "none"
               /\ proc'[o].pc \notin {"idle", "fail"} => runs'[proc'[o].run].status = "running"
    <3>1. CASE o = p
      BY <1>3, <1>5, <2>2, <3>1
    <3>2. CASE o # p
      <4>1. proc'[o] = proc[o] /\ latest \in 0..MaxRuns
        BY <2>1, <3>2 DEF Base, Types
      <4>2. proc[o].pc # "idle" => proc[o].run \in 1..latest /\ runs'[proc[o].run] = runs[proc[o].run]
        <5>1. proc[o].pc # "idle" => proc[o].run \in 1..latest /\ proc[o].run # c.run
          BY <2>1, <3>2 DEF Base, Owned
        <5>2. 1..latest \subseteq 1..MaxRuns
          BY <4>1, BoundsAssumption
        <5>. QED BY <1>3, <5>1, <5>2
      <4>. QED BY <4>1, <4>2 DEF Base, Owned
    <3>. QED BY <3>1, <3>2
  <2>6. ASSUME NEW o \in Procs, NEW m \in Procs, o # m, proc'[o].pc # "idle"
        PROVE  proc'[o].run # proc'[m].run
    <3>1. CASE o # p /\ m # p
      BY <2>1, <2>6, <3>1 DEF Base, Owned
    <3>2. CASE o = p
      <4>1. proc'[o].run = c.run /\ proc'[m] = proc[m]
        BY <1>5, <2>1, <2>2, <2>6, <3>2
      <4>. QED BY <1>1, <2>3, <2>6, <3>2, <4>1 DEF Base, Owned
    <3>3. CASE m = p
      <4>1. proc'[o] = proc[o] /\ proc[o].run # c.run /\ proc[o].run # 0
        BY <2>1, <2>6, <3>3 DEF Base, Owned, Types
      <4>2. n.run \in {0, c.run}
        BY <1>6, EndedType
      <4>. QED BY <1>5, <3>3, <4>1, <4>2
    <3>. QED BY <3>1, <3>2, <3>3
  <2>. QED BY <1>2, <2>4, <2>5, <2>6 DEF Owned
<1>. QED BY <1>3, <1>4, <1>9, <1>11, <1>12 DEF Base

LEMMA BaseDies ==
    ASSUME Base, NEW p \in Procs, Dies(p)
    PROVE  Base'
<1>1. /\ UNCHANGED <<runs, latest, tables>> /\ Others(p) /\ proc'[p] = Ended
      /\ faults' \in 0..MaxFaults
  BY EndedType, BoundsAssumption DEF Dies, Base, Types, Others
<1>2. Grows /\ Tabled' /\ \A x \in checks' : Complete(x)'
  BY <1>1, TablesKept
<1>3. Holds(proc[p])'
  BY <1>1, HoldEnded
<1>4. \A o \in Procs : Holds(proc[o])'
  BY <1>1, <1>2, <1>3, AllHold
<1>5. Types'
  BY <1>1, <1>2 DEF Types, Base, Others
<1>6. RunTrails'
  BY <1>1 DEF Base, RunTrails, tables
<1>7. Owned'
  BY <1>1, EndedType DEF Base, Types, Owned, Others, tables
<1>. QED BY <1>2, <1>4, <1>5, <1>6, <1>7 DEF Base

\* A process at the start of a run.
LEMMA StartsIs ==
    ASSUME Base, NEW p \in Procs, Begins(p)
    PROVE  /\ latest < MaxRuns /\ latest' = latest + 1 /\ UNCHANGED tables
           /\ runs' = [runs EXCEPT ![latest + 1] = [NoRun EXCEPT !.status = "running"]]
           /\ proc[p].pc = "idle"
           /\ \/ proc' = proc /\ faults > 0 /\ faults' = faults - 1
              \/ /\ faults' = faults
                 /\ \E q \in Process :
                       /\ proc' = [proc EXCEPT ![p] = q]
                       /\ q.run = latest + 1 /\ q.saved = 0 /\ q.errors = 0 /\ q.error = "none"
                       /\ q.todo = <<>>
                       /\ \/ q.pc = "discover" /\ q.kind = "scan"
                          \/ /\ q.pc = "profile" /\ q.kind = "manual" /\ q.found = 1
                             /\ q.item.token \in Tokens
<1>1. PICK end \in {"done", "late"} :
          \/ Starts(p, "scan", NoToken, end)
          \/ \E t \in Tokens : Starts(p, "manual", t, end)
  BY DEF Begins
<1>a. latest < MaxRuns
  BY <1>1 DEF Starts
<1>2. latest + 1 \in 0..MaxRuns /\ latest < MaxRuns
  BY <1>a, BoundsAssumption DEF Base, Types
<1>3. CASE end # "done"
  BY <1>1, <1>2, <1>3 DEF Starts
<1>4. ASSUME end = "done", Starts(p, "scan", NoToken, end)
      PROVE  /\ faults' = faults
             /\ \E q \in Process :
                   /\ proc' = [proc EXCEPT ![p] = q]
                   /\ q.run = latest + 1 /\ q.saved = 0 /\ q.errors = 0 /\ q.error = "none"
                   /\ q.todo = <<>> /\ q.pc = "discover" /\ q.kind = "scan"
  <2>1. PICK q : q = [Ended EXCEPT !.pc = "discover", !.run = latest + 1]
    OBVIOUS
  <2>2. "discover" \in Places
    BY DEF Places
  <2>3. /\ q \in Process /\ q.run = latest + 1 /\ q.saved = 0 /\ q.errors = 0 /\ q.error = "none"
        /\ q.todo = <<>> /\ q.pc = "discover" /\ q.kind = "scan"
    BY <1>2, <2>1, <2>2, EndedType DEF Process
  <2>4. proc' = [proc EXCEPT ![p] = q] /\ faults' = faults
    BY <1>4, <2>1 DEF Starts
  <2>. QED BY <2>3, <2>4
<1>5. ASSUME end = "done", NEW t \in Tokens, Starts(p, "manual", t, end)
      PROVE  /\ faults' = faults
             /\ \E q \in Process :
                   /\ proc' = [proc EXCEPT ![p] = q]
                   /\ q.run = latest + 1 /\ q.saved = 0 /\ q.errors = 0 /\ q.error = "none"
                   /\ q.todo = <<>> /\ q.pc = "profile" /\ q.kind = "manual" /\ q.found = 1
                   /\ q.item.token \in Tokens
  <2>1. PICK i : i = [NoItem EXCEPT !.token = t]
    OBVIOUS
  <2>2. i \in Items0 /\ i.token = t /\ "profile" \in Places /\ "manual" \in {"scan", "manual"}
    BY <2>1, NoItemType DEF Items0, Places, AtItem
  <2>3. PICK a : a = [Ended EXCEPT !.pc = "profile", !.kind = "manual", !.run = latest + 1]
    OBVIOUS
  <2>4. /\ a \in Process /\ a.run = latest + 1 /\ a.saved = 0 /\ a.errors = 0 /\ a.error = "none"
        /\ a.todo = <<>> /\ a.pc = "profile" /\ a.kind = "manual"
    BY <1>2, <2>2, <2>3, EndedType DEF Process
  <2>5. PICK q : q = [a EXCEPT !.item = i, !.found = 1]
    OBVIOUS
  <2>6. /\ q \in Process /\ q.run = latest + 1 /\ q.saved = 0 /\ q.errors = 0 /\ q.error = "none"
        /\ q.todo = <<>> /\ q.pc = "profile" /\ q.kind = "manual" /\ q.found = 1 /\ q.item = i
    BY <2>2, <2>4, <2>5 DEF Process
  <2>7. proc' = [proc EXCEPT ![p] = q] /\ faults' = faults
    BY <1>5, <2>1, <2>3, <2>5 DEF Starts
  <2>. QED BY <2>2, <2>6, <2>7
<1>6. /\ latest' = latest + 1 /\ UNCHANGED tables /\ proc[p].pc = "idle"
      /\ runs' = [runs EXCEPT ![latest + 1] = [NoRun EXCEPT !.status = "running"]]
  BY <1>1 DEF Starts
<1>7. CASE end = "done"
  BY <1>1, <1>2, <1>4, <1>5, <1>6, <1>7
<1>. QED BY <1>3, <1>7

LEMMA BaseStarts ==
    ASSUME Base, NEW p \in Procs, Begins(p)
    PROVE  Base'
<1>1. /\ latest < MaxRuns /\ latest' = latest + 1 /\ UNCHANGED tables
      /\ runs' = [runs EXCEPT ![latest + 1] = [NoRun EXCEPT !.status = "running"]]
      /\ proc[p].pc = "idle"
      /\ faults' = faults \/ (faults > 0 /\ faults' = faults - 1)
      /\ \/ proc' = proc
         \/ \E q \in Process :
               /\ proc' = [proc EXCEPT ![p] = q]
               /\ q.run = latest + 1 /\ q.error = "none"
               /\ \/ q.pc = "discover" /\ q.kind = "scan"
                  \/ q.pc = "profile" /\ q.kind = "manual" /\ q.item.token \in Tokens
  BY StartsIs
<1>2. latest + 1 \in 1..MaxRuns /\ latest' \in 0..MaxRuns /\ faults' \in 0..MaxFaults
      /\ latest \in Nat
  BY <1>1, BoundsAssumption DEF Base, Types
<1>3. PICK n : n = [NoRun EXCEPT !.status = "running"]
  OBVIOUS
<1>4. /\ n \in [status : {"none", "running", "success", "failed"},
                 found : Nat, saved : Nat, errors : Nat, error : Errors]
      /\ n.status = "running" /\ n.error = "none"
  BY <1>3 DEF NoRun, Errors
<1>5. Grows /\ Tabled' /\ \A x \in checks' : Complete(x)'
  BY <1>1, TablesKept
<1>6. \A r \in 1..MaxRuns : runs'[r] = IF r = latest + 1 THEN n ELSE runs[r]
  BY <1>1, <1>2, <1>3 DEF Base, Types
<1>7. runs' \in [1..MaxRuns -> [status : {"none", "running", "success", "failed"},
                 found : Nat, saved : Nat, errors : Nat, error : Errors]]
  BY <1>1, <1>2, <1>3, <1>4 DEF Base, Types
<1>8. Others(p)
  BY <1>1 DEF Others, Base, Types
<1>9. /\ proc'[p] = proc[p] \/ (proc'[p].pc \in {"discover", "profile"} /\ proc'[p].run = latest + 1)
      /\ Holds(proc[p])'
  <2>1. CASE proc' = proc
    <3>1. PICK c \in Process : c = proc[p]
      BY DEF Base, Types
    <3>2. Holds(c)'
      BY <1>5, <3>1, HoldsKept DEF Base
    <3>. QED BY <2>1, <3>1, <3>2
  <2>2. ASSUME NEW q \in Process,
               proc' = [proc EXCEPT ![p] = q],
               q.run = latest + 1 /\ q.error = "none",
               \/ q.pc = "discover" /\ q.kind = "scan"
               \/ q.pc = "profile" /\ q.kind = "manual" /\ q.item.token \in Tokens
        PROVE  /\ proc'[p].pc \in {"discover", "profile"} /\ proc'[p].run = latest + 1
               /\ Holds(proc[p])'
    <3>1. Holds(q)'
      BY <2>2 DEF Holds, AtItem
    <3>2. proc'[p] = q
      BY <2>2 DEF Base, Types
    <3>. QED BY <2>2, <3>1, <3>2
  <2>. QED BY <1>1, <2>1, <2>2
<1>10. \A o \in Procs : Holds(proc[o])'
  BY <1>5, <1>8, <1>9, AllHold
<1>11. Types'
  BY <1>2, <1>5, <1>7, <1>8 DEF Types, Others
<1>12. RunTrails'
  BY <1>1, <1>4, <1>6 DEF Base, RunTrails, tables
<1>13. Owned'
  <2>1. \A o \in Procs : proc[o].run # latest + 1 /\ (proc[o].pc # "idle" => proc[o].run \in 1..MaxRuns)
    BY <1>2, BoundsAssumption DEF Base, Types, Owned
  <2>2. ASSUME NEW o \in Procs
        PROVE  /\ proc'[o].pc = "idle" => proc'[o].run = 0
               /\ proc'[o].pc # "idle" => /\ proc'[o].run \in 1..latest'
                                         /\ runs'[proc'[o].run].status # "none"
               /\ proc'[o].pc \notin {"idle", "fail"} => runs'[proc'[o].run].status = "running"
    <3>1. CASE proc'[o] = proc[o]
      BY <1>1, <1>2, <1>6, <2>1, <3>1 DEF Base, Owned
    <3>2. CASE o = p /\ proc'[p].pc \in {"discover", "profile"} /\ proc'[p].run = latest + 1
      BY <1>1, <1>2, <1>4, <1>6, <3>2
    <3>. QED BY <1>8, <1>9, <3>1, <3>2 DEF Others
  <2>3. ASSUME NEW o \in Procs, NEW m \in Procs, o # m, proc'[o].pc # "idle"
        PROVE  proc'[o].run # proc'[m].run
    BY <1>1, <1>8, <1>9, <2>1, <2>3 DEF Others, Base, Owned
  <2>4. \A r \in 1..MaxRuns : r > latest' => runs'[r] = NoRun
    BY <1>1, <1>2, <1>6 DEF Base, Owned
  <2>5. \A x \in checks' : x.run =< latest'
    BY <1>1, <1>2 DEF Base, Owned, Types, Tabled, tables
  <2>. QED BY <2>2, <2>3, <2>4, <2>5 DEF Owned
<1>. QED BY <1>5, <1>10, <1>11, <1>12, <1>13 DEF Base

LEMMA BaseInit == Init => Base
<1>. SUFFICES ASSUME Init PROVE Base
  OBVIOUS
<1>. USE DEF Init
<1>1. NoRun \in [status : {"none", "running", "success", "failed"},
                 found : Nat, saved : Nat, errors : Nat, error : Errors]
      /\ NoRun.status = "none" /\ NoRun.error = "none"
  BY DEF NoRun, Errors
<1>2. Types
  BY <1>1, EndedType, BoundsAssumption DEF Types, Tabled
<1>3. Owned
  BY EndedType, BoundsAssumption DEF Owned
<1>4. RunTrails
  BY <1>1 DEF RunTrails
<1>5. Holds(Ended)
  BY EndedType DEF Holds, AtItem
<1>. QED BY <1>2, <1>3, <1>4, <1>5 DEF Base

LEMMA BaseStep == Base /\ [Next]_vars => Base'
<1>. SUFFICES ASSUME Base, [Next]_vars PROVE Base'
  OBVIOUS
<1>1. CASE Next
  BY <1>1, NextIs, BaseStarts, BaseInner, BaseDies, BaseCloses
<1>2. CASE UNCHANGED vars
  BY <1>2 DEF vars, tables, Base, Types, Tabled, Owned, RunTrails, Holds, Complete
<1>. QED BY <1>1, <1>2

-----------------------------------------------------------------------------
(***************************************************************************)
(* Runs that nobody works on.                                              *)
(***************************************************************************)
Abandoned == {r \in 1..MaxRuns : /\ runs[r].status = "running"
                                /\ \A p \in Procs : proc[p].run # r}

LEMMA AbandonedCounted ==
    ASSUME Base, Base', OnlyFaultsAbandonRuns,
           \/ Abandoned' \subseteq Abandoned /\ faults' =< faults
           \/ faults' =< faults - 1 /\ \E r : Abandoned' \subseteq Abandoned \cup {r}
    PROVE  OnlyFaultsAbandonRuns'
<1>1. /\ faults \in Nat /\ faults' \in Nat /\ MaxFaults \in Nat
      /\ Cardinality(Abandoned) =< MaxFaults - faults
  BY BoundsAssumption DEF Base, Types, OnlyFaultsAbandonRuns, Abandoned
<1>2. IsFiniteSet(Abandoned) /\ Cardinality(Abandoned) \in Nat
  <2>1. IsFiniteSet(1..MaxRuns) /\ Abandoned \subseteq 1..MaxRuns
    BY BoundsAssumption, FS_Interval DEF Abandoned
  <2>. QED BY <2>1, FS_Subset, FS_CardinalityType
<1>3. CASE Abandoned' \subseteq Abandoned /\ faults' =< faults
  <2>1. Cardinality(Abandoned') =< Cardinality(Abandoned) /\ Cardinality(Abandoned') \in Nat
    BY <1>2, <1>3, FS_Subset, FS_CardinalityType
  <2>2. Cardinality(Abandoned') =< MaxFaults - faults'
    BY <1>1, <1>2, <1>3, <2>1
  <2>. QED BY <2>2 DEF OnlyFaultsAbandonRuns, Abandoned
<1>4. ASSUME NEW r, Abandoned' \subseteq Abandoned \cup {r}, faults' =< faults - 1
      PROVE  OnlyFaultsAbandonRuns'
  <2>1. /\ IsFiniteSet(Abandoned \cup {r})
        /\ Cardinality(Abandoned \cup {r}) =< Cardinality(Abandoned) + 1
        /\ Cardinality(Abandoned \cup {r}) \in Nat
    <3>1. PICK A : A = Abandoned
      OBVIOUS
    <3>2. /\ IsFiniteSet(A \cup {r})
          /\ Cardinality(A \cup {r}) = IF r \in A THEN Cardinality(A) ELSE Cardinality(A) + 1
      BY <1>2, <3>1, FS_AddElement
    <3>. QED BY <1>2, <3>1, <3>2
  <2>2. Cardinality(Abandoned') =< Cardinality(Abandoned \cup {r}) /\ Cardinality(Abandoned') \in Nat
    BY <1>4, <2>1, FS_Subset, FS_CardinalityType
  <2>3. Cardinality(Abandoned') =< MaxFaults - faults'
    BY <1>1, <1>2, <1>4, <2>1, <2>2
  <2>. QED BY <2>3 DEF OnlyFaultsAbandonRuns, Abandoned
<1>. QED BY <1>3, <1>4

LEMMA AbandonedStep ==
    Base /\ OnlyFaultsAbandonRuns /\ [Next]_vars => OnlyFaultsAbandonRuns'
<1>. SUFFICES ASSUME Base, OnlyFaultsAbandonRuns, [Next]_vars PROVE OnlyFaultsAbandonRuns'
  OBVIOUS
<1>0. Base' /\ faults \in Nat
  BY BaseStep DEF Base, Types
<1>1. ASSUME NEW p \in Procs, Begins(p)
      PROVE  OnlyFaultsAbandonRuns'
  <2>1. /\ latest \in Nat /\ latest + 1 \in 1..MaxRuns /\ proc[p].run = 0
        /\ runs' = [runs EXCEPT ![latest + 1] = [NoRun EXCEPT !.status = "running"]]
    BY <1>1, StartsIs, BoundsAssumption DEF Base, Types, Owned
  <2>2. \A r \in 1..MaxRuns : r # latest + 1 => runs'[r] = runs[r]
    BY <2>1 DEF Base, Types
  <2>3. CASE proc' = proc /\ faults > 0 /\ faults' = faults - 1
    <3>1. Abandoned' \subseteq Abandoned \cup {latest + 1}
      BY <2>2, <2>3 DEF Abandoned
    <3>. QED BY <1>0, <2>3, <3>1, AbandonedCounted
  <2>4. ASSUME faults' = faults, NEW q \in Process, proc' = [proc EXCEPT ![p] = q], q.run = latest + 1
        PROVE  OnlyFaultsAbandonRuns'
    <3>1. proc'[p] = q /\ \A o \in Procs \ {p} : proc'[o] = proc[o]
      BY <2>4 DEF Base, Types
    <3>2. Abandoned' \subseteq Abandoned
      BY <2>1, <2>2, <2>4, <3>1 DEF Abandoned
    <3>. QED BY <1>0, <2>4, <3>2, AbandonedCounted
  <2>. QED BY <1>1, <2>3, <2>4, StartsIs
<1>2. ASSUME NEW p \in Procs, InnerStep(p)
      PROVE  OnlyFaultsAbandonRuns'
  <2>1. Inner(p)
    BY <1>2, InnerSteps DEF Base, Safe
  <2>2. Abandoned' \subseteq Abandoned /\ faults' =< faults
    BY <1>0, <2>1 DEF Inner, Abandoned
  <2>. QED BY <1>0, <2>2, AbandonedCounted
<1>3. ASSUME NEW p \in Procs, Dies(p)
      PROVE  OnlyFaultsAbandonRuns'
  <2>1. /\ runs' = runs /\ \A o \in Procs \ {p} : proc'[o] = proc[o]
        /\ faults' = faults - 1
    BY <1>3 DEF Dies, Base, Types
  <2>2. Abandoned' \subseteq Abandoned \cup {proc[p].run}
    BY <2>1 DEF Abandoned
  <2>. QED BY <1>0, <2>1, <2>2, AbandonedCounted
<1>4. ASSUME NEW p \in Procs, NEW end \in Ends, Closes(p, end) \/ ClosesFailed(p, end)
      PROVE  OnlyFaultsAbandonRuns'
  <2>1. /\ ClosesRun(p) /\ UNCHANGED tables /\ Others(p) /\ proc[p].pc # "idle"
        /\ faults' \in 0..faults
        /\ end # "done" => faults' =< faults - 1
        /\ end # "failed" => runs'[proc[p].run].status # "running"
    BY <1>4, ClosesIs
  <2>2. \A r \in (1..MaxRuns) \ {proc[p].run} : runs'[r] = runs[r]
    BY <2>1, ClosesRunIs
  <2>3. Abandoned' \subseteq Abandoned \cup {proc[p].run}
    BY <2>1, <2>2 DEF Abandoned, Others
  <2>4. CASE end # "done"
    BY <1>0, <2>1, <2>3, <2>4, AbandonedCounted
  <2>5. CASE end = "done"
    <3>1. proc[p].run \notin Abandoned'
      BY <2>1, <2>5 DEF Abandoned
    <3>2. faults' =< faults
      BY <1>0, <2>1
    <3>. QED BY <1>0, <2>3, <3>1, <3>2, AbandonedCounted
  <2>. QED BY <2>4, <2>5
<1>5. CASE UNCHANGED vars
  BY <1>5 DEF vars, OnlyFaultsAbandonRuns
<1>. QED BY <1>1, <1>2, <1>3, <1>4, <1>5, NextIs

-----------------------------------------------------------------------------
(***************************************************************************)
(* The accounts.  S are the tokens stored by the run of the process q.     *)
(***************************************************************************)
Account(q, S) ==
    /\ IsFiniteSet(S)
    /\ q.saved =< Cardinality(S) /\ Cardinality(S) =< q.saved + q.errors
    /\ q.pc = "discover" => q.saved = 0 /\ q.errors = 0 /\ S = {}
    /\ q.pc \in AtItem \cup {"close"} =>
          /\ q.saved + q.errors + Len(q.todo) + (IF q.pc = "close" THEN 0 ELSE 1)
                = Min2(q.found, MaxTokens)
          /\ Once(q.todo)
          /\ \A i \in 1..Len(q.todo) : q.todo[i].token \notin S
    /\ q.pc = "close" => q.todo = <<>>
    /\ q.pc \in AtItem => /\ q.item.token \notin S
                          /\ \A i \in 1..Len(q.todo) : q.todo[i].token # q.item.token
    /\ q.kind = "manual" /\ q.pc # "fail" => q.found = 1 /\ q.todo = <<>>

LEMMA EmptyList == Len(<<>>) = 0
OBVIOUS

\* The token stored, if any, is the one at hand.
LEMMA OneMore ==
    ASSUME NEW S, NEW t, IsFiniteSet(S), t \notin S
    PROVE  /\ IsFiniteSet(S \cup {t}) /\ Cardinality(S) \in Nat
           /\ Cardinality(S \cup {t}) = Cardinality(S) + 1
BY FS_AddElement, FS_CardinalityType

LEMMA Moved ==
    ASSUME NEW a \in Nat, NEW b \in Nat, NEW c \in Nat, NEW d \in Nat, NEW k \in Nat, NEW m \in Nat,
           c + d = a + b + 1, k = m + 1
    PROVE  c + d + m + 1 = a + b + k + 1
OBVIOUS

\* The loop goes on after the token at hand, which is counted as saved or as
\* an error.
LEMMA NextAccount ==
    ASSUME NEW q \in Process, NEW n \in Process, NEW S, NEW T,
           q.pc \in AtItem, Account(q, S),
           T = S \/ T = S \cup {q.item.token},
           n.found = q.found, n.saved + n.errors = q.saved + q.errors + 1,
           n.saved =< Cardinality(T), Cardinality(T) =< n.saved + n.errors, IsFiniteSet(T),
           n.kind # "manual" \/ (n.kind = q.kind /\ q.todo = <<>>),
           IF q.todo = <<>> THEN n.pc = "close" /\ n.todo = <<>>
           ELSE n.pc = "profile" /\ n.todo = Tail(q.todo) /\ n.item = Head(q.todo)
    PROVE  Account(n, T)
<1>1. /\ q.saved + q.errors + Len(q.todo) + 1 = Min2(q.found, MaxTokens)
      /\ Once(q.todo) /\ \A i \in 1..Len(q.todo) : q.todo[i].token \notin T
      /\ {q.saved, q.errors, n.saved, n.errors} \subseteq Nat /\ q.todo \in Seq(Items)
  BY DEF Account, Process, AtItem
<1>2. CASE q.todo = <<>>
  <2>1. n.pc = "close" /\ n.todo = <<>> /\ Len(n.todo) = 0 /\ Len(q.todo) = 0
    BY <1>2, EmptyList
  <2>2. n.saved + n.errors + Len(n.todo) = Min2(n.found, MaxTokens)
    BY <1>1, <2>1
  <2>3. n.kind = "manual" => n.found = 1
    BY DEF Account, AtItem
  <2>. QED BY <1>1, <2>1, <2>2, <2>3 DEF Account, Once, AtItem
<1>3. CASE q.todo # <<>>
  <2>1. /\ n.pc = "profile" /\ n.todo = Tail(q.todo) /\ n.item = Head(q.todo)
        /\ n.kind # "manual"
    BY <1>3
  <2>2. PICK t \in Seq(Items), u \in Seq(Items) : t = q.todo /\ u = n.todo
    BY <1>1 DEF Process
  <2>a. /\ Len(t) = Len(u) + 1 /\ n.item = t[1]
        /\ \A i \in 1..Len(u) : u[i] = t[i + 1]
    BY <1>1, <1>3, <2>1, <2>2, HeadTailProperties
  <2>d. /\ q.saved + q.errors + Len(t) + 1 = Min2(q.found, MaxTokens)
        /\ \A i, j \in 1..Len(t) : t[i].token = t[j].token => i = j
        /\ \A i \in 1..Len(t) : t[i].token \notin T
    BY <1>1, <2>2 DEF Once
  <2>3. n.saved + n.errors + Len(u) + 1 = Min2(n.found, MaxTokens)
    <3>1. n.saved \in Nat /\ n.errors \in Nat /\ q.saved \in Nat /\ q.errors \in Nat
      BY <1>1
    <3>2. n.saved + n.errors + Len(u) + 1 = q.saved + q.errors + Len(t) + 1
      BY <2>a, <3>1, Moved
    <3>. QED BY <2>d, <3>2
  <2>b. \A i \in 1..Len(u) : u[i].token # t[1].token /\ u[i].token \notin T
    BY <2>a, <2>d
  <2>c. \A i, j \in 1..Len(u) : u[i].token = u[j].token => i = j
    BY <2>a, <2>d
  <2>4. Once(n.todo)
    BY <2>2, <2>c DEF Once
  <2>5. /\ \A i \in 1..Len(n.todo) : n.todo[i].token \notin T /\ n.todo[i].token # n.item.token
        /\ n.item.token \notin T
    BY <2>2, <2>a, <2>b, <2>d
  <2>. QED BY <2>1, <2>2, <2>3, <2>4, <2>5 DEF Account, AtItem
<1>. QED BY <1>2, <1>3

LEMMA RaisedAccount ==
    ASSUME NEW c \in Process, NEW S, NEW T, NEW e \in Errors, Account(c, S),
           \/ T = S /\ c.pc \in AtItem \cup {"discover", "close"}
           \/ T = S \cup {c.item.token} /\ c.pc \in AtItem
    PROVE  Account(Raised(c, e), T)
<1>1. PICK n \in Process : n = Raised(c, e)
  BY RaisedIs
<1>2. n.found = c.found /\ n.errors = c.errors + 1 /\ n.kind = c.kind
  BY <1>1, RaisedIs
<1>3. {c.saved, c.errors, n.saved, n.errors} \subseteq Nat
  BY DEF Process
<1>4. /\ IsFiniteSet(T) /\ Cardinality(T) \in Nat /\ Cardinality(S) \in Nat
      /\ Cardinality(T) = Cardinality(S) + (IF T = S THEN 0 ELSE 1)
      /\ c.saved =< Cardinality(S) /\ Cardinality(S) =< c.saved + c.errors
  <2>1. IsFiniteSet(S) /\ (c.pc \in AtItem => c.item.token \notin S)
    BY DEF Account
  <2>2. Cardinality(S) \in Nat
    BY <2>1, FS_CardinalityType
  <2>. QED BY <2>1, <2>2, OneMore DEF Account
<1>5. CASE c.kind = "scan" /\ c.pc \in AtItem
  <2>1. /\ n.saved = c.saved
        /\ IF c.todo = <<>> THEN n.pc = "close" /\ n.todo = <<>>
           ELSE n.pc = "profile" /\ n.todo = Tail(c.todo) /\ n.item = Head(c.todo)
    BY <1>1, <1>5, RaisedIs DEF AtItem
  <2>2. /\ n.saved + n.errors = c.saved + c.errors + 1
        /\ n.saved =< Cardinality(T) /\ Cardinality(T) =< n.saved + n.errors
    BY <1>2, <1>3, <1>4, <2>1
  <2>3. Account(n, T)
    BY <1>2, <1>4, <1>5, <2>1, <2>2, NextAccount
  <2>. QED BY <1>1, <2>3
<1>6. CASE ~(c.kind = "scan" /\ c.pc \in AtItem)
  <2>1. n.pc = "fail" /\ n.saved = (IF c.kind = "scan" THEN c.saved ELSE 0)
    BY <1>1, <1>6, RaisedIs DEF AtItem
  <2>2. n.saved =< Cardinality(T) /\ Cardinality(T) =< n.saved + n.errors
    <3>1. CASE c.kind = "scan"
      BY <1>2, <1>3, <1>4, <1>6, <2>1, <3>1
    <3>2. CASE c.kind # "scan"
      <4>1. c.found = 1 /\ c.todo = <<>> /\ Len(c.todo) = 0 /\ Min2(c.found, MaxTokens) = 1
        BY <3>2, EmptyList, BoundsAssumption DEF Account, Process, AtItem, Min2
      <4>2. c.pc \in AtItem => c.saved + c.errors + 1 = 1
        BY <1>3, <4>1 DEF Account, AtItem
      <4>3. c.pc = "close" => c.saved + c.errors = 1
        BY <1>3, <4>1 DEF Account
      <4>4. c.pc = "discover" => Cardinality(S) = 0
        BY <1>3, <1>4 DEF Account
      <4>. QED BY <1>2, <1>3, <1>4, <2>1, <3>2, <4>2, <4>3, <4>4
    <3>. QED BY <3>1, <3>2
  <2>3. Account(n, T)
    BY <1>4, <2>1, <2>2 DEF Account, AtItem
  <2>. QED BY <1>1, <2>3
<1>. QED BY <1>5, <1>6

LEMMA StoredAccount ==
    ASSUME NEW c \in Process, NEW S, Account(c, S), c.pc = "checks"
    PROVE  Account(StoredNext(c), S \cup {c.item.token})
<1>0. PICK T : T = S \cup {c.item.token}
  OBVIOUS
<1>1. PICK n \in Process : n = StoredNext(c) /\ T = S \cup {c.item.token}
  BY <1>0, StoredNextIs
<1>2. /\ n.found = c.found /\ n.saved = c.saved + 1 /\ n.errors = c.errors /\ n.kind = c.kind
      /\ IF c.kind = "scan" /\ c.todo # <<>>
         THEN n.pc = "profile" /\ n.todo = Tail(c.todo) /\ n.item = Head(c.todo)
         ELSE n.pc = "close" /\ n.todo = c.todo
      /\ {c.saved, c.errors} \subseteq Nat /\ c.kind \in {"scan", "manual"}
  BY <1>1, StoredNextIs DEF Process
<1>3. c.kind = "manual" => c.todo = <<>>
  BY DEF Account
<1>a. /\ n.kind # "manual" \/ (n.kind = c.kind /\ c.todo = <<>>)
      /\ IF c.todo = <<>> THEN n.pc = "close" /\ n.todo = <<>>
         ELSE n.pc = "profile" /\ n.todo = Tail(c.todo) /\ n.item = Head(c.todo)
  BY <1>2, <1>3
<1>b. c.pc \in AtItem
  BY DEF AtItem
<1>4. IsFiniteSet(S) /\ c.item.token \notin S
  BY DEF Account, AtItem
<1>5. /\ IsFiniteSet(T) /\ Cardinality(S) \in Nat /\ Cardinality(T) = Cardinality(S) + 1
  BY <1>1, <1>4, OneMore
<1>6. /\ n.saved + n.errors = c.saved + c.errors + 1
      /\ n.saved =< Cardinality(T) /\ Cardinality(T) =< n.saved + n.errors
  BY <1>2, <1>5 DEF Account
<1>7. Account(n, T)
  BY <1>1, <1>2, <1>a, <1>b, <1>5, <1>6, NextAccount
<1>. QED BY <1>1, <1>7

LEMMA DiscoveredAccount ==
    ASSUME NEW q \in Process, q.saved = 0, q.errors = 0, q.kind = "scan",
           Len(q.todo) = Min2(q.found, MaxTokens), Once(q.todo)
    PROVE  Account(NextToken(q), {})
<1>1. PICK n \in Process : n = NextToken(q)
  BY NextTokenIs
<1>2. /\ n.saved = 0 /\ n.errors = 0 /\ n.found = q.found /\ n.kind = "scan"
      /\ IF q.todo = <<>> THEN n.pc = "close" /\ n.todo = <<>>
         ELSE n.pc = "profile" /\ n.todo = Tail(q.todo) /\ n.item = Head(q.todo)
  BY <1>1, NextTokenIs
<1>3. IsFiniteSet({}) /\ Cardinality({}) = 0
  BY FS_EmptySet
<1>4. CASE q.todo = <<>>
  <2>1. n.pc = "close" /\ n.todo = <<>> /\ Len(n.todo) = 0 /\ Len(q.todo) = 0
    BY <1>2, <1>4, EmptyList
  <2>2. Account(n, {})
    BY <1>2, <1>3, <2>1 DEF Account, Once, AtItem
  <2>. QED BY <1>1, <2>2
<1>5. CASE q.todo # <<>>
  <2>1. n.pc = "profile" /\ n.todo = Tail(q.todo) /\ n.item = Head(q.todo)
    BY <1>2, <1>5
  <2>2. PICK t \in Seq(Items), u \in Seq(Items) : t = q.todo /\ u = n.todo
    BY DEF Process
  <2>3. /\ Len(t) = Len(u) + 1 /\ n.item = t[1]
        /\ \A i \in 1..Len(u) : u[i] = t[i + 1]
    BY <1>5, <2>1, <2>2, HeadTailProperties
  <2>4. \A i, j \in 1..Len(t) : t[i].token = t[j].token => i = j
    BY <2>2 DEF Once
  <2>5. ASSUME NEW i \in 1..Len(u), NEW j \in 1..Len(u), u[i].token = u[j].token
        PROVE  i = j
    <3>1. i + 1 \in 1..Len(t) /\ j + 1 \in 1..Len(t) /\ u[i] = t[i + 1] /\ u[j] = t[j + 1]
      BY <2>3
    <3>2. i + 1 = j + 1
      BY <2>4, <2>5, <3>1
    <3>. QED BY <3>2
  <2>6. \A i \in 1..Len(u) : u[i].token # t[1].token
    BY <2>3, <2>4
  <2>7. 0 + 0 + Len(u) + 1 = Min2(n.found, MaxTokens)
    BY <1>2, <2>2, <2>3
  <2>8. Account(n, {})
    BY <1>2, <1>3, <2>1, <2>2, <2>3, <2>5, <2>6, <2>7 DEF Account, Once, AtItem
  <2>. QED BY <1>1, <2>8
<1>. QED BY <1>4, <1>5

\* What a step inside a run does to its process c, which becomes n.
SameToken(c, n) ==
    /\ c.pc \in AtItem /\ n.pc \in AtItem /\ n.item.token = c.item.token
    /\ n.kind = c.kind /\ n.found = c.found /\ n.saved = c.saved
    /\ n.errors = c.errors /\ n.todo = c.todo

Counts(c, n) ==
    \/ SameToken(c, n) /\ checks' = checks
    \/ /\ \E e \in Errors : n = Raised(c, e)
       /\ \/ checks' = checks /\ c.pc \in AtItem \cup {"discover"}
          \/ checks' = checks \cup {CheckOf(c)} /\ c.pc \in AtItem
    \/ c.pc = "checks" /\ n = StoredNext(c) /\ checks' = checks \cup {CheckOf(c)}

LEMMA StepsCount ==
    ASSUME NEW p \in Procs, proc \in [Procs -> Process], NEW end \in Ends,
           NEW pc \in AtItem, Step(p, end, pc), proc[p].pc \in AtItem, checks' = checks
    PROVE  Counts(proc[p], proc'[p])
<1>0. PICK c \in Process : c = proc[p]
  OBVIOUS
<1>1. PICK q : c = proc[p] /\ q = [c EXCEPT !.pc = pc]
  BY <1>0
<1>2. /\ q \in Process /\ q.pc = pc /\ q.item = c.item /\ q.kind = c.kind /\ q.found = c.found
      /\ q.saved = c.saved /\ q.errors = c.errors /\ q.todo = c.todo
  BY <1>1 DEF Process, Places
<1>3. proc'[p] = IF end = "done" THEN q ELSE Raised(c, "database")
  BY <1>1, <1>2, GoesIs DEF Step
<1>4. CASE end = "done"
  BY <1>1, <1>2, <1>3, <1>4 DEF Counts, SameToken
<1>5. CASE end # "done"
  BY <1>1, <1>3, <1>5 DEF Counts, Errors
<1>. QED BY <1>4, <1>5

LEMMA InnerCounts ==
    ASSUME NEW p \in Procs, Safe(p), InnerStep(p), ~Discovers(p)
    PROVE  Counts(proc[p], proc'[p])
<1>1. PICK c \in Process : c = proc[p]
  BY DEF Safe, Types
<1>2. proc \in [Procs -> Process] /\ Holds(c) /\ {"database", "no_pair", "unavailable"} \subseteq Errors
  BY <1>1 DEF Safe, Types, Errors
<1>3. ASSUME DiscoveryBreaks(p)
      PROVE  Counts(c, proc'[p])
  <2>1. c.pc = "discover" /\ Goes(p, "failed", c) /\ checks' = checks
    BY <1>1, <1>3 DEF DiscoveryBreaks, tables
  <2>2. proc'[p] = Raised(c, "database")
    BY <1>1, <1>2, <2>1, GoesIs DEF Ends
  <2>. QED BY <1>2, <2>1, <2>2 DEF Counts
<1>4. ASSUME FindsPair(p)
      PROVE  Counts(c, proc'[p])
  <2>1. PICK i \in Items : i.token = c.item.token
                           /\ proc' = [proc EXCEPT ![p].pc = "snapshot", ![p].item = i]
    BY <1>1, <1>4 DEF FindsPair, Token
  <2>2. proc'[p] = [c EXCEPT !.pc = "snapshot", !.item = i]
    BY <1>1, <1>2, <2>1
  <2>3. c.pc = "fetch" /\ checks' = checks
    BY <1>1, <1>4 DEF FindsPair, tables
  <2>5. PICK n : n = [c EXCEPT !.pc = "snapshot", !.item = i]
    OBVIOUS
  <2>6. /\ n.pc = "snapshot" /\ n.item = i /\ n.kind = c.kind /\ n.found = c.found
        /\ n.saved = c.saved /\ n.errors = c.errors /\ n.todo = c.todo
    BY <2>5 DEF Process
  <2>4. SameToken(c, proc'[p])
    BY <2>1, <2>2, <2>3, <2>5, <2>6 DEF SameToken, AtItem
  <2>. QED BY <2>3, <2>4 DEF Counts
<1>5. ASSUME FindsNoPair(p)
      PROVE  Counts(c, proc'[p])
  <2>1. c.pc = "fetch" /\ checks' = checks /\ proc'[p] = Raised(c, "no_pair")
    BY <1>1, <1>2, <1>5 DEF FindsNoPair, tables
  <2>. QED BY <1>2, <2>1 DEF Counts, AtItem
<1>6. ASSUME FetchFails(p)
      PROVE  Counts(c, proc'[p])
  <2>1. c.pc = "fetch" /\ checks' = checks /\ proc'[p] = [c EXCEPT !.pc = "trail_token"]
    BY <1>1, <1>2, <1>6 DEF FetchFails, tables
  <2>2. SameToken(c, proc'[p])
    BY <2>1 DEF SameToken, AtItem, Process
  <2>. QED BY <2>1, <2>2 DEF Counts
<1>7. ASSUME NEW end \in Ends, SavesProfile(p, end)
      PROVE  Counts(c, proc'[p])
  <2>1. c.pc = "profile" /\ checks' = checks
    BY <1>1, <1>7 DEF SavesProfile, tables
  <2>2. CASE c.kind # "scan"
    <3>1. Step(p, end, "fetch")
      BY <1>1, <1>7, <2>2 DEF SavesProfile, Step
    <3>. QED BY <1>1, <1>2, <2>1, <3>1, StepsCount DEF AtItem
  <2>3. CASE c.kind = "scan" /\ c.item.pair # NoPair
    <3>1. Step(p, end, "snapshot")
      BY <1>1, <1>7, <2>3 DEF SavesProfile, Step, Pair
    <3>. QED BY <1>1, <1>2, <2>1, <3>1, StepsCount DEF AtItem
  <2>4. CASE c.kind = "scan" /\ c.item.pair = NoPair
    <3>1. Goes(p, end, Raised(c, "no_pair")) /\ Raised(c, "no_pair") \in Process
      BY <1>1, <1>2, <1>7, <2>4, RaisedIs DEF SavesProfile, Pair
    <3>2. proc'[p] = Raised(c, "no_pair") \/ proc'[p] = Raised(c, "database")
      BY <1>1, <1>2, <3>1, GoesIs
    <3>. QED BY <1>2, <2>1, <3>2 DEF Counts, AtItem
  <2>. QED BY <2>2, <2>3, <2>4
<1>8. ASSUME NEW end \in Ends, record_data_unavailable(p, end)
      PROVE  Counts(c, proc'[p])
  <2>1. c.pc = "trail" /\ checks' = checks /\ Goes(p, end, Raised(c, "unavailable"))
    BY <1>1, <1>8 DEF record_data_unavailable
  <2>2. Raised(c, "unavailable") \in Process
    BY <1>2, RaisedIs
  <2>3. proc'[p] = Raised(c, "unavailable") \/ proc'[p] = Raised(c, "database")
    BY <1>1, <1>2, <2>1, <2>2, GoesIs
  <2>. QED BY <1>2, <2>1, <2>3 DEF Counts, AtItem
<1>9. ASSUME NEW end \in Ends, insert_risk_checks(p, end)
      PROVE  Counts(c, proc'[p])
  <2>1. /\ c.pc = "checks" /\ checks' = With(checks, CheckOf(c), end)
        /\ Goes(p, end, StoredNext(c))
    BY <1>1, <1>9 DEF insert_risk_checks, StoredNext, CheckOf, Run, Token, Pair
  <2>2. StoredNext(c) \in Process
    BY StoredNextIs
  <2>3. proc'[p] = IF end = "done" THEN StoredNext(c) ELSE Raised(c, "database")
    BY <1>1, <1>2, <2>1, <2>2, GoesIs
  <2>. QED BY <1>2, <2>1, <2>3 DEF Counts, AtItem, With
<1>10. ASSUME NEW end \in Ends,
              \/ SavesTrailToken(p, end) \/ SavesSnapshot(p, end) \/ upsert_token(p, end)
              \/ upsert_token_pair(p, end) \/ upsert_token_price(p, end)
       PROVE  Counts(c, proc'[p])
  <2>1. /\ c.pc \in AtItem /\ checks' = checks
        /\ \E pc \in {"trail", "token", "pair", "price", "checks"} : Step(p, end, pc)
    BY <1>1, <1>10 DEF SavesTrailToken, SavesSnapshot, upsert_token, upsert_token_pair,
                       upsert_token_price, AtItem
  <2>. QED BY <1>1, <1>2, <2>1, StepsCount DEF AtItem
<1>. QED BY <1>1, <1>3, <1>4, <1>5, <1>6, <1>7, <1>8, <1>9, <1>10 DEF InnerStep

\* The account that a process gives of the tokens of its run.
Accounts ==
    /\ \A p \in Procs : proc[p].pc # "idle" => Account(proc[p], Stored(proc[p].run))
    /\ AccountsBalance

LEMMA AccountKept ==
    ASSUME NEW c \in Process, NEW n \in Process, NEW S, Account(c, S), SameToken(c, n)
    PROVE  Account(n, S)
BY DEF Account, SameToken, AtItem

LEMMA StoredOne ==
    ASSUME NEW c, checks' = checks \cup {CheckOf(c)}
    PROVE  /\ Stored(c.run)' = Stored(c.run) \cup {c.item.token}
           /\ \A r : r # c.run => Stored(r)' = Stored(r)
<1>1. PICK x : x = CheckOf(c)
  OBVIOUS
<1>2. x.run = c.run /\ x.token = c.item.token
  BY <1>1 DEF CheckOf
<1>3. checks' = checks \cup {x}
  BY <1>1
<1>4. Stored(c.run)' = Stored(c.run) \cup {c.item.token}
  BY <1>2, <1>3 DEF Stored
<1>5. \A r : r # c.run => Stored(r)' = Stored(r)
  BY <1>2, <1>3 DEF Stored
<1>. QED BY <1>4, <1>5

LEMMA InnerAccount ==
    ASSUME Base, Accounts, NEW p \in Procs, InnerStep(p)
    PROVE  /\ Account(proc[p], Stored(proc[p].run))'
           /\ \A r \in 0..MaxRuns : r # proc[p].run => Stored(r)' = Stored(r)
<1>1. PICK c \in Process : c = proc[p]
  BY DEF Base, Types
<1>2. Inner(p)
  BY InnerSteps DEF Base, Safe
<1>3. PICK n \in Process : n = proc'[p]
  BY <1>2 DEF Inner
<1>4. PICK S : S = Stored(c.run)
  OBVIOUS
<1>5. n.run = c.run /\ Account(c, S) /\ c.pc # "idle"
  BY <1>1, <1>2, <1>3, <1>4 DEF Inner, Accounts, AtItem
<1>6. SUFFICES /\ \E T : T = Stored(c.run)' /\ Account(n, T)
               /\ \A r \in 0..MaxRuns : r # c.run => Stored(r)' = Stored(r)
  <2>1. ASSUME NEW T, T = Stored(c.run)', Account(n, T)
        PROVE  Account(proc[p], Stored(proc[p].run))'
    <3>1. Stored(proc[p].run)' = T
      BY <1>3, <1>5, <2>1 DEF Stored
    <3>. QED BY <1>3, <2>1, <3>1 DEF Account
  <2>. QED BY <1>1, <2>1
<1>7. CASE Discovers(p)
  <2>1. PICK q \in Process :
              /\ proc' = [proc EXCEPT ![p] = NextToken(q)]
              /\ Len(q.todo) = Min2(q.found, MaxTokens) /\ Once(q.todo)
              /\ q.kind = c.kind /\ q.saved = c.saved /\ q.errors = c.errors
    BY <1>1, <1>7, DiscoversIs DEF Base
  <2>2. c.pc = "discover" /\ checks' = checks
    BY <1>1, <1>7 DEF Discovers, tables
  <2>3. c.kind = "scan" /\ c.saved = 0 /\ c.errors = 0 /\ S = {}
    BY <1>1, <1>5, <2>2 DEF Account, Base, Holds
  <2>4. Account(NextToken(q), {})
    BY <2>1, <2>3, DiscoveredAccount
  <2>5. n = NextToken(q)
    BY <1>3, <2>1 DEF Base, Types
  <2>6. \A r : Stored(r)' = Stored(r)
    BY <2>2 DEF Stored
  <2>. QED BY <1>4, <2>3, <2>4, <2>5, <2>6
<1>8. CASE ~Discovers(p)
  <2>1. Counts(c, n)
    BY <1>1, <1>3, <1>8, InnerCounts DEF Base, Safe
  <2>2. CASE checks' = checks /\ Account(n, S)
    <3>1. \A r : Stored(r)' = Stored(r)
      BY <2>2 DEF Stored
    <3>. QED BY <1>4, <2>2, <3>1
  <2>3. CASE checks' = checks \cup {CheckOf(c)} /\ Account(n, S \cup {c.item.token})
    BY <1>4, <2>3, StoredOne
  <2>4. CASE SameToken(c, n) /\ checks' = checks
    BY <1>5, <2>2, <2>4, AccountKept
  <2>5. ASSUME NEW e \in Errors, n = Raised(c, e),
               \/ checks' = checks /\ c.pc \in AtItem \cup {"discover"}
               \/ checks' = checks \cup {CheckOf(c)} /\ c.pc \in AtItem
        PROVE  \/ checks' = checks /\ Account(n, S)
               \/ checks' = checks \cup {CheckOf(c)} /\ Account(n, S \cup {c.item.token})
    <3>1. CASE checks' = checks /\ c.pc \in AtItem \cup {"discover"}
      BY <1>5, <2>5, <3>1, RaisedAccount
    <3>2. CASE checks' = checks \cup {CheckOf(c)} /\ c.pc \in AtItem
      BY <1>5, <2>5, <3>2, RaisedAccount
    <3>. QED BY <2>5, <3>1, <3>2
  <2>6. CASE c.pc = "checks" /\ n = StoredNext(c) /\ checks' = checks \cup {CheckOf(c)}
    BY <1>5, <2>3, <2>6, StoredAccount
  <2>. QED BY <2>1, <2>2, <2>3, <2>4, <2>5, <2>6 DEF Counts
<1>. QED BY <1>7, <1>8

\* The accounts of the others are not touched.
LEMMA OthersAccount ==
    ASSUME Base, Accounts, NEW p \in Procs, Others(p),
           \A r \in 0..MaxRuns : r # proc[p].run \/ proc[p].pc = "idle" => Stored(r)' = Stored(r),
           proc'[p].pc # "idle" => Account(proc[p], Stored(proc[p].run))'
    PROVE  \A o \in Procs : proc'[o].pc # "idle" => Account(proc[o], Stored(proc[o].run))'
<1>. SUFFICES ASSUME NEW o \in Procs, proc'[o].pc # "idle", o # p
              PROVE  Account(proc[o], Stored(proc[o].run))'
  OBVIOUS
<1>1. PICK c \in Process : c = proc[o]
  BY DEF Base, Types
<1>2. proc'[o] = c /\ c.pc # "idle" /\ c.run \in 0..MaxRuns /\ c.run # proc[p].run
  BY <1>1 DEF Others, Base, Owned, Process
<1>3. PICK S : S = Stored(c.run)
  OBVIOUS
<1>4. Account(c, S)
  BY <1>1, <1>2, <1>3 DEF Accounts
<1>5. Stored(proc[o].run)' = S
  <2>1. Stored(c.run)' = S
    BY <1>2, <1>3
  <2>. QED BY <1>2, <2>1 DEF Stored
<1>. QED BY <1>2, <1>4, <1>5 DEF Account

\* What a closed run says of its tokens S.
Balanced(run, S) ==
    run.status \in {"success", "failed"} =>
        /\ run.saved =< Cardinality(S)
        /\ Cardinality(S) =< run.saved + run.errors
        /\ run.status = "success" => run.saved + run.errors = Min2(run.found, MaxTokens)

LEMMA BalanceIs == AccountsBalance <=> \A r \in 1..MaxRuns : Balanced(runs[r], Stored(r))
BY DEF AccountsBalance, Balanced

LEMMA AccountsInner ==
    ASSUME Base, Accounts, NEW p \in Procs, InnerStep(p)
    PROVE  Accounts'
<1>1. Inner(p)
  BY InnerSteps DEF Base, Safe
<1>2. /\ Account(proc[p], Stored(proc[p].run))'
      /\ \A r \in 0..MaxRuns : r # proc[p].run => Stored(r)' = Stored(r)
  BY InnerAccount
<1>3. proc[p].pc \notin {"idle", "fail"}
  BY <1>1 DEF Inner, AtItem
<1>4. \A o \in Procs : proc'[o].pc # "idle" => Account(proc[o], Stored(proc[o].run))'
  BY <1>1, <1>2, <1>3, OthersAccount DEF Others, Inner
<1>5. ASSUME NEW r \in 1..MaxRuns
      PROVE  Balanced(runs'[r], Stored(r)')
  <2>1. Balanced(runs[r], Stored(r)) /\ runs' = runs
    BY <1>1, BalanceIs DEF Accounts, Inner
  <2>2. CASE r = proc[p].run
    BY <1>3, <2>1, <2>2 DEF Base, Owned, Balanced
  <2>3. CASE r # proc[p].run
    BY <1>2, <2>1, <2>3, BoundsAssumption
  <2>. QED BY <2>2, <2>3
<1>6. AccountsBalance'
  BY <1>5 DEF AccountsBalance, Balanced
<1>. QED BY <1>4, <1>6 DEF Accounts

LEMMA StoredKept ==
    ASSUME UNCHANGED tables
    PROVE  \A r : Stored(r)' = Stored(r)
BY DEF Stored, tables

LEMMA AccountsStarts ==
    ASSUME Base, Accounts, NEW p \in Procs, Begins(p)
    PROVE  Accounts'
<1>1. /\ latest < MaxRuns /\ UNCHANGED tables
      /\ runs' = [runs EXCEPT ![latest + 1] = [NoRun EXCEPT !.status = "running"]]
      /\ proc[p].pc = "idle"
      /\ \/ proc' = proc
         \/ \E q \in Process :
               /\ proc' = [proc EXCEPT ![p] = q]
               /\ q.run = latest + 1 /\ q.saved = 0 /\ q.errors = 0 /\ q.todo = <<>>
               /\ \/ q.pc = "discover" /\ q.kind = "scan"
                  \/ q.pc = "profile" /\ q.kind = "manual" /\ q.found = 1
  BY StartsIs
<1>2. Stored(latest + 1) = {} /\ \A r : Stored(r)' = Stored(r)
  <2>1. \A c \in checks : c.run # latest + 1
    BY DEF Base, Types, Tabled, Owned
  <2>. QED BY <1>1, <2>1, StoredKept DEF Stored
<1>3. Others(p) /\ proc \in [Procs -> Process]
  BY <1>1 DEF Others, Base, Types
<1>4. ASSUME proc'[p].pc # "idle"
      PROVE  Account(proc[p], Stored(proc[p].run))'
  <2>1. PICK q \in Process :
               /\ proc'[p] = q
               /\ q.run = latest + 1 /\ q.saved = 0 /\ q.errors = 0 /\ q.todo = <<>>
               /\ \/ q.pc = "discover" /\ q.kind = "scan"
                  \/ q.pc = "profile" /\ q.kind = "manual" /\ q.found = 1
    BY <1>1, <1>3, <1>4
  <2>2. Account(q, {})
    <3>1. /\ IsFiniteSet({}) /\ Cardinality({}) = 0 /\ Len(q.todo) = 0 /\ Once(q.todo)
          /\ Min2(1, MaxTokens) = 1
      BY <2>1, FS_EmptySet, EmptyList, BoundsAssumption DEF Once, Min2
    <3>. QED BY <2>1, <3>1 DEF Account, AtItem
  <2>3. Stored(proc[p].run)' = {}
    <3>1. Stored(q.run)' = {}
      BY <1>2, <2>1
    <3>. QED BY <2>1, <3>1 DEF Stored
  <2>. QED BY <2>1, <2>2, <2>3 DEF Account
<1>5. \A o \in Procs : proc'[o].pc # "idle" => Account(proc[o], Stored(proc[o].run))'
  BY <1>1, <1>2, <1>3, <1>4, OthersAccount
<1>6. ASSUME NEW r \in 1..MaxRuns
      PROVE  Balanced(runs'[r], Stored(r)')
  <2>1. Balanced(runs[r], Stored(r))
    BY BalanceIs DEF Accounts
  <2>2. PICK m : m = [NoRun EXCEPT !.status = "running"]
    OBVIOUS
  <2>3. m.status = "running"
    BY <2>2 DEF NoRun
  <2>4. runs'[r] = m \/ runs'[r] = runs[r]
    BY <1>1, <2>2 DEF Base, Types
  <2>. QED BY <1>2, <2>1, <2>3, <2>4 DEF Balanced
<1>7. AccountsBalance'
  BY <1>6 DEF AccountsBalance, Balanced
<1>. QED BY <1>5, <1>7 DEF Accounts

LEMMA AccountsDies ==
    ASSUME Base, Accounts, NEW p \in Procs, Dies(p)
    PROVE  Accounts'
<1>1. UNCHANGED <<runs, tables>> /\ Others(p) /\ proc'[p].pc = "idle"
  BY EndedType DEF Dies, Others, Base, Types
<1>2. \A o \in Procs : proc'[o].pc # "idle" => Account(proc[o], Stored(proc[o].run))'
  BY <1>1, StoredKept, OthersAccount
<1>3. AccountsBalance'
  <2>1. \A r \in 1..MaxRuns : Balanced(runs'[r], Stored(r)')
    BY <1>1, StoredKept, BalanceIs DEF Accounts
  <2>. QED BY <2>1 DEF AccountsBalance, Balanced
<1>. QED BY <1>2, <1>3 DEF Accounts

LEMMA AccountsCloses ==
    ASSUME Base, Accounts, NEW p \in Procs, NEW end \in Ends,
           Closes(p, end) \/ ClosesFailed(p, end)
    PROVE  Accounts'
<1>1. PICK c \in Process : c = proc[p]
  BY DEF Base, Types
<1>2. /\ ClosesRun(p) /\ UNCHANGED <<latest, tables>> /\ Others(p)
      /\ c.pc \in {"close", "fail"}
      /\ \/ proc'[p] = Ended
         \/ c.pc = "close" /\ proc'[p] = Raised(c, "database")
  BY <1>1, ClosesIs
<1>3. PICK S : S = Stored(c.run)
  OBVIOUS
<1>4. Account(c, S) /\ c.run \in 1..MaxRuns
  BY <1>1, <1>2, <1>3, BoundsAssumption DEF Accounts, Base, Types, Owned
<1>5. ASSUME proc'[p].pc # "idle"
      PROVE  Account(proc[p], Stored(proc[p].run))'
  <2>1. c.pc = "close" /\ proc'[p] = Raised(c, "database")
    BY <1>2, <1>5, EndedType
  <2>2. PICK n : n = Raised(c, "database")
    OBVIOUS
  <2>3. Account(n, S) /\ n.run = c.run
    BY <1>4, <2>1, <2>2, RaisedAccount, RaisedIs DEF Errors
  <2>4. Stored(proc[p].run)' = S
    <3>1. Stored(n.run)' = S
      BY <1>2, <1>3, <2>3, StoredKept
    <3>. QED BY <2>1, <2>2, <3>1 DEF Stored
  <2>. QED BY <2>1, <2>2, <2>3, <2>4 DEF Account
<1>6. \A o \in Procs : proc'[o].pc # "idle" => Account(proc[o], Stored(proc[o].run))'
  BY <1>2, <1>5, StoredKept, OthersAccount
<1>7. \/ runs' = runs
      \/ \E status \in {"success", "failed"} :
            /\ status = "success" => c.pc = "close"
            /\ runs' = Finished(p, status)
  BY <1>1 DEF Closes, ClosesFailed
<1>8. ASSUME NEW r \in 1..MaxRuns
      PROVE  Balanced(runs'[r], Stored(r)')
  <2>1. Balanced(runs[r], Stored(r)) /\ Stored(r)' = Stored(r)
    BY <1>2, StoredKept, BalanceIs DEF Accounts
  <2>2. CASE runs'[r] = runs[r]
    BY <2>1, <2>2
  <2>3. ASSUME NEW status \in {"success", "failed"}, status = "success" => c.pc = "close",
               runs' = Finished(p, status)
        PROVE  Balanced(runs'[r], Stored(r)')
    <3>1. PICK m : m = [status |-> status, found |-> c.found, saved |-> c.saved,
                        errors |-> c.errors, error |-> c.error]
      OBVIOUS
    <3>2. m.status = status /\ m.found = c.found /\ m.saved = c.saved /\ m.errors = c.errors
      BY <3>1
    <3>3. runs'[r] = IF r = c.run THEN m ELSE runs[r]
      BY <1>1, <1>4, <2>3, <3>1 DEF Finished, Run, Base, Types
    <3>4. c.pc = "close" => c.saved + c.errors = Min2(c.found, MaxTokens)
      <4>1. c.pc = "close" => c.saved + c.errors + 0 = Min2(c.found, MaxTokens)
        BY <1>4, EmptyList DEF Account, AtItem, Process
      <4>2. c.saved \in Nat /\ c.errors \in Nat
        BY DEF Process
      <4>. QED BY <4>1, <4>2
    <3>5. Balanced(m, S)
      BY <1>4, <2>3, <3>2, <3>4 DEF Balanced, Account
    <3>. QED BY <1>3, <2>1, <3>3, <3>5
  <2>. QED BY <1>7, <2>2, <2>3
<1>9. AccountsBalance'
  BY <1>8 DEF AccountsBalance, Balanced
<1>. QED BY <1>6, <1>9 DEF Accounts

LEMMA AccountsStep ==
    ASSUME Base, Accounts, [Next]_vars
    PROVE  Accounts'
<1>1. CASE UNCHANGED vars
  BY <1>1 DEF vars, tables, Accounts, Account, AccountsBalance, Stored
<1>. QED BY <1>1, NextIs, AccountsInner, AccountsStarts, AccountsDies, AccountsCloses

-----------------------------------------------------------------------------
(***************************************************************************)
(* The readiness, and the runs as the stages behind see them.              *)
(***************************************************************************)
LEMMA PresentNames ==
    ASSUME NEW f \in Fields, NEW g \in Fields, Present[f] = Present[g]
    PROVE  f = g
BY DEF Fields, Present

LEMMA RequiredNames ==
    ASSUME NEW f \in Fields \ {"liquidity", "volume_5m"}
    PROVE  Present[f] \in Required
BY DEF Fields, Present, Required

LEMMA ReadyHasAll ==
    ASSUME NEW o \in Observations,
           data_readiness_status(add_basic_risk_checks(o)) \in ALLOWED_READINESS_STATUSES,
           NEW f \in Fields \ {"liquidity", "volume_5m"}
    PROVE  o[f] # "none"
<1>1. PICK rows : rows = add_basic_risk_checks(o)
  OBVIOUS
<1>2. Row(Present[f], "PASS") \in rows
  BY <1>1, RequiredNames DEF data_readiness_status, ALLOWED_READINESS_STATUSES
<1>3. PICK g \in Fields : BasicCheck(g, o[g]) = Row(Present[f], "PASS")
  BY <1>1, <1>2 DEF add_basic_risk_checks
<1>4. \A n, m, k, l : Row(n, k) = Row(m, l) => n = m /\ k = l
  BY DEF Row
<1>5. BasicCheck(g, o[g]) = Row(Present[g], "PASS") /\ o[g] # "none"
  BY <1>3, <1>4 DEF BasicCheck
<1>6. g = f
  BY <1>3, <1>4, <1>5, PresentNames
<1>. QED BY <1>5, <1>6

LEMMA CompleteCandidates == Base => CandidatesAreComplete
<1>. SUFFICES ASSUME Base, NEW r \in 1..MaxRuns, NEW c \in candidates(r)
              PROVE  /\ c.token \in tokens
                     /\ owner[c.pair] \in tokens
                     /\ c.pair \in prices
                     /\ [run |-> r, pair |-> c.pair] \in snapshots
                     /\ \A f \in Fields \ {"liquidity", "volume_5m"} : c.seen[f] # "none"
  BY DEF CandidatesAreComplete
<1>1. /\ c \in checks /\ c.run = r /\ c.seen \in Observations
      /\ data_readiness_status(add_basic_risk_checks(c.seen)) \in ALLOWED_READINESS_STATUSES
  BY DEF candidates, Base, Types, Tabled
<1>2. Complete(c)
  BY <1>1 DEF Base
<1>3. \A f \in Fields \ {"liquidity", "volume_5m"} : c.seen[f] # "none"
  BY <1>1, ReadyHasAll
<1>. QED BY <1>1, <1>2, <1>3 DEF Complete

OpenRuns == {r \in 1..MaxRuns : runs[r].status = "running"}
ReadyTokens(r) == {c.token : c \in candidates(r)}
ReadyRuns == [r \in 1..MaxRuns |-> ReadyTokens(r)]

LEMMA ReadyKept ==
    ASSUME checks' = checks
    PROVE  ReadyRuns' = ReadyRuns
BY DEF ReadyRuns, ReadyTokens, candidates

LEMMA ReadyGrows ==
    ASSUME NEW x, checks' = checks \cup {x}, x.run \in 1..MaxRuns
    PROVE  \/ ReadyRuns' = ReadyRuns
           \/ ReadyRuns' = [ReadyRuns EXCEPT ![x.run] = @ \cup {x.token}]
<1>1. \A r : r # x.run => ReadyTokens(r)' = ReadyTokens(r)
  BY DEF ReadyTokens, candidates
<1>2. \/ ReadyTokens(x.run)' = ReadyTokens(x.run)
      \/ ReadyTokens(x.run)' = ReadyTokens(x.run) \cup {x.token}
  BY DEF ReadyTokens, candidates
<1>3. CASE ReadyTokens(x.run)' = ReadyTokens(x.run)
  BY <1>1, <1>3 DEF ReadyRuns
<1>4. CASE ReadyTokens(x.run)' = ReadyTokens(x.run) \cup {x.token}
  BY <1>1, <1>4 DEF ReadyRuns
<1>. QED BY <1>2, <1>3, <1>4

LEMMA AbstractStep ==
    ASSUME Base, [Next]_vars
    PROVE  [Abstract!Next]_(Abstract!vars)
<1>. SUFFICES \/ Abstract!Next
              \/ latest' = latest /\ OpenRuns' = OpenRuns /\ ReadyRuns' = ReadyRuns
  BY DEF Abstract!vars, OpenRuns, ReadyRuns, ReadyTokens
<1>1. ASSUME NEW p \in Procs, Begins(p)
      PROVE  Abstract!Opens
  <2>1. /\ latest < MaxRuns /\ latest' = latest + 1 /\ checks' = checks
        /\ runs' = [runs EXCEPT ![latest + 1] = [NoRun EXCEPT !.status = "running"]]
    BY <1>1, StartsIs DEF tables
  <2>2. latest' \in 1..MaxRuns /\ latest' =< MaxRuns
    BY <2>1, BoundsAssumption DEF Base, Types
  <2>3. PICK m : m = [NoRun EXCEPT !.status = "running"]
    OBVIOUS
  <2>4. m.status = "running"
    BY <2>3 DEF NoRun
  <2>5. \A r \in 1..MaxRuns : runs'[r] = IF r = latest' THEN m ELSE runs[r]
    BY <2>1, <2>2, <2>3 DEF Base, Types
  <2>6. OpenRuns' = OpenRuns \cup {latest'}
    BY <2>2, <2>4, <2>5 DEF OpenRuns
  <2>7. ReadyRuns' = ReadyRuns
    BY <2>1, ReadyKept
  <2>. QED BY <2>1, <2>2, <2>6, <2>7 DEF Abstract!Opens, OpenRuns, ReadyRuns, ReadyTokens
<1>2. ASSUME NEW p \in Procs, InnerStep(p)
      PROVE  \/ \E r \in OpenRuns : \E t \in Tokens : Abstract!Gains(r, t)
             \/ latest' = latest /\ OpenRuns' = OpenRuns /\ ReadyRuns' = ReadyRuns
  <2>1. Inner(p)
    BY <1>2, InnerSteps DEF Base, Safe
  <2>2. latest' = latest /\ OpenRuns' = OpenRuns
    BY <2>1 DEF Inner, OpenRuns
  <2>3. CASE checks' = checks
    BY <2>2, <2>3, ReadyKept
  <2>4. ASSUME proc[p].pc = "checks", checks' = checks \cup {CheckOf(proc[p])}
        PROVE  \/ \E r \in OpenRuns : \E t \in Tokens : Abstract!Gains(r, t)
               \/ ReadyRuns' = ReadyRuns
    <3>1. PICK x : x = CheckOf(proc[p])
      OBVIOUS
    <3>2. x.run = proc[p].run /\ x.token = proc[p].item.token
      BY <3>1 DEF CheckOf
    <3>3. x.run \in OpenRuns /\ x.run \in 1..MaxRuns /\ x.token \in Tokens
      <4>1. Holds(proc[p]) /\ proc[p].pc \in AtItem
        BY <2>4 DEF Base, AtItem
      <4>2. /\ proc[p].run \in 1..latest /\ runs[proc[p].run].status = "running"
            /\ latest \in 0..MaxRuns
        BY <2>4 DEF Base, Types, Owned
      <4>. QED BY <3>2, <4>1, <4>2, BoundsAssumption DEF OpenRuns, Holds
    <3>4. \/ ReadyRuns' = ReadyRuns
          \/ ReadyRuns' = [ReadyRuns EXCEPT ![x.run] = @ \cup {x.token}]
      BY <2>4, <3>1, <3>3, ReadyGrows
    <3>5. CASE ReadyRuns' = [ReadyRuns EXCEPT ![x.run] = @ \cup {x.token}]
      <4>1. Abstract!Gains(x.run, x.token)
        BY <2>2, <3>3, <3>5 DEF Abstract!Gains, OpenRuns, ReadyRuns, ReadyTokens
      <4>. QED BY <3>3, <4>1
    <3>. QED BY <3>4, <3>5
  <2>. QED BY <2>1, <2>2, <2>3, <2>4 DEF Inner
<1>3. ASSUME NEW p \in Procs, Dies(p)
      PROVE  latest' = latest /\ OpenRuns' = OpenRuns /\ ReadyRuns' = ReadyRuns
  BY <1>3, ReadyKept DEF Dies, tables, OpenRuns
<1>4. ASSUME NEW p \in Procs, NEW end \in Ends, Closes(p, end) \/ ClosesFailed(p, end)
      PROVE  \/ \E r \in OpenRuns : Abstract!Closes(r)
             \/ latest' = latest /\ OpenRuns' = OpenRuns /\ ReadyRuns' = ReadyRuns
  <2>1. /\ ClosesRun(p) /\ UNCHANGED <<latest, tables>> /\ proc[p].pc # "idle"
    BY <1>4, ClosesIs
  <2>2. ReadyRuns' = ReadyRuns
    BY <2>1, ReadyKept DEF tables
  <2>3. PICK r : r = proc[p].run
    OBVIOUS
  <2>4. r \in 1..MaxRuns /\ \A k \in (1..MaxRuns) \ {r} : runs'[k] = runs[k]
    BY <2>1, <2>3, ClosesRunIs
  <2>5. runs' = runs \/ runs'[r].status # "running"
    <3>1. ASSUME NEW status \in {"success", "failed"}, runs' = Finished(p, status)
          PROVE  runs'[r].status # "running"
      <4>1. runs'[r].status = status
        BY <2>3, <2>4, <3>1 DEF Finished, Run, Base, Types
      <4>. QED BY <4>1
    <3>. QED BY <2>1, <3>1 DEF ClosesRun
  <2>6. CASE runs' = runs
    BY <2>1, <2>2, <2>6 DEF OpenRuns
  <2>7. CASE runs'[r].status # "running" /\ r \in OpenRuns
    <3>1. OpenRuns' = OpenRuns \ {r}
      BY <2>4, <2>7 DEF OpenRuns
    <3>2. Abstract!Closes(r)
      BY <2>1, <2>2, <3>1 DEF Abstract!Closes, OpenRuns, ReadyRuns, ReadyTokens
    <3>. QED BY <2>7, <3>2
  <2>8. CASE runs'[r].status # "running" /\ r \notin OpenRuns
    <3>1. OpenRuns' = OpenRuns
      BY <2>4, <2>8 DEF OpenRuns
    <3>. QED BY <2>1, <2>2, <3>1
  <2>. QED BY <2>5, <2>6, <2>7, <2>8
<1>5. CASE UNCHANGED vars
  BY <1>5, ReadyKept DEF vars, tables, OpenRuns
<1>. QED BY <1>1, <1>2, <1>3, <1>4, <1>5, NextIs DEF Abstract!Next, OpenRuns

LEMMA AbstractInit == Init => Abstract!Init
<1>. SUFFICES ASSUME Init PROVE Abstract!Init
  OBVIOUS
<1>1. OpenRuns = {}
  BY DEF Init, NoRun, OpenRuns
<1>2. ReadyRuns = [r \in 1..MaxRuns |-> {}]
  BY DEF Init, ReadyRuns, ReadyTokens, candidates
<1>. QED BY <1>1, <1>2 DEF Init, Abstract!Init, OpenRuns, ReadyRuns, ReadyTokens

-----------------------------------------------------------------------------
(***************************************************************************)
(* The theorems.                                                           *)
(***************************************************************************)
IInv == Base /\ Accounts /\ OnlyFaultsAbandonRuns

LEMMA IInvInit == Init => IInv
<1>. SUFFICES ASSUME Init PROVE IInv
  OBVIOUS
<1>1. Base
  BY BaseInit
<1>2. \A p \in Procs : proc[p].pc = "idle"
  BY EndedType DEF Init
<1>3. \A r \in 1..MaxRuns : runs[r].status = "none"
  BY DEF Init, NoRun
<1>4. AccountsBalance
  BY <1>3 DEF AccountsBalance
<1>5. Abandoned = {} /\ faults = MaxFaults
  BY <1>3 DEF Init, Abandoned
<1>6. Cardinality(Abandoned) = 0
  BY <1>5, FS_EmptySet
<1>7. OnlyFaultsAbandonRuns
  BY <1>5, <1>6, BoundsAssumption DEF OnlyFaultsAbandonRuns, Abandoned
<1>. QED BY <1>1, <1>2, <1>4, <1>7 DEF IInv, Accounts

LEMMA IInvStep == IInv /\ [Next]_vars => IInv'
BY BaseStep, AccountsStep, AbandonedStep DEF IInv

\* Whatever is done, together, by whichever processes, the invariant holds.
THEOREM IngestionInvariant == Spec => []IInv
BY IInvInit, IInvStep, PTL DEF Spec

\* Every table and every process of the scan and of ingest_manual_token keeps
\* its type.
THEOREM IngestionTyped == Spec => []TypeOK
<1>1. ASSUME Base
      PROVE  TypeOK
  <2>1. ASSUME NEW p \in Procs
        PROVE  /\ proc[p].pc \in {"idle", "discover", "profile", "fetch", "trail_token",
                                  "trail", "snapshot", "token", "pair", "price",
                                  "checks", "close", "fail"}
               /\ proc[p].kind \in {"scan", "manual"}
               /\ proc[p].run \in 0..latest
               /\ proc[p].pc # "idle" => runs[proc[p].run].status # "none"
               /\ proc[p].item \in Items0
               /\ proc[p].todo \in Seq(Items)
               /\ <<proc[p].found, proc[p].saved, proc[p].errors>> \in Nat \X Nat \X Nat
               /\ proc[p].error \in Errors
    <3>1. PICK q \in Process : q = proc[p]
      BY <1>1 DEF Base, Types
    <3>2. q.run \in 0..latest /\ (q.pc # "idle" => runs[q.run].status # "none")
      BY <1>1, <3>1 DEF Base, Types, Owned
    <3>3. q.pc \in Places /\ q.kind \in {"scan", "manual"} /\ q.item \in Items0
          /\ q.todo \in Seq(Items) /\ q.found \in Nat /\ q.saved \in Nat
          /\ q.errors \in Nat /\ q.error \in Errors
      BY DEF Process
    <3>4. q.pc \in {"idle", "discover", "profile", "fetch", "trail_token", "trail",
                    "snapshot", "token", "pair", "price", "checks", "close", "fail"}
      BY <3>3 DEF Places, AtItem
    <3>. QED BY <3>1, <3>2, <3>3, <3>4
  <2>2. /\ runs \in [1..MaxRuns -> [status : {"none", "running", "success", "failed"},
                               found : Nat, saved : Nat, errors : Nat, error : Errors]]
        /\ latest \in 0..MaxRuns /\ faults \in 0..MaxFaults /\ Tabled
    BY <1>1 DEF Base, Types
  <2>. QED BY <2>1, <2>2 DEF TypeOK, Tabled
<1>2. IInv => TypeOK
  BY <1>1 DEF IInv
<1>. QED BY <1>2, IngestionInvariant, PTL

\* What get_early_dex_candidates returns for a run has its token, its pair, its
\* price, the raw answer of the run and the seven required figures, whatever
\* other processes store in the same pair and wherever one dies.
THEOREM CandidatesComplete == Spec => []CandidatesAreComplete
<1>1. IInv => CandidatesAreComplete
  BY CompleteCandidates DEF IInv
<1>. QED BY <1>1, IngestionInvariant, PTL

\* The counters that finish_ingestion_run writes agree with the tokens stored,
\* in spite of statements that took effect and did not answer.
THEOREM AccountsBalanced == Spec => []AccountsBalance
<1>1. IInv => AccountsBalance
  BY DEF IInv, Accounts
<1>. QED BY <1>1, IngestionInvariant, PTL

\* A run closed with the error of an unreachable DexScreener has the row that
\* record_data_unavailable writes.
THEOREM TrailsLeft == Spec => []UnreachableLeavesTrail
<1>1. IInv => UnreachableLeavesTrail
  BY DEF IInv, Base, RunTrails, UnreachableLeavesTrail
<1>. QED BY <1>1, IngestionInvariant, PTL

\* Each fault leaves at most one run 'running' with nobody at work on it, and
\* nothing else does: every other path reaches finish_ingestion_run.
THEOREM AbandonedRuns == Spec => []OnlyFaultsAbandonRuns
<1>1. IInv => OnlyFaultsAbandonRuns
  BY DEF IInv
<1>. QED BY <1>1, IngestionInvariant, PTL

\* The ingestion implements what the stages rely on: a run gains candidates
\* while it is open and never after, is closed for good, and ids grow.
THEOREM RunsOpenThenClosed == Spec => RunsAreOpenThenClosed
<1>1. Init => Abstract!Init
  BY AbstractInit
<1>2. IInv /\ [Next]_vars => [Abstract!Next]_(Abstract!vars)
  BY AbstractStep DEF IInv
<1>. QED BY <1>1, <1>2, IngestionInvariant, PTL
       DEF Spec, RunsAreOpenThenClosed, Abstract!Spec
=============================================================================
