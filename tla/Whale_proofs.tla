---------------------------- MODULE Whale_proofs ----------------------------
(***************************************************************************)
(* Proofs about the whale side: first WhaleSignals and WhaleWebhook, for   *)
(* any wallets and transactions, any number of synchronisations, requests  *)
(* and faults; then WhaleWallets, for any transfers, any prices and any    *)
(* number of services that run at once.  The two share no variable.        *)
(***************************************************************************)
EXTENDS WhaleSignals, WhaleWallets, FoldFacts, FiniteSetTheorems,
        SequenceTheorems, TLAPS

-----------------------------------------------------------------------------
(***************************************************************************)
(* The webhook's side: types.                                              *)
(***************************************************************************)
Sync == [pc : {"idle", "config", "request", "save"}, list : SUBSET Wallets,
         id : Nat, alone : BOOLEAN]

HookTypes ==
    /\ profile \in [Wallets -> Profiles] /\ tainted \subseteq Wallets
    /\ hooks \in Seq(SUBSET Wallets)
    /\ DOMAIN config \subseteq DOMAIN hooks /\ newest \in {0} \union DOMAIN config
    /\ sync \in [Syncs -> Sync]
    /\ \A s \in Syncs : /\ sync[s].id \in 0..Len(hooks)
                        /\ sync[s].pc = "save" => sync[s].id # 0
    /\ overlaps \in Nat /\ faults \in Nat

\* Webhooks are only added.
MoreHooks == Len(hooks) =< Len(hooks') /\ DOMAIN hooks \subseteq DOMAIN hooks'

\* What the request of a synchronisation makes of the webhooks.
LEMMA SentHooks ==
    ASSUME HookTypes, NEW s \in Syncs, hooks' = Sent(sync[s].id, sync[s].list)
    PROVE  /\ hooks' \in Seq(SUBSET Wallets) /\ Len(hooks') \in Nat
           /\ Len(hooks') = Len(hooks) + (IF sync[s].id = 0 THEN 1 ELSE 0)
           /\ DOMAIN hooks' = 1..Len(hooks') /\ DOMAIN hooks \subseteq DOMAIN hooks'
           /\ hooks'[IF sync[s].id = 0 THEN Len(hooks') ELSE sync[s].id] = sync[s].list
<1>0. /\ sync[s].list \in SUBSET Wallets /\ sync[s].id \in 0..Len(hooks)
      /\ hooks \in Seq(SUBSET Wallets) /\ Len(hooks) \in Nat
      /\ DOMAIN hooks = 1..Len(hooks)
  BY DEF HookTypes, Sync
<1>1. CASE sync[s].id = 0
  <2>1. hooks' = Append(hooks, sync[s].list)
    BY <1>1 DEF Sent
  <2>2. /\ hooks' \in Seq(SUBSET Wallets) /\ Len(hooks') = Len(hooks) + 1
        /\ hooks'[Len(hooks')] = sync[s].list
    BY <1>0, <2>1, AppendProperties
  <2>. QED BY <1>0, <1>1, <2>2
<1>2. CASE sync[s].id # 0
  <2>1. sync[s].id \in 1..Len(hooks) /\ hooks' = [hooks EXCEPT ![sync[s].id] = sync[s].list]
    BY <1>0, <1>2 DEF Sent
  <2>2. /\ hooks' \in Seq(SUBSET Wallets) /\ Len(hooks') = Len(hooks)
        /\ hooks'[sync[s].id] = sync[s].list
    BY <1>0, <2>1, ExceptSeq
  <2>. QED BY <1>0, <1>2, <2>2
<1>. QED BY <1>1, <1>2

\* Each step of the webhook's side keeps the types, and webhooks only grow.
LEMMA HookStep ==
    HookTypes /\ WebhookNext => HookTypes' /\ MoreHooks
<1>. SUFFICES ASSUME HookTypes, WebhookNext PROVE HookTypes' /\ MoreHooks
  OBVIOUS
<1>0. Len(hooks) \in Nat /\ DOMAIN hooks = 1..Len(hooks)
  BY DEF HookTypes
<1>1. ASSUME NEW w \in Wallets, NEW p \in Profiles \ {"unknown"}, ProfileChanges(w, p)
      PROVE  HookTypes' /\ MoreHooks
  BY <1>0, <1>1 DEF HookTypes, MoreHooks, ProfileChanges, webhook
<1>2. ASSUME NEW s \in Syncs, SyncBegins(s)
      PROVE  HookTypes' /\ MoreHooks
  <2>1. fetch_elite_wallet_addresses \in SUBSET Wallets /\ (~Overlaps(s)) \in BOOLEAN
    BY DEF fetch_elite_wallet_addresses
  <2>2. sync' \in [Syncs -> Sync]
    BY <1>2, <2>1 DEF SyncBegins, HookTypes, Sync
  <2>3. \A r \in Syncs : sync'[r].id \in 0..Len(hooks) /\ (sync'[r].pc = "save" => sync'[r].id # 0)
    BY <1>0, <1>2 DEF SyncBegins, HookTypes, Sync
  <2>4. overlaps' \in Nat
    BY <1>2 DEF SyncBegins, HookTypes
  <2>. QED BY <1>0, <1>2, <2>2, <2>3, <2>4 DEF SyncBegins, HookTypes, MoreHooks, whales
<1>3. ASSUME NEW s \in Syncs, ConfigRead(s)
      PROVE  HookTypes' /\ MoreHooks
  <2>1. newest \in 0..Len(hooks)
    BY <1>0 DEF HookTypes
  <2>a. newest \in Nat
    BY <1>0, <2>1
  <2>2. sync' \in [Syncs -> Sync]
    BY <1>3, <2>a DEF ConfigRead, Latest, HookTypes, Sync
  <2>3. \A r \in Syncs : sync'[r].id \in 0..Len(hooks) /\ (sync'[r].pc = "save" => sync'[r].id # 0)
    BY <1>3, <2>1 DEF ConfigRead, Latest, HookTypes, Sync
  <2>. QED BY <1>0, <1>3, <2>2, <2>3 DEF ConfigRead, HookTypes, MoreHooks, whales
<1>4. ASSUME NEW s \in Syncs, RequestAnswered(s)
      PROVE  HookTypes' /\ MoreHooks
  <2>1. /\ hooks' \in Seq(SUBSET Wallets) /\ Len(hooks') \in Nat
        /\ Len(hooks') = Len(hooks) + (IF sync[s].id = 0 THEN 1 ELSE 0)
        /\ DOMAIN hooks' = 1..Len(hooks') /\ DOMAIN hooks \subseteq DOMAIN hooks'
    BY <1>4, SentHooks DEF RequestAnswered
  <2>2. sync' \in [Syncs -> Sync]
    BY <1>4, <2>1 DEF RequestAnswered, HookTypes, Sync
  <2>3. \A r \in Syncs : sync'[r].id \in 0..Len(hooks') /\ (sync'[r].pc = "save" => sync'[r].id # 0)
    BY <1>0, <1>4, <2>1 DEF RequestAnswered, HookTypes, Sync
  <2>. QED BY <1>0, <1>4, <2>1, <2>2, <2>3 DEF RequestAnswered, HookTypes, MoreHooks, whales
<1>5. ASSUME NEW s \in Syncs, AnswerLost(s)
      PROVE  HookTypes' /\ MoreHooks
  <2>1. /\ hooks' \in Seq(SUBSET Wallets) /\ Len(hooks') \in Nat
        /\ Len(hooks') = Len(hooks) + (IF sync[s].id = 0 THEN 1 ELSE 0)
        /\ DOMAIN hooks' = 1..Len(hooks') /\ DOMAIN hooks \subseteq DOMAIN hooks'
    BY <1>5, SentHooks DEF AnswerLost
  <2>. QED BY <1>0, <1>5, <2>1 DEF AnswerLost, HookTypes, MoreHooks, whales
<1>6. ASSUME NEW s \in Syncs, ConfigSaved(s)
      PROVE  HookTypes' /\ MoreHooks
  <2>1. sync[s].id \in DOMAIN hooks
    BY <1>0, <1>6 DEF ConfigSaved, HookTypes
  <2>2. DOMAIN config' = DOMAIN config \union {sync[s].id}
    BY <1>6 DEF ConfigSaved, Saved
  <2>3. NoSync \in Sync /\ NoSync.id = 0 /\ NoSync.pc = "idle"
    BY DEF NoSync, Sync
  <2>. QED BY <1>0, <1>6, <2>1, <2>2, <2>3 DEF ConfigSaved, HookTypes, MoreHooks, whales
<1>7. ASSUME NEW s \in Syncs, SyncFails(s)
      PROVE  HookTypes' /\ MoreHooks
  <2>3. NoSync \in Sync /\ NoSync.id = 0 /\ NoSync.pc = "idle"
    BY DEF NoSync, Sync
  <2>. QED BY <1>0, <1>7, <2>3 DEF SyncFails, HookTypes, MoreHooks, whales
<1>. QED BY <1>1, <1>2, <1>3, <1>4, <1>5, <1>6, <1>7 DEF WebhookNext, SyncStep

-----------------------------------------------------------------------------
(***************************************************************************)
(* What a webhook costs.  A synchronisation that has read "none yet" will  *)
(* create one; the first is free once its row is saved or while somebody   *)
(* is at work, each other one has cost a fault or an overlap.              *)
(***************************************************************************)
Creators == {s \in Syncs : \/ sync[s].pc = "config" /\ newest = 0
                           \/ sync[s].pc = "request" /\ sync[s].id = 0}

FirstIsFree == newest # 0 \/ \E s \in Syncs : Active(s)

Cost ==
    Len(hooks) + Cardinality(Creators) =< faults + overlaps + (IF FirstIsFree THEN 1 ELSE 0)

LEMMA CreatorsFinite ==
    /\ IsFiniteSet(Creators) /\ Cardinality(Creators) \in Nat
    /\ \A S \in SUBSET Creators : Cardinality(S) \in Nat /\ Cardinality(S) =< Cardinality(Creators)
<1>1. Creators \subseteq Syncs
  BY DEF Creators
<1>2. IsFiniteSet(Creators)
  BY <1>1, SyncsAssumption, FS_Subset
<1>. QED BY <1>2, FS_Subset, FS_CardinalityType

\* A step that adds no creator and no webhook, or pays for it.
LEMMA CostKept ==
    ASSUME HookTypes, Cost, Creators' \subseteq Creators, overlaps' = overlaps,
           HookTypes',
           \/ hooks' = hooks /\ faults' = faults /\ FirstIsFree'
           \/ hooks' = hooks /\ faults' = faults /\ FirstIsFree' = FirstIsFree
           \/ Len(hooks') =< Len(hooks) + 1 /\ faults' = faults + 1 /\ FirstIsFree'
           \/ hooks' = hooks /\ faults' = faults + 1
    PROVE  Cost'
<1>1. /\ Cardinality(Creators') \in Nat /\ Cardinality(Creators) \in Nat
      /\ Cardinality(Creators') =< Cardinality(Creators)
  BY CreatorsFinite
<1>2. Len(hooks) \in Nat /\ Len(hooks') \in Nat /\ {faults, overlaps, faults', overlaps'} \subseteq Nat
  BY DEF HookTypes
<1>. QED BY <1>1, <1>2 DEF Cost

LEMMA CostStep ==
    HookTypes /\ Cost /\ WebhookNext => Cost'
<1>. SUFFICES ASSUME HookTypes, Cost, WebhookNext PROVE Cost'
  OBVIOUS
<1>0. HookTypes'
  BY HookStep
<1>1. ASSUME NEW w \in Wallets, NEW p \in Profiles \ {"unknown"}, ProfileChanges(w, p)
      PROVE  Cost'
  BY <1>1 DEF Cost, ProfileChanges, webhook, Creators, FirstIsFree, Active
<1>2. ASSUME NEW s \in Syncs, SyncBegins(s)
      PROVE  Cost'
  <2>1. /\ s \notin Creators /\ FirstIsFree' /\ hooks' = hooks /\ faults' = faults
        /\ newest' = newest
    BY <1>2 DEF SyncBegins, Creators, FirstIsFree, Active, HookTypes
  <2>2. /\ Len(hooks) \in Nat /\ {faults, overlaps} \subseteq Nat
        /\ overlaps' = overlaps + (IF Overlaps(s) THEN 1 ELSE 0)
    BY <1>2 DEF SyncBegins, HookTypes
  <2>3. \A r \in Syncs : r # s => sync'[r].pc = sync[r].pc /\ sync'[r].id = sync[r].id
    BY <1>2 DEF SyncBegins, HookTypes, Sync
  <2>4. sync'[s].pc = "config"
    BY <1>2 DEF SyncBegins
  <2>5. Overlaps(s) => FirstIsFree
    BY DEF Overlaps, FirstIsFree
  <2>6. FirstIsFree => newest # 0 \/ Overlaps(s)
    BY <1>2 DEF FirstIsFree, Overlaps, SyncBegins
  <2>7. CASE newest = 0
    <3>1. Creators' = Creators \union {s}
      BY <2>1, <2>3, <2>4, <2>7 DEF Creators
    <3>2. Cardinality(Creators') = Cardinality(Creators) + 1 /\ Cardinality(Creators) \in Nat
      BY <2>1, <3>1, CreatorsFinite, FS_AddElement
    <3>. QED BY <2>1, <2>2, <2>5, <2>6, <2>7, <3>2 DEF Cost
  <2>8. CASE newest # 0
    <3>1. Creators' = Creators
      BY <2>1, <2>3, <2>4, <2>8 DEF Creators
    <3>2. FirstIsFree /\ Cardinality(Creators) \in Nat
      BY <2>8, CreatorsFinite DEF FirstIsFree
    <3>. QED BY <2>1, <2>2, <3>1, <3>2 DEF Cost
  <2>. QED BY <2>7, <2>8
<1>3. ASSUME NEW s \in Syncs, ConfigRead(s)
      PROVE  Cost'
  <2>1. Creators' \subseteq Creators
    BY <1>3 DEF ConfigRead, Latest, Creators, HookTypes, Sync
  <2>2. FirstIsFree'
    BY <1>3 DEF ConfigRead, FirstIsFree, Active, HookTypes
  <2>. QED BY <1>0, <1>3, <2>1, <2>2, CostKept DEF ConfigRead
<1>4. ASSUME NEW s \in Syncs, RequestAnswered(s)
      PROVE  Cost'
  <2>1. /\ Len(hooks') = Len(hooks) + (IF sync[s].id = 0 THEN 1 ELSE 0)
        /\ Len(hooks) \in Nat /\ {faults, overlaps} \subseteq Nat
    BY <1>4, SentHooks DEF RequestAnswered, HookTypes
  <2>2. /\ FirstIsFree /\ FirstIsFree' /\ faults' = faults /\ overlaps' = overlaps
        /\ newest' = newest
    BY <1>4 DEF RequestAnswered, FirstIsFree, Active, HookTypes
  <2>3. Creators' = Creators \ {s}
    BY <1>4, <2>2 DEF RequestAnswered, Creators, HookTypes, Sync
  <2>4. sync[s].id = 0 => s \in Creators
    BY <1>4 DEF RequestAnswered, Creators
  <2>5. /\ Cardinality(Creators) \in Nat /\ Cardinality(Creators') \in Nat
        /\ Cardinality(Creators') = Cardinality(Creators) - (IF s \in Creators THEN 1 ELSE 0)
    <3>1. CASE s \in Creators
      BY <2>3, <3>1, CreatorsFinite, FS_RemoveElement
    <3>2. CASE s \notin Creators
      BY <2>3, <3>2, CreatorsFinite
    <3>. QED BY <3>1, <3>2
  <2>. QED BY <2>1, <2>2, <2>4, <2>5 DEF Cost
<1>5. ASSUME NEW s \in Syncs, AnswerLost(s)
      PROVE  Cost'
  <2>1. Len(hooks') =< Len(hooks) + 1
    BY <1>5, SentHooks DEF AnswerLost, HookTypes
  <2>2. Creators' = Creators /\ FirstIsFree'
    BY <1>5 DEF AnswerLost, Creators, FirstIsFree, Active
  <2>. QED BY <1>0, <1>5, <2>1, <2>2, CostKept DEF AnswerLost
<1>6. ASSUME NEW s \in Syncs, ConfigSaved(s)
      PROVE  Cost'
  <2>1. newest' # 0
    BY <1>6 DEF ConfigSaved, HookTypes
  <2>2. Creators' \subseteq Creators
    BY <1>6, <2>1 DEF ConfigSaved, Creators, HookTypes, NoSync
  <2>. QED BY <1>0, <1>6, <2>1, <2>2, CostKept DEF ConfigSaved, FirstIsFree
<1>7. ASSUME NEW s \in Syncs, SyncFails(s)
      PROVE  Cost'
  <2>1. Creators' \subseteq Creators
    BY <1>7 DEF SyncFails, Creators, HookTypes, NoSync
  <2>. QED BY <1>0, <1>7, <2>1, CostKept DEF SyncFails
<1>. QED BY <1>1, <1>2, <1>3, <1>4, <1>5, <1>6, <1>7 DEF WebhookNext, SyncStep

-----------------------------------------------------------------------------
(***************************************************************************)
(* A synchronisation that runs alone.                                      *)
(***************************************************************************)
Alone == \A s \in Syncs : Active(s) /\ sync[s].alone =>
            /\ ~Overlaps(s)
            /\ sync[s].pc = "save" => hooks[sync[s].id] = sync[s].list

LEMMA AloneStep ==
    HookTypes /\ Alone /\ WebhookNext => Alone'
<1>. SUFFICES ASSUME HookTypes, Alone, WebhookNext PROVE Alone'
  OBVIOUS
<1>1. ASSUME NEW w \in Wallets, NEW p \in Profiles \ {"unknown"}, ProfileChanges(w, p)
      PROVE  Alone'
  BY <1>1 DEF ProfileChanges, webhook, Alone, Active, Overlaps
<1>2. ASSUME NEW s \in Syncs, SyncBegins(s)
      PROVE  Alone'
  BY <1>2 DEF SyncBegins, HookTypes, Sync, Alone, Active, Overlaps
<1>3. ASSUME NEW s \in Syncs, ConfigRead(s)
      PROVE  Alone'
  BY <1>3 DEF ConfigRead, HookTypes, Sync, Alone, Active, Overlaps
<1>4. ASSUME NEW s \in Syncs, RequestAnswered(s)
      PROVE  Alone'
  <2>1. hooks'[IF sync[s].id = 0 THEN Len(hooks') ELSE sync[s].id] = sync[s].list
    BY <1>4, SentHooks DEF RequestAnswered
  <2>2. \A r \in Syncs : /\ sync'[r].alone = sync[r].alone /\ sync'[r].list = sync[r].list
                         /\ Active(r)' <=> Active(r)
    BY <1>4 DEF RequestAnswered, HookTypes, Sync, Active
  <2>3. \A r \in Syncs : r # s => sync'[r] = sync[r]
    BY <1>4 DEF RequestAnswered, HookTypes
  <2>4. sync'[s].id = IF sync[s].id = 0 THEN Len(hooks') ELSE sync[s].id
    BY <1>4 DEF RequestAnswered, HookTypes, Sync
  <2>5. \A r \in Syncs : Overlaps(r)' <=> Overlaps(r)
    BY <2>2 DEF Overlaps
  <2>6. Active(s)
    BY <1>4 DEF RequestAnswered, Active
  <2>. QED BY <2>1, <2>2, <2>3, <2>4, <2>5, <2>6 DEF Alone, Overlaps
<1>5. ASSUME NEW s \in Syncs, AnswerLost(s)
      PROVE  Alone'
  <2>1. \A r \in Syncs : Active(r) /\ sync[r].alone => r = s
    BY <1>5 DEF AnswerLost, Alone, Active, Overlaps
  <2>. QED BY <1>5, <2>1 DEF AnswerLost, Alone, Active, Overlaps
<1>6. ASSUME NEW s \in Syncs, ConfigSaved(s) \/ SyncFails(s)
      PROVE  Alone'
  <2>1. hooks' = hooks /\ sync' = [sync EXCEPT ![s] = NoSync]
    BY <1>6 DEF ConfigSaved, SyncFails
  <2>2. \A r \in Syncs : IF r = s THEN ~Active(r)' ELSE sync'[r] = sync[r]
    BY <2>1 DEF HookTypes, Active, NoSync
  <2>. QED BY <2>1, <2>2 DEF Alone, Active, Overlaps
<1>. QED BY <1>1, <1>2, <1>3, <1>4, <1>5, <1>6 DEF WebhookNext, SyncStep

-----------------------------------------------------------------------------
(***************************************************************************)
(* The signals.  An item is settled when it raises no alert or its token   *)
(* has a job or a decision; a request has settled the items before the one *)
(* it is at, and nothing that comes later unsettles them: a stored row     *)
(* keeps its contents, and jobs and decisions stay.                        *)
(***************************************************************************)
Strong(e) ==
    /\ signals[e].type \in {"BUY", "TOKEN_IN"}
    /\ signals[e].amount >= AlertMin
    /\ signals[e].tracked /\ signals[e].wallet \notin tainted
    /\ signals[e].token \notin Noise \union {NoToken}

Settled(e) == Strong(e) => signals[e].token \in decided \union DOMAIN jobs

\* The first n items of a body are stored and settled.
Behind(body, n) == \A i \in 1..n : body[i] \in DOMAIN signals /\ Settled(body[i])

Request == [pc : {"idle", "save", "profile", "decision", "job", "answer"},
            hook : Nat, body : Seq(Chain), at : Nat]

Handling == {"save", "profile", "decision", "job"}

\* A request with this body at its item n, about to do its statement pc.
ItemsOK(body, n, pc) ==
    /\ \A i \in 1..Len(body) : body[i] \in happened
    /\ n \in 1..(Len(body) + 1)
    /\ pc \in Handling => n =< Len(body)
    /\ pc = "answer" => n = Len(body) + 1
    /\ Behind(body, n - 1)
    /\ pc \in Handling \ {"save"} => body[n] \in DOMAIN signals

RequestOK(r) == ItemsOK(request[r].body, request[r].at, request[r].pc)

RowOK(e) ==
    /\ signals[e].amount \in Nat
    /\ signals[e].tracked =>
          signals[e].wallet \in Wallets /\ profile[signals[e].wallet] # "unknown"

Untainted == \A w \in Wallets \ tainted : profile[w] \in {"unknown", "clean"}

Tables ==
    /\ happened \subseteq Chain /\ DOMAIN signals \subseteq happened
    /\ due \subseteq (DOMAIN hooks) \X happened
    /\ \A k \in DOMAIN jobs : jobs[k] \in DOMAIN signals /\ signals[jobs[k]].token = k

Rows == Untainted /\ \A e \in DOMAIN signals : RowOK(e)

Delivered == \A e \in accepted : e \in DOMAIN signals /\ Settled(e)

Handled == request \in [Requests -> Request] /\ \A r \in Requests : RequestOK(r)

\* What no step takes back.
Growing ==
    /\ DOMAIN signals \subseteq DOMAIN signals'
    /\ \A e \in DOMAIN signals : signals'[e] = signals[e]
    /\ tainted \subseteq tainted' /\ happened \subseteq happened'
    /\ decided \subseteq decided' /\ DOMAIN jobs \subseteq DOMAIN jobs'

LEMMA StaysSettled ==
    ASSUME Growing, NEW e \in DOMAIN signals, Settled(e)
    PROVE  e \in DOMAIN signals' /\ Settled(e)'
  BY DEF Growing, Settled, Strong

LEMMA StaysBehind ==
    ASSUME Growing, NEW b, NEW n, Behind(b, n)
    PROVE  Behind(b, n)'
  BY StaysSettled DEF Behind

\* A request that the step does not touch.
LEMMA RequestKept ==
    ASSUME Growing, NEW r \in Requests, RequestOK(r), request'[r] = request[r]
    PROVE  RequestOK(r)'
<1>1. PICK b, n, pc : b = request[r].body /\ n = request[r].at /\ pc = request[r].pc
  OBVIOUS
<1>2. Behind(b, n - 1)'
  BY <1>1, StaysBehind DEF RequestOK, ItemsOK
<1>3. ItemsOK(b, n, pc)'
  BY <1>1, <1>2 DEF RequestOK, ItemsOK, Growing
<1>. QED BY <1>1, <1>3 DEF RequestOK

\* A request that starts anew has nothing to show.
LEMMA FreshRequest ==
    ASSUME NEW r \in Requests, request'[r] = NoRequest
    PROVE  RequestOK(r)'
<1>1. Len(<<>>) = 0
  OBVIOUS
<1>. QED BY <1>1 DEF RequestOK, ItemsOK, Behind, Handling, NoRequest

LEMMA NoRequestType == NoRequest \in Request
<1>1. <<>> \in Seq(Chain)
  OBVIOUS
<1>. QED BY <1>1 DEF NoRequest, Request

\* The current item is settled, and the request goes on to the next one.
LEMMA NextItemOK ==
    ASSUME Growing, Handled, NEW r \in Requests, NextItem(r), request[r].pc \in Handling,
           NEW e, e = Item(r), e \in DOMAIN signals', Settled(e)'
    PROVE  Handled'
<1>1. PICK b, n : b = request[r].body /\ n = request[r].at
  OBVIOUS
<1>2. /\ n \in Nat /\ 1 =< n /\ n =< Len(b) /\ Len(b) \in Nat
      /\ request[r] \in Request /\ Behind(b, n - 1) /\ b[n] = e
      /\ \A i \in 1..Len(b) : b[i] \in happened
  BY <1>1 DEF Handled, RequestOK, ItemsOK, Request, Item
<1>3. request' \in [Requests -> Request]
  BY <1>1, <1>2 DEF NextItem, Handled, Request
<1>4. \A p \in Requests \ {r} : RequestOK(p)'
  BY RequestKept DEF NextItem, Handled
<1>5. /\ request'[r].body = b /\ request'[r].at = n + 1
      /\ request'[r].pc = IF n = Len(b) THEN "answer" ELSE "save"
  BY <1>1 DEF NextItem, Handled, Request
<1>6. Behind(b, n - 1)'
  BY <1>2, StaysBehind
<1>7. Behind(b, n)'
  BY <1>2, <1>6 DEF Behind
<1>8. ItemsOK(b, n + 1, IF n = Len(b) THEN "answer" ELSE "save")'
  BY <1>2, <1>7 DEF ItemsOK, Growing, Handling
<1>9. RequestOK(r)'
  BY <1>5, <1>8 DEF RequestOK
<1>. QED BY <1>3, <1>4, <1>9 DEF Handled

\* The request goes to its next statement for the same item.
LEMMA GoesToOK ==
    ASSUME Growing, Handled, NEW r \in Requests, NEW pc \in Handling \ {"save"},
           GoesTo(r, pc), request[r].pc \in Handling, Item(r) \in DOMAIN signals'
    PROVE  Handled'
<1>1. PICK b, n : b = request[r].body /\ n = request[r].at
  OBVIOUS
<1>2. /\ n \in Nat /\ 1 =< n /\ n =< Len(b) /\ Len(b) \in Nat
      /\ request[r] \in Request /\ Behind(b, n - 1) /\ b[n] \in DOMAIN signals'
      /\ \A i \in 1..Len(b) : b[i] \in happened
  BY <1>1 DEF Handled, RequestOK, ItemsOK, Request, Item
<1>3. request' \in [Requests -> Request]
  BY <1>2 DEF GoesTo, Handled, Request, Handling
<1>4. \A p \in Requests \ {r} : RequestOK(p)'
  BY RequestKept DEF GoesTo, Handled
<1>5. request'[r].body = b /\ request'[r].at = n /\ request'[r].pc = pc
  BY <1>1 DEF GoesTo, Handled, Request
<1>6. Behind(b, n - 1)'
  BY <1>2, StaysBehind
<1>7. ItemsOK(b, n, pc)'
  BY <1>2, <1>6 DEF ItemsOK, Growing, Handling
<1>8. RequestOK(r)'
  BY <1>5, <1>7 DEF RequestOK
<1>. QED BY <1>3, <1>4, <1>8 DEF Handled

-----------------------------------------------------------------------------
(***************************************************************************)
(* The inductive invariant.                                                *)
(***************************************************************************)
Webhook == HookTypes /\ Cost /\ Alone
Store == Tables /\ Rows /\ Delivered /\ Handled
IInv == Webhook /\ Store

LEMMA Initially == Init => IInv
<1>. SUFFICES ASSUME Init PROVE IInv
  OBVIOUS
<1>. USE DEF Init, WebhookInit
<1>1. Len(<<>>) = 0 /\ DOMAIN <<>> = {} /\ <<>> \in Seq(SUBSET Wallets)
  OBVIOUS
<1>2. NoSync \in Sync /\ NoSync.id = 0 /\ NoSync.pc = "idle"
  BY DEF NoSync, Sync
<1>3. profile \in [Wallets -> Profiles]
  BY DEF Profiles
<1>4. HookTypes
  BY <1>1, <1>2, <1>3 DEF HookTypes
<1>5. Creators = {}
  BY <1>2 DEF Creators
<1>6. Cost
  BY <1>1, <1>5, FS_EmptySet DEF Cost
<1>7. Alone
  BY <1>2 DEF Alone, Active
<1>8. Tables /\ Rows /\ Delivered
  BY <1>1 DEF Tables, Rows, Untainted, Delivered
<1>9. Handled
  <2>1. \A r \in Requests : RequestOK(r)
    BY <1>1 DEF RequestOK, ItemsOK, Behind, Handling, NoRequest
  <2>. QED BY <2>1, NoRequestType DEF Handled
<1>. QED BY <1>4, <1>6, <1>7, <1>8, <1>9 DEF IInv, Webhook, Store

\* The steps of the handlers leave the webhook's side alone, up to a fault.
LEMMA WebhookKept ==
    ASSUME Webhook, UNCHANGED <<whales, webhook>>, faults' = faults \/ faults' = faults + 1
    PROVE  Webhook'
<1>1. HookTypes'
  BY DEF Webhook, HookTypes, whales, webhook
<1>2. hooks' = hooks /\ overlaps' = overlaps /\ Creators' \subseteq Creators
  BY DEF webhook, Creators
<1>3. FirstIsFree' = FirstIsFree
  BY DEF webhook, FirstIsFree, Active
<1>4. Cost'
  BY <1>1, <1>2, <1>3, CostKept DEF Webhook
<1>5. Alone'
  BY DEF Webhook, Alone, webhook, Active, Overlaps
<1>. QED BY <1>1, <1>4, <1>5 DEF Webhook

\* A restart ends some synchronisations and every request.
LEMMA RestartKeeps ==
    IInv /\ Restart => IInv'
<1>. SUFFICES ASSUME IInv, Restart PROVE IInv'
  OBVIOUS
<1>1. HookTypes /\ Cost /\ Alone /\ Tables /\ Rows /\ Delivered /\ Handled
  BY DEF IInv, Webhook, Store
<1>2. PICK Ours \in SUBSET Syncs : sync' = [s \in Syncs |-> IF s \in Ours THEN NoSync ELSE sync[s]]
  BY DEF Restart
<1>3. NoSync \in Sync /\ NoSync.id = 0 /\ NoSync.pc = "idle"
  BY DEF NoSync, Sync
<1>4. /\ hooks' = hooks /\ faults' = faults + 1 /\ overlaps' = overlaps /\ newest' = newest
      /\ UNCHANGED <<whales, config, delivery, store>>
  BY DEF Restart
<1>5. HookTypes'
  BY <1>1, <1>2, <1>3, <1>4 DEF HookTypes, whales
<1>6. Creators' \subseteq Creators
  BY <1>2, <1>3, <1>4 DEF Creators
<1>7. Cost'
  BY <1>1, <1>4, <1>5, <1>6, CostKept
<1>8. Alone'
  BY <1>1, <1>2, <1>3, <1>4 DEF Alone, Active, Overlaps
<1>9. Tables' /\ Rows' /\ Delivered'
  BY <1>1, <1>4 DEF Tables, Rows, Untainted, RowOK, Delivered, Settled, Strong, whales, delivery, store
<1>10. Handled'
  <2>1. \A r \in Requests : request'[r] = NoRequest
    BY DEF Restart
  <2>2. request' \in [Requests -> Request]
    BY NoRequestType DEF Restart
  <2>. QED BY <2>1, <2>2, FreshRequest DEF Handled
<1>. QED BY <1>5, <1>7, <1>8, <1>9, <1>10 DEF IInv, Webhook, Store

\* A step that touches no request and takes nothing back.
LEMMA HandledKept ==
    ASSUME Growing, Handled, request' = request
    PROVE  Handled'
  BY RequestKept DEF Handled

LEMMA DeliveredKept ==
    ASSUME Growing, Delivered, accepted' = accepted
    PROVE  Delivered'
  BY StaysSettled DEF Delivered

LEMMA RowsKept ==
    ASSUME Rows, profile' = profile, tainted' = tainted, signals' = signals
    PROVE  Rows'
  BY DEF Rows, Untainted, RowOK

\* The webhook's side moves: profiles are judged again, webhooks are added.
LEMMA WebhookMoves ==
    IInv /\ WebhookNext /\ UNCHANGED <<delivery, store, request>> => IInv'
<1>. SUFFICES ASSUME IInv, WebhookNext, UNCHANGED <<delivery, store, request>> PROVE IInv'
  OBVIOUS
<1>1. HookTypes /\ Cost /\ Alone /\ Tables /\ Rows /\ Delivered /\ Handled
  BY DEF IInv, Webhook, Store
<1>2. HookTypes' /\ MoreHooks /\ Cost' /\ Alone'
  BY <1>1, HookStep, CostStep, AloneStep
<1>3. \/ UNCHANGED whales
      \/ \E w \in Wallets, p \in Profiles \ {"unknown"} : ProfileChanges(w, p)
  BY DEF WebhookNext, SyncStep, SyncBegins, ConfigRead, RequestAnswered, AnswerLost,
         ConfigSaved, SyncFails
<1>4. Rows' /\ tainted \subseteq tainted'
  <2>1. CASE UNCHANGED whales
    BY <1>1, <2>1, RowsKept DEF whales, store
  <2>2. ASSUME NEW w \in Wallets, NEW p \in Profiles \ {"unknown"}, ProfileChanges(w, p)
        PROVE  Rows' /\ tainted \subseteq tainted'
    <3>1. /\ profile' = [profile EXCEPT ![w] = p] /\ profile \in [Wallets -> Profiles]
          /\ tainted' = IF p = "clean" THEN tainted ELSE tainted \union {w}
          /\ signals' = signals
      BY <1>1, <2>2 DEF ProfileChanges, HookTypes, store
    <3>2. Untainted'
      BY <1>1, <3>1 DEF Rows, Untainted
    <3>3. \A e \in DOMAIN signals' : RowOK(e)'
      BY <1>1, <3>1 DEF Rows, RowOK
    <3>. QED BY <3>1, <3>2, <3>3 DEF Rows
  <2>. QED BY <1>3, <2>1, <2>2
<1>5. Growing
  BY <1>4 DEF Growing, delivery, store
<1>6. Tables'
  BY <1>1, <1>2 DEF Tables, MoreHooks, delivery, store
<1>7. Delivered' /\ Handled'
  BY <1>1, <1>5, DeliveredKept, HandledKept DEF delivery
<1>. QED BY <1>2, <1>4, <1>6, <1>7 DEF IInv, Webhook, Store

-----------------------------------------------------------------------------
(***************************************************************************)
(* The steps of the handlers.                                              *)
(***************************************************************************)
LEMMA NewRowOK ==
    ASSUME HookTypes, NEW e \in Chain
    PROVE  /\ NewRow(e).amount \in Nat
           /\ NewRow(e).tracked =>
                 NewRow(e).wallet \in Wallets /\ profile[NewRow(e).wallet] # "unknown"
<1>1. extract_signal_amount_sol(e) \in Nat
  BY ChainAssumption DEF extract_signal_amount_sol
<1>. QED BY <1>1 DEF NewRow

LEMMA SaveStep ==
    ASSUME IInv, NEW r \in Requests, SignalSaved(r)
    PROVE  Store'
<1>. USE DEF IInv, Webhook, Store
<1>1. PICK e : e = Item(r)
  OBVIOUS
<1>2. /\ request[r].pc = "save" /\ UNCHANGED <<whales, webhook, faults, delivery, jobs, decided>>
      /\ signals' = [x \in DOMAIN signals \union {e} |-> IF x = e THEN Row(e) ELSE signals[x]]
      /\ IF MayQueue(Row(e)) THEN GoesTo(r, "profile") ELSE NextItem(r)
  BY <1>1 DEF SignalSaved
<1>3. e \in happened /\ e \in Chain
  BY <1>1, <1>2 DEF Handled, RequestOK, ItemsOK, Request, Item, Handling, Tables
<1>4. /\ DOMAIN signals' = DOMAIN signals \union {e} /\ signals'[e] = Row(e)
      /\ \A x \in DOMAIN signals : signals'[x] = signals[x]
  BY <1>2 DEF Row
<1>5. Growing
  BY <1>2, <1>4 DEF Growing, whales, delivery
<1>6. Tables'
  BY <1>2, <1>3, <1>4 DEF Tables, webhook, delivery
<1>7. Rows'
  <2>1. Untainted'
    BY <1>2 DEF Rows, Untainted, whales
  <2>2. Row(e).amount \in Nat /\ (Row(e).tracked =>
           Row(e).wallet \in Wallets /\ profile[Row(e).wallet] # "unknown")
    BY <1>3, NewRowOK DEF Row, Rows, RowOK
  <2>3. \A x \in DOMAIN signals' : RowOK(x)'
    BY <1>2, <1>4, <2>2 DEF Rows, RowOK, whales
  <2>. QED BY <2>1, <2>3 DEF Rows
<1>8. Delivered'
  BY <1>2, <1>5, DeliveredKept DEF delivery
<1>9. Handled'
  <2>1. CASE MayQueue(Row(e))
    BY <1>1, <1>2, <1>4, <1>5, <2>1, GoesToOK DEF Handling
  <2>2. CASE ~MayQueue(Row(e))
    <3>1. (signals[e].amount \in Nat)' /\ ~MayQueue(signals[e])'
      BY <1>4, <1>7, <2>2 DEF Rows, RowOK, MayQueue
    <3>2. Settled(e)'
      BY <3>1, MinimaAssumption DEF MayQueue, Settled, Strong
    <3>. QED BY <1>1, <1>2, <1>4, <1>5, <2>2, <3>2, NextItemOK DEF Handling
  <2>. QED BY <2>1, <2>2
<1>. QED BY <1>6, <1>7, <1>8, <1>9

\* What the steps that store no signal have in common.
LEMMA StoreKept ==
    ASSUME IInv, Growing, UNCHANGED <<whales, webhook, happened, due, accepted, signals, jobs>>
    PROVE  Tables' /\ Rows' /\ Delivered'
<1>1. Tables'
  BY DEF IInv, Store, Tables, webhook
<1>. QED BY <1>1, RowsKept, DeliveredKept DEF IInv, Store, whales

LEMMA HandlingStep ==
    ASSUME IInv, NEW r \in Requests, ProfileRead(r) \/ DecisionRead(r)
    PROVE  Store'
<1>. USE DEF IInv, Webhook, Store
<1>1. PICK e : e = Item(r)
  OBVIOUS
<1>2. /\ UNCHANGED <<whales, webhook, faults, delivery, store>>
      /\ request[r].pc \in Handling \ {"save"}
  BY DEF ProfileRead, DecisionRead, Handling
<1>3. e \in DOMAIN signals
  BY <1>1, <1>2 DEF Handled, RequestOK, ItemsOK, Item
<1>4. Growing
  BY <1>2 DEF Growing, whales, delivery, store
<1>5. Tables' /\ Rows' /\ Delivered'
  BY <1>2, <1>4, StoreKept DEF delivery, store
<1>6. \/ GoesTo(r, "decision") \/ GoesTo(r, "job")
      \/ NextItem(r) /\ ~Qualifies(signals[e].wallet)
      \/ NextItem(r) /\ signals[e].token \in decided
  BY <1>1 DEF ProfileRead, DecisionRead
<1>7. e \in DOMAIN signals'
  BY <1>2, <1>3 DEF store
<1>8. CASE GoesTo(r, "decision") \/ GoesTo(r, "job")
  <2>1. Handled'
    BY <1>1, <1>2, <1>4, <1>7, <1>8, GoesToOK DEF Handling
  <2>. QED BY <1>5, <2>1
<1>9. ASSUME NextItem(r), ~Qualifies(signals[e].wallet) \/ signals[e].token \in decided
      PROVE  Store'
  <2>1. Settled(e)
    BY <1>3, <1>9 DEF Rows, RowOK, Untainted, Qualifies, Settled, Strong
  <2>2. Settled(e)'
    BY <1>3, <1>4, <2>1, StaysSettled
  <2>3. Handled'
    BY <1>1, <1>2, <1>4, <1>7, <1>9, <2>2, NextItemOK
  <2>. QED BY <1>5, <2>3
<1>. QED BY <1>6, <1>8, <1>9

LEMMA JobStep ==
    ASSUME IInv, NEW r \in Requests, JobUpserted(r)
    PROVE  Store'
<1>. USE DEF IInv, Webhook, Store
<1>1. PICK e, k : e = Item(r) /\ k = signals[e].token
  OBVIOUS
<1>2. /\ UNCHANGED <<whales, webhook, faults, delivery, signals, decided>>
      /\ request[r].pc = "job" /\ NextItem(r)
      /\ jobs' = [x \in DOMAIN jobs \union {k} |-> IF x \in DOMAIN jobs THEN jobs[x] ELSE e]
  BY <1>1 DEF JobUpserted
<1>3. e \in DOMAIN signals
  BY <1>1, <1>2 DEF Handled, RequestOK, ItemsOK, Item, Handling
<1>4. Growing
  BY <1>2 DEF Growing, whales, delivery
<1>5. Tables'
  BY <1>1, <1>2, <1>3 DEF Tables, webhook, delivery
<1>6. Rows' /\ Delivered'
  BY <1>2, <1>4, RowsKept, DeliveredKept DEF whales, delivery
<1>7. Settled(e)' /\ e \in DOMAIN signals'
  BY <1>1, <1>2, <1>3 DEF Settled
<1>8. Handled'
  BY <1>1, <1>2, <1>4, <1>7, NextItemOK DEF Handling
<1>. QED BY <1>5, <1>6, <1>8

LEMMA AnswerStep ==
    ASSUME IInv, NEW r \in Requests, Answers(r) \/ RequestFails(r)
    PROVE  Store'
<1>. USE DEF IInv, Webhook, Store
<1>1. /\ UNCHANGED <<whales, webhook, happened, store>>
      /\ request' = [request EXCEPT ![r] = NoRequest] /\ due' \subseteq due
  BY DEF Answers, RequestFails, delivery
<1>2. Growing
  BY <1>1 DEF Growing, whales, store
<1>3. Tables' /\ Rows'
  BY <1>1, RowsKept DEF Tables, whales, webhook, store
<1>4. Handled'
  <2>1. request' \in [Requests -> Request] /\ request'[r] = NoRequest
    BY <1>1, NoRequestType DEF Handled
  <2>2. \A p \in Requests \ {r} : RequestOK(p)'
    BY <1>1, <1>2, RequestKept DEF Handled
  <2>. QED BY <2>1, <2>2, FreshRequest DEF Handled
<1>5. Delivered'
  <2>1. CASE accepted' = accepted
    BY <1>2, <2>1, DeliveredKept
  <2>2. ASSUME Answers(r)
        PROVE  Delivered'
    <3>1. PICK b : b = request[r].body
      OBVIOUS
    <3>2. Behind(b, Len(b)) /\ b \in Seq(Chain)
      BY <2>2, <3>1 DEF Answers, Handled, RequestOK, ItemsOK, Request
    <3>3. \A i \in DOMAIN b : b[i] \in DOMAIN signals /\ Settled(b[i])
      BY <3>2 DEF Behind
    <3>4. accepted' = accepted \union {b[i] : i \in DOMAIN b}
      BY <2>2, <3>1 DEF Answers
    <3>5. \A e \in accepted' : e \in DOMAIN signals /\ Settled(e)
      BY <3>3, <3>4 DEF Delivered
    <3>. QED BY <1>2, <3>5, StaysSettled DEF Delivered
  <2>. QED BY <2>1, <2>2 DEF RequestFails, delivery
<1>. QED BY <1>3, <1>4, <1>5

LEMMA ArriveStep ==
    ASSUME IInv, NEW r \in Requests, NEW h \in DOMAIN hooks, NEW b \in Bodies(h), Arrives(r, h, b)
    PROVE  Store'
<1>. USE DEF IInv, Webhook, Store
<1>1. /\ UNCHANGED <<whales, webhook, faults, delivery, store>>
      /\ request' = [request EXCEPT ![r] = [pc |-> "save", hook |-> h, body |-> b, at |-> 1]]
  BY DEF Arrives
<1>2. PICK n \in 1..MaxBody : b \in [1..n -> {e \in happened : <<h, e>> \in due}]
  BY DEF Bodies
<1>a. MaxBody \in Nat /\ happened \subseteq Chain
  BY BodyAssumption DEF Tables
<1>b. n \in Nat \ {0}
  BY <1>2, <1>a
<1>c. \A i \in 1..n : b[i] \in happened /\ b[i] \in Chain
  BY <1>2, <1>a
<1>3. b \in [1..n -> Chain]
  BY <1>2, <1>c
<1>4. b \in Seq(Chain) /\ Len(b) = n
  BY <1>b, <1>3, SeqDef, LenProperties
<1>5. h \in Nat
  BY DEF HookTypes
<1>6. Growing
  BY <1>1 DEF Growing, whales, delivery, store
<1>7. Tables' /\ Rows' /\ Delivered'
  BY <1>1, <1>6, StoreKept DEF delivery, store
<1>8. request' \in [Requests -> Request]
  BY <1>1, <1>4, <1>5 DEF Handled, Request
<1>9. \A p \in Requests \ {r} : RequestOK(p)'
  BY <1>1, <1>6, RequestKept DEF Handled
<1>10. ItemsOK(b, 1, "save")'
  BY <1>1, <1>b, <1>c, <1>4 DEF ItemsOK, Behind, Handling, delivery
<1>11. RequestOK(r)'
  BY <1>1, <1>10 DEF RequestOK, Handled
<1>. QED BY <1>7, <1>8, <1>9, <1>11 DEF Handled

LEMMA WorldStep ==
    ASSUME IInv, \/ \E e \in Chain : Happens(e)
                 \/ \E k \in Mints : Decides(k)
    PROVE  Store'
<1>. USE DEF IInv, Webhook, Store
<1>1. /\ UNCHANGED <<whales, webhook, accepted, signals, jobs, request>>
      /\ decided \subseteq decided' /\ happened \subseteq happened' /\ happened' \subseteq Chain
      /\ due' \subseteq (DOMAIN hooks) \X happened'
  BY DEF Happens, Decides, delivery, store, Tables
<1>2. Growing
  BY <1>1 DEF Growing, whales
<1>3. Tables'
  BY <1>1 DEF Tables, webhook
<1>. QED BY <1>1, <1>2, <1>3, RowsKept, DeliveredKept, HandledKept DEF whales

-----------------------------------------------------------------------------
(***************************************************************************)
(* Together.                                                               *)
(***************************************************************************)
LEMMA Inductive == IInv /\ [Next]_vars => IInv'
<1>. SUFFICES ASSUME IInv, [Next]_vars PROVE IInv'
  OBVIOUS
<1>1. CASE WebhookNext /\ UNCHANGED <<delivery, store, request>>
  BY <1>1, WebhookMoves
<1>2. CASE Restart
  BY <1>2, RestartKeeps
<1>3. ASSUME UNCHANGED <<whales, webhook>>, faults' = faults \/ faults' = faults + 1, Store'
      PROVE  IInv'
  BY <1>3, WebhookKept DEF IInv
<1>4. CASE \/ \E e \in Chain : Happens(e)
           \/ \E k \in Mints : Decides(k)
  BY <1>3, <1>4, WorldStep DEF Happens, Decides
<1>5. ASSUME NEW r \in Requests, NEW h \in DOMAIN hooks, NEW b \in Bodies(h), Arrives(r, h, b)
      PROVE  IInv'
  BY <1>3, <1>5, ArriveStep DEF Arrives
<1>6. ASSUME NEW r \in Requests, HandlerStep(r)
      PROVE  IInv'
  <2>1. Store'
    BY <1>6, SaveStep, HandlingStep, JobStep, AnswerStep DEF HandlerStep
  <2>2. UNCHANGED <<whales, webhook>> /\ (faults' = faults \/ faults' = faults + 1)
    BY <1>6 DEF HandlerStep, SignalSaved, ProfileRead, DecisionRead, JobUpserted, Answers, RequestFails
  <2>. QED BY <1>3, <2>1, <2>2
<1>7. CASE UNCHANGED vars
  <2>1. Growing
    BY <1>7 DEF vars, Growing, whales, delivery, store
  <2>2. UNCHANGED <<whales, webhook, faults, happened, due, accepted, signals, jobs, request>>
    BY <1>7 DEF vars, delivery, store
  <2>3. Store'
    BY <2>1, <2>2, StoreKept, HandledKept DEF IInv, Store
  <2>. QED BY <1>3, <2>2, <2>3
<1>. QED BY <1>1, <1>2, <1>4, <1>5, <1>6, <1>7 DEF Next

LEMMA Invariant == Spec => []IInv
  BY Initially, Inductive, PTL DEF Spec

\* The rows, the requests and the webhooks are what the tables can hold:
\* a job points at a stored signal of its token, a report at a webhook that
\* exists (save_whale_signal, queue_whale_signal_analysis).
THEOREM SignalsTyped == Spec => []TypeOK
<1>1. IInv => TypeOK
  BY DEF IInv, Webhook, Store, HookTypes, Tables, Handled, RequestOK, ItemsOK, TypeOK
<1>. QED BY <1>1, Invariant, PTL

\* However many synchronisations run and whatever ends them, each webhook at
\* Helius beyond the first is the work of a fault or of an overlap
\* (sync_whale_webhook).
THEOREM HooksAreCounted == Spec => []HooksCostFaults
<1>1. IInv => HooksCostFaults
  <2>. SUFFICES ASSUME IInv PROVE HooksCostFaults
    OBVIOUS
  <2>1. /\ Len(hooks) \in Nat /\ overlaps \in Nat /\ faults \in Nat
        /\ Cardinality(Creators) \in Nat /\ Cost
    BY CreatorsFinite DEF IInv, Webhook, HookTypes
  <2>. QED BY <2>1 DEF Cost, HooksCostFaults
<1>. QED BY <1>1, Invariant, PTL

\* Whatever the batches, the errors in the middle of a body and the restarts,
\* Helius sees 202 only for items that are stored (whale_signal_webhook).
THEOREM AcceptedStored == Spec => []AcceptedIsStored
<1>1. IInv => AcceptedIsStored
  BY DEF IInv, Store, Delivered, AcceptedIsStored
<1>. QED BY <1>1, Invariant, PTL

\* The filters of the queue let every alert of a clean wallet through, for
\* any minima with QueueMin =< AlertMin (queue_whale_signal_analysis and
\* fetch_whale_radar).
THEOREM AlertsQueued == Spec => []AlertsAreQueued
<1>1. IInv => AlertsAreQueued
  BY DEF IInv, Store, Delivered, Settled, Strong, Alert, AlertsAreQueued
<1>. QED BY <1>1, Invariant, PTL

\* A synchronisation that ran alone leaves Helius and the newest row agreeing,
\* whatever earlier ones left (save_webhook_config).
THEOREM SyncRepaired == Spec => SyncRepairs
<1>1. IInv /\ [Next]_vars =>
        [\A s \in Syncs :
            ConfigSaved(s) /\ sync[s].alone
                => newest' \in DOMAIN hooks /\ hooks'[newest'] = config'[newest'] ]_vars
  <2>. SUFFICES ASSUME IInv, NEW s \in Syncs, ConfigSaved(s), sync[s].alone
                PROVE  newest' \in DOMAIN hooks /\ hooks'[newest'] = config'[newest']
    OBVIOUS
  <2>1. Active(s) /\ sync[s].pc = "save"
    BY DEF ConfigSaved, Active
  <2>2. hooks[sync[s].id] = sync[s].list /\ sync[s].id \in DOMAIN hooks
    BY <2>1 DEF IInv, Webhook, Alone, HookTypes
  <2>3. hooks' = hooks /\ newest' = sync[s].id /\ config'[sync[s].id] = sync[s].list
    BY DEF ConfigSaved, Saved
  <2>. QED BY <2>2, <2>3
<1>. QED BY <1>1, Invariant, PTL DEF Spec, SyncRepairs

-----------------------------------------------------------------------------
(***************************************************************************)
(* WhaleWallets: the scores.                                               *)
(***************************************************************************)
\* A value that may be missing.
Maybe(x) == x = {} \/ \E n \in Int : x = {n}

LEMMA OneOfTwo ==
    ASSUME NEW a \in Int, NEW b \in Int
    PROVE  /\ Max({a, b}) = IF a >= b THEN a ELSE b
           /\ Min({a, b}) = IF a =< b THEN a ELSE b
<1>1. Max({a, b}) \in {a, b} /\ Max({a, b}) >= a /\ Max({a, b}) >= b
  <2>1. \E x \in {a, b} : \A y \in {a, b} : x >= y
    OBVIOUS
  <2>. QED BY <2>1 DEF Max
<1>2. Min({a, b}) \in {a, b} /\ Min({a, b}) =< a /\ Min({a, b}) =< b
  <2>1. \E x \in {a, b} : \A y \in {a, b} : x =< y
    OBVIOUS
  <2>. QED BY <2>1 DEF Min
<1>. QED BY <1>1, <1>2

LEMMA ClampedRange == ASSUME NEW x \in Int PROVE Clamped(x) \in 0..100
<1>1. Min({100, x}) = IF 100 =< x THEN 100 ELSE x
  BY OneOfTwo
<1>2. Min({100, x}) \in Int /\ Min({100, x}) =< 100
  BY <1>1
<1>3. Max({0, Min({100, x})}) = IF 0 >= Min({100, x}) THEN 0 ELSE Min({100, x})
  <2>. DEFINE m == Min({100, x})
  <2>1. m \in Int
    BY <1>2
  <2>. HIDE DEF m
  <2>2. Max({0, m}) = IF 0 >= m THEN 0 ELSE m
    BY <2>1, OneOfTwo
  <2>. QED BY <2>2 DEF m
<1>. QED BY <1>2, <1>3 DEF Clamped

LEMMA NumberType ==
    ASSUME NEW x, Maybe(x)
    PROVE  NumberOr(x, 0) \in Int
  BY DEF Maybe, NumberOr

\* A sum of integers is an integer.
LEMMA SumType ==
    ASSUME NEW f, IsFiniteSet(DOMAIN f), \A i \in DOMAIN f : f[i] \in Int
    PROVE  Total(f) \in Int
<1>1. Total(f) = SumOf(f)
  BY DEF Total, MapThenSumSet, MapThenFoldSet, SumOf, Sums
<1>. QED BY <1>1, SumIsInt

-----------------------------------------------------------------------------
(***************************************************************************)
(* Positions: what a history of transfers amounts to.                      *)
(***************************************************************************)
Transfer == [from : Accounts, to : Accounts, amount : Nat, sol : Nat, minutes : Nat]

Position == [known : BOOLEAN, in : Nat, out : Nat, spent : Nat, received : Nat,
             txs : Nat, minutes : Nat]

LEMMA LastIndex ==
    ASSUME NEW n \in Nat, NEW s \in SUBSET (1..n), s # {}
    PROVE  Max(s) \in s
<1>. DEFINE left == {n - i : i \in s}
<1>1. left \subseteq Nat /\ left # {}
  <2>1. \A i \in s : n - i \in Nat
    OBVIOUS
  <2>. QED BY <2>1
<1>2. \E m \in left : \A k \in left : ~(<<k, m>> \in OpToRel(<, Nat))
  <2>. HIDE DEF left
  <2>. QED BY <1>1, WFMin, NatLessThanWellFounded
<1>3. PICK m \in left : \A k \in left : ~(k < m)
  BY <1>1, <1>2 DEF OpToRel
<1>4. PICK i \in s : m = n - i
  BY <1>3
<1>5. \A j \in s : i >= j
  BY <1>3, <1>4
<1>. QED BY <1>5 DEF Max

LEMMA BoughtType ==
    ASSUME NEW p \in Position, NEW x \in Transfer
    PROVE  Bought(p, x) \in Position /\ Sold(p, x) \in Position
<1>. DEFINE first == IF p.known THEN p.minutes ELSE x.minutes
<1>1. /\ p.known \in BOOLEAN /\ p.in \in Nat /\ p.out \in Nat /\ p.spent \in Nat
      /\ p.received \in Nat /\ p.txs \in Nat /\ p.minutes \in Nat
      /\ x.amount \in Nat /\ x.sol \in Nat /\ x.minutes \in Nat
  BY DEF Position, Transfer
<1>2. first \in Nat /\ p.in + x.amount \in Nat /\ p.spent + x.sol \in Nat
      /\ p.txs + 1 \in Nat /\ p.out + x.amount \in Nat /\ p.received + x.sol \in Nat
  BY <1>1
<1>3. Bought(p, x) = [p EXCEPT !.known = TRUE, !.minutes = first, !.in = p.in + x.amount,
                               !.spent = p.spent + x.sol, !.txs = p.txs + 1]
  BY DEF Bought
<1>4. Sold(p, x) = [p EXCEPT !.out = p.out + x.amount, !.received = p.received + x.sol,
                             !.txs = p.txs + 1]
  BY DEF Sold
<1>. HIDE DEF first
<1>5. Bought(p, x) \in Position
  BY <1>2, <1>3 DEF Position
<1>6. Sold(p, x) \in Position
  BY <1>2, <1>4 DEF Position
<1>. QED BY <1>5, <1>6

\* FoldLeft takes the last index first.
LastOf(n) == [s \in SUBSET (1..n) |-> Max(s)]

LEMMA LastChooses ==
    ASSUME NEW n \in Nat
    PROVE  Chooses(LastOf(n), 1..n) /\ IsFiniteSet(1..n)
<1>1. Chooses(LastOf(n), 1..n)
  <2>. SUFFICES ASSUME NEW s \in SUBSET (1..n), s # {} PROVE LastOf(n)[s] \in s
    BY DEF Chooses
  <2>1. Max(s) \in s
    BY LastIndex
  <2>. QED BY <2>1 DEF LastOf
<1>. QED BY <1>1, FS_Interval

LEMMA MoveType ==
    ASSUME NEW w, NEW p \in Position, NEW x \in Transfer
    PROVE  MoveOf(w, p, x) \in Position
<1>. DEFINE bought == IF x.to = w THEN Bought(p, x) ELSE p
            both == IF x.from = w THEN Sold(bought, x) ELSE bought
            txs == p.txs + 1
<1>1. both \in Position /\ txs \in Nat
  <2>1. bought \in Position
    BY BoughtType
  <2>. HIDE DEF bought
  <2>. QED BY <2>1, BoughtType DEF Position
<1>2. MoveOf(w, p, x) = IF w \in {x.to, x.from}
                        THEN [both EXCEPT !.known = TRUE, !.txs = txs] ELSE p
  BY DEF MoveOf
<1>. HIDE DEF both, txs
<1>3. [both EXCEPT !.known = TRUE, !.txs = txs] \in Position
  BY <1>1 DEF Position
<1>. QED BY <1>2, <1>3

LEMMA PositionType ==
    ASSUME NEW w, NEW h \in Seq(Transfer)
    PROVE  build_position(w, h) \in Position
<1>. DEFINE n == Len(h)
            c == LastOf(n)
            add(p, x) == MoveOf(w, p, x)
            G == [q \in (1..n) \X Position |-> add(q[2], h[q[1]])]
            Is(it) == it = [s \in SUBSET DOMAIN h |->
                              IF s = {} THEN NoPosition
                              ELSE add(it[s \ {Max(s)}], h[Max(s)])]
            it == CHOOSE it : Is(it)
<1>0. n \in Nat /\ DOMAIN h = 1..n /\ \A i \in 1..n : h[i] \in Transfer
  OBVIOUS
<1>1. build_position(w, h) = it[DOMAIN h]
  BY DEF build_position, FoldLeft, MapThenFoldSet
<1>2. Chooses(c, 1..n) /\ IsFiniteSet(1..n)
  BY <1>0, LastChooses
<1>3. \A p \in Position, x \in Transfer : add(p, x) \in Position
  BY MoveType
<1>. HIDE DEF add
<1>4. \A i \in 1..n, p \in Position : G[<<i, p>>] = add(p, h[i]) /\ G[<<i, p>>] \in Position
  BY <1>0, <1>3
<1>5. Keeps(G, 1..n, Position) /\ NoPosition \in Position
  BY <1>4 DEF Keeps, NoPosition, Position
<1>. HIDE DEF G, n, c
<1>6. PICK g : Folds(g, 1..n, Position, NoPosition, c, G)
  BY <1>2, <1>5, TypedFold
<1>7. \A s \in SUBSET (1..n) : c[s] = Max(s)
  BY DEF c, LastOf
<1>8. Is(g)
  <2>1. ASSUME NEW s \in SUBSET DOMAIN h, s # {}
        PROVE  g[s] = add(g[s \ {Max(s)}], h[Max(s)])
    <3>1. /\ c[s] \in 1..n /\ g[s \ {c[s]}] \in Position
          /\ g[s] = G[<<c[s], g[s \ {c[s]}]>>]
      BY <1>0, <1>6, <2>1 DEF Folds
    <3>2. g[s] = add(g[s \ {c[s]}], h[c[s]])
      BY <1>4, <3>1
    <3>. QED BY <1>0, <1>7, <3>2
  <2>2. g[{}] = NoPosition /\ g = [s \in SUBSET DOMAIN h |-> g[s]]
    BY <1>0, <1>6 DEF Folds
  <2>. QED BY <2>1, <2>2
<1>9. Is(it)
  BY <1>8
<1>. HIDE DEF it
<1>10. it[{}] = NoPosition /\ \A s \in SUBSET DOMAIN h : s # {} =>
         it[s] = add(it[s \ {Max(s)}], h[Max(s)])
  BY <1>9
<1>11. Stays(it, c, 1..n, Position)
  <2>. SUFFICES ASSUME NEW s \in SUBSET (1..n), s # {}
                PROVE  c[s] \in s /\ (it[s \ {c[s]}] \in Position => it[s] \in Position)
    BY DEF Stays
  <2>1. c[s] \in s /\ c[s] = Max(s) /\ h[c[s]] \in Transfer
    BY <1>0, <1>2, <1>7 DEF Chooses
  <2>2. it[s] = add(it[s \ {c[s]}], h[c[s]])
    BY <1>0, <1>10, <2>1
  <2>. QED BY <1>3, <2>1, <2>2
<1>12. it[1..n] \in Position
  BY <1>2, <1>5, <1>10, <1>11, FoldRange
<1>. QED BY <1>0, <1>1, <1>12

\* One turn of the loop over the pair's transactions.
LEMMA AddTransferType ==
    ASSUME NEW ps \in [Accounts -> Position], NEW x \in Transfer
    PROVE  AddTransfer(ps, x) \in [Accounts -> Position]
<1>. DEFINE bought == IF ps[x.to].known \/ Cardinality(KnownIn(ps)) < BuyerLimit
                      THEN [ps EXCEPT ![x.to] = Bought(ps[x.to], x)] ELSE ps
<1>1. x.to \in Accounts /\ x.from \in Accounts
  BY DEF Transfer
<1>2. bought \in [Accounts -> Position]
  <2>1. Bought(ps[x.to], x) \in Position
    BY <1>1, BoughtType
  <2>. QED BY <1>1, <2>1
<1>3. AddTransfer(ps, x) = IF bought[x.from].known
                           THEN [bought EXCEPT ![x.from] = Sold(bought[x.from], x)] ELSE bought
  BY DEF AddTransfer
<1>. HIDE DEF bought
<1>4. Sold(bought[x.from], x) \in Position
  BY <1>1, <1>2, BoughtType
<1>. QED BY <1>1, <1>2, <1>3, <1>4

LEMMA BuyersType ==
    ASSUME NEW h \in Seq(Transfer)
    PROVE  extract_early_buyer_positions(h) \in [Accounts -> Position]
<1>. DEFINE n == Len(h)
            c == LastOf(n)
            V == [Accounts -> Position]
            G == [q \in (1..n) \X V |-> AddTransfer(q[2], h[q[1]])]
            Is(it) == it = [s \in SUBSET DOMAIN h |->
                              IF s = {} THEN NoPositions
                              ELSE AddTransfer(it[s \ {Max(s)}], h[Max(s)])]
            it == CHOOSE it : Is(it)
<1>0. n \in Nat /\ DOMAIN h = 1..n /\ \A i \in 1..n : h[i] \in Transfer
  OBVIOUS
<1>1. extract_early_buyer_positions(h) = it[DOMAIN h]
  BY DEF extract_early_buyer_positions, FoldLeft, MapThenFoldSet
<1>2. Chooses(c, 1..n) /\ IsFiniteSet(1..n)
  BY <1>0, LastChooses
<1>3. \A p \in V, x \in Transfer : AddTransfer(p, x) \in V
  BY AddTransferType
<1>5. NoPositions \in V
  BY DEF NoPosition, NoPositions, Position
<1>. HIDE DEF V
<1>4. \A i \in 1..n, p \in V : G[<<i, p>>] = AddTransfer(p, h[i]) /\ G[<<i, p>>] \in V
  BY <1>0, <1>3
<1>. HIDE DEF G, n, c
<1>13. Keeps(G, 1..n, V)
  BY <1>4 DEF Keeps
<1>6. PICK g : Folds(g, 1..n, V, NoPositions, c, G)
  BY <1>2, <1>5, <1>13, TypedFold
<1>7. \A s \in SUBSET (1..n) : c[s] = Max(s)
  BY DEF c, LastOf
<1>8. Is(g)
  <2>1. ASSUME NEW s \in SUBSET DOMAIN h, s # {}
        PROVE  g[s] = AddTransfer(g[s \ {Max(s)}], h[Max(s)])
    <3>1. /\ c[s] \in 1..n /\ g[s \ {c[s]}] \in V
          /\ g[s] = G[<<c[s], g[s \ {c[s]}]>>]
      BY <1>0, <1>6, <2>1 DEF Folds
    <3>2. g[s] = AddTransfer(g[s \ {c[s]}], h[c[s]])
      BY <1>4, <3>1
    <3>. QED BY <1>0, <1>7, <3>2
  <2>2. g[{}] = NoPositions /\ g = [s \in SUBSET DOMAIN h |-> g[s]]
    BY <1>0, <1>6 DEF Folds
  <2>. QED BY <2>1, <2>2
<1>9. Is(it)
  BY <1>8
<1>. HIDE DEF it
<1>10. it[{}] = NoPositions /\ \A s \in SUBSET DOMAIN h : s # {} =>
         it[s] = AddTransfer(it[s \ {Max(s)}], h[Max(s)])
  BY <1>9
<1>11. Stays(it, c, 1..n, V)
  <2>. SUFFICES ASSUME NEW s \in SUBSET (1..n), s # {}
                PROVE  c[s] \in s /\ (it[s \ {c[s]}] \in V => it[s] \in V)
    BY DEF Stays
  <2>1. c[s] \in s /\ c[s] = Max(s) /\ h[c[s]] \in Transfer
    BY <1>0, <1>2, <1>7 DEF Chooses
  <2>2. it[s] = AddTransfer(it[s \ {c[s]}], h[c[s]])
    BY <1>0, <1>10, <2>1
  <2>. QED BY <1>3, <2>1, <2>2
<1>12. it[1..n] \in V
  BY <1>2, <1>5, <1>10, <1>11, FoldRange
<1>. QED BY <1>0, <1>1, <1>12 DEF V

-----------------------------------------------------------------------------
(***************************************************************************)
(* Trades, scores and rows.                                                *)
(***************************************************************************)
TradeOK(t) == t.amount \in Nat /\ Maybe(t.pnl) /\ Maybe(t.roi)
Trades(f) == IsFiniteSet(DOMAIN f) /\ \A i \in DOMAIN f : TradeOK(f[i])

LEMMA FiniteMaybe == ASSUME NEW x, Maybe(x) PROVE AtMostOne(x)
<1>1. CASE x = {}
  BY <1>1, FS_EmptySet DEF AtMostOne
<1>2. CASE \E n \in Int : x = {n}
  <2>1. PICK n \in Int : x = {n}
    BY <1>2
  <2>2. Cardinality(x) = 1
    BY <2>1, FS_Singleton
  <2>. QED BY <2>1, <2>2 DEF AtMostOne
<1>. QED BY <1>1, <1>2 DEF Maybe

LEMMA Share ==
    ASSUME NEW a \in Nat, NEW b \in Nat, a =< b, b # 0
    PROVE  (100 * a) \div b \in 0..100
<1>1. (100 * a) \div b \in Int
  OBVIOUS
<1>2. 100 * a =< 100 * b /\ 0 =< 100 * a
  OBVIOUS
<1>3. (100 * a) \div b >= 0
  BY <1>2
<1>4. (100 * a) \div b =< 100
  BY <1>2
<1>. QED BY <1>1, <1>3, <1>4

LEMMA PercentType ==
    ASSUME NEW part \in Int, NEW whole \in Nat \ {0}
    PROVE  /\ Percent(part, whole) \in Int
           /\ 10 * part > -9 * whole => Percent(part, whole) > -90
<1>. DEFINE q == (-100 * part) \div whole
<1>1. q \in Int /\ whole * q =< -100 * part
  OBVIOUS
<1>2. ASSUME 10 * part > -9 * whole PROVE q < 90
  <2>1. whole * q < whole * 90
    BY <1>1, <1>2
  <2>. HIDE DEF q
  <2>. QED BY <1>1, <2>1
<1>. HIDE DEF q
<1>3. Percent(part, whole) = -q
  BY DEF Percent, q
<1>. QED BY <1>1, <1>2, <1>3

LEMMA PartOfSpent ==
    ASSUME NEW a \in Nat \ {0}, NEW m \in Nat, m =< a, NEW b \in Nat
    PROVE  (m * b) \div a \in Int /\ (m * b) \div a =< b
<1>. DEFINE q == (m * b) \div a
<1>0. m * b \in Nat /\ m * b =< a * b
  OBVIOUS
<1>1. q \in Int /\ a * q =< m * b
  <2>. DEFINE mb == m * b
  <2>1. mb \in Nat  BY <1>0
  <2>. HIDE DEF mb
  <2>2. mb \div a \in Int /\ a * (mb \div a) =< mb
    BY <2>1
  <2>. QED BY <2>2 DEF mb
<1>2. a * q =< a * b
  <2>. HIDE DEF q
  <2>. QED BY <1>0, <1>1
<1>. HIDE DEF q
<1>3. q =< b
  BY <1>1, <1>2
<1>. QED BY <1>1, <1>3 DEF q

LEMMA WinRate ==
    ASSUME NEW f, Trades(f), Cardinality(DOMAIN f) # 0
    PROVE  win_rate_score(f) \in 0..100
<1>1. Wins(f) \in SUBSET DOMAIN f
  BY DEF Wins
<1>2. /\ Cardinality(Wins(f)) \in Nat /\ Cardinality(DOMAIN f) \in Nat
      /\ Cardinality(Wins(f)) =< Cardinality(DOMAIN f)
  BY <1>1, FS_Subset, FS_CardinalityType DEF Trades
<1>. QED BY <1>2, Share DEF win_rate_score

\* Values that may be missing have a mean that may be missing.
LEMMA MeanType ==
    ASSUME NEW f, IsFiniteSet(DOMAIN f), \A i \in DOMAIN f : Maybe(f[i])
    PROVE  Maybe(MeanOf(f))
<1>. DEFINE known == {i \in DOMAIN f : f[i] # {}}
            values == [i \in known |-> NumberOr(f[i], 0)]
<1>1. IsFiniteSet(known) /\ Cardinality(known) \in Nat
  BY FS_Subset, FS_CardinalityType
<1>2. CASE known = {}
  BY <1>2 DEF MeanOf, Maybe
<1>3. CASE known # {}
  <2>1. \A i \in known : values[i] \in Int
    BY NumberType
  <2>2. DOMAIN values = known
    OBVIOUS
  <2>3. Total(values) \in Int
    <3>. HIDE DEF known, values
    <3>. QED BY <1>1, <2>1, <2>2, SumType
  <2>4. Cardinality(known) # 0
    BY <1>1, <1>3, FS_EmptySet
  <2>5. MeanOf(f) = {Total(values) \div Cardinality(known)}
    BY <1>3 DEF MeanOf
  <2>. HIDE DEF known, values
  <2>6. Total(values) \div Cardinality(known) \in Int
    BY <1>1, <2>3, <2>4
  <2>. QED BY <2>5, <2>6 DEF Maybe
<1>. QED BY <1>2, <1>3

LEMMA ProfitType ==
    ASSUME NEW f, Trades(f)
    PROVE  TotalProfit(f) \in Int
<1>. DEFINE values == [i \in DOMAIN f |-> NumberOr(f[i].pnl, 0)]
<1>1. IsFiniteSet(DOMAIN values) /\ \A i \in DOMAIN values : values[i] \in Int
  BY NumberType DEF Trades, TradeOK
<1>2. TotalProfit(f) = Total(values)
  BY DEF TotalProfit
<1>. HIDE DEF values
<1>. QED BY <1>1, <1>2, SumType

LEMMA ScoreRange ==
    ASSUME NEW f, Trades(f)
    PROVE  whale_score(f) \in 0..10000
<1>. DEFINE n == Cardinality(DOMAIN f)
<1>0. n \in Nat
  BY FS_CardinalityType DEF Trades
<1>1. CASE n < MinTrades \/ is_bot_like_wallet(f)
  BY <1>1 DEF whale_score
<1>2. CASE ~(n < MinTrades \/ is_bot_like_wallet(f))
  <2>1. win_rate_score(f) \in 0..100
    BY <1>0, <1>2, MinTradesAssumption, WinRate
  <2>2. roi_score(f) \in 0..100
    <3>. DEFINE values == [i \in DOMAIN f |-> f[i].roi]
    <3>1. IsFiniteSet(DOMAIN values) /\ \A i \in DOMAIN values : Maybe(values[i])
      BY DEF Trades, TradeOK
    <3>2. roi_score(f) = Clamped(NumberOr(MeanOf(values), 0) \div 5)
      BY DEF roi_score
    <3>. HIDE DEF values
    <3>3. NumberOr(MeanOf(values), 0) \in Int
      BY <3>1, MeanType, NumberType
    <3>4. NumberOr(MeanOf(values), 0) \div 5 \in Int
      BY <3>3
    <3>. QED BY <3>2, <3>4, ClampedRange
  <2>3. early_entry_score(f) \in {0, 50, 100}
    BY DEF early_entry_score
  <2>4. consistency_score(f) \in 0..100
    <3>1. TotalProfit(f) \div 10 \in Int
      BY ProfitType
    <3>. QED BY <3>1, ClampedRange DEF consistency_score
  <2>5. whale_score(f) = 35 * win_rate_score(f) + 25 * roi_score(f)
                         + 20 * early_entry_score(f) + 20 * consistency_score(f)
    BY <1>2 DEF whale_score
  <2>7. early_entry_score(f) \in 0..100
    BY <2>3
  <2>. DEFINE a == win_rate_score(f)
              b == roi_score(f)
              c == early_entry_score(f)
              d == consistency_score(f)
  <2>8. /\ a \in 0..100 /\ b \in 0..100 /\ c \in 0..100 /\ d \in 0..100
        /\ whale_score(f) = 35 * a + 25 * b + 20 * c + 20 * d
    BY <2>1, <2>2, <2>4, <2>5, <2>7
  <2>. HIDE DEF a, b, c, d
  <2>. QED BY <2>8
<1>. QED BY <1>1, <1>2

\* The row that upsert_elite_wallet writes.
EliteOK(row) ==
    /\ row.label \in Labels /\ row.source \in Sources
    /\ row.bot = (row.label = "BOT_EXCLUDED")
    /\ row.count \in Nat /\ row.score \in 0..10000

LEMMA EliteRowType ==
    ASSUME NEW f, Trades(f), NEW source \in Sources
    PROVE  EliteOK(EliteRow(f, source))
<1>. DEFINE valid == valid_whale_trades(f)
            summary == summarize_whale_trades(f)
<1>1. Trades(valid)
  <2>1. valid = [i \in {i \in DOMAIN f : f[i].amount >= 1} |-> f[i]]
    BY DEF valid_whale_trades, RestrictDomain, Restrict
  <2>2. DOMAIN valid \in SUBSET DOMAIN f /\ \A i \in DOMAIN valid : valid[i] = f[i]
    BY <2>1
  <2>. HIDE DEF valid
  <2>. QED BY <2>2, FS_Subset DEF Trades
<1>. HIDE DEF valid
<1>2. Cardinality(DOMAIN valid) \in Nat
  BY <1>1, FS_CardinalityType DEF Trades
<1>3. whale_score(valid) \in 0..10000
  BY <1>1, ScoreRange
<1>4. is_bot_like_wallet(valid) \in BOOLEAN
  BY DEF is_bot_like_wallet
<1>5. /\ summary.count = Cardinality(DOMAIN valid) /\ summary.score = whale_score(valid)
      /\ summary.bot = is_bot_like_wallet(valid)
  BY DEF summarize_whale_trades, valid
<1>. HIDE DEF summary
<1>6. /\ classify_elite_wallet(summary) \in Labels
      /\ summary.bot = (classify_elite_wallet(summary) = "BOT_EXCLUDED")
  BY <1>4, <1>5 DEF classify_elite_wallet, Labels
<1>7. /\ EliteRow(f, source).label = classify_elite_wallet(summary)
      /\ EliteRow(f, source).bot = summary.bot
      /\ EliteRow(f, source).count = summary.count
      /\ EliteRow(f, source).score = summary.score
      /\ EliteRow(f, source).source = source
  BY DEF EliteRow, summary
<1>. QED BY <1>2, <1>3, <1>5, <1>6, <1>7 DEF EliteOK

-----------------------------------------------------------------------------
(***************************************************************************)
(* What the chain holds, and the trades made of it.                        *)
(***************************************************************************)
LEMMA ChainTypes ==
    ASSUME NEW k \in Tokens, NEW w \in Accounts
    PROVE  Positions[w][k] \in Position /\ EarlyBuyers[k][w] \in Position
<1>1. History[k] \in Seq(Transfer)
  BY HistoryAssumption DEF Transfer
<1>2. Positions[w][k] = build_position(w, History[k])
  BY DEF Positions
<1>3. EarlyBuyers[k] = extract_early_buyer_positions(fetch_pair_transactions(k))
  BY DEF EarlyBuyers
<1>4. fetch_pair_transactions(k) \in Seq(Transfer)
  <2>. DEFINE n == Len(History[k])
              from == n - SignatureLimit + 1
  <2>1. n \in Nat /\ from \in Int /\ 1 \in Int
    BY <1>1, LimitsAssumption
  <2>. HIDE DEF from, n
  <2>2. Max({1, from}) = IF 1 >= from THEN 1 ELSE from
    BY <2>1, OneOfTwo
  <2>3. Max({1, from}) \in Int /\ Max({1, from}) >= 1
    BY <2>1, <2>2
  <2>4. fetch_pair_transactions(k) = SubSeq(History[k], Max({1, from}), n)
    BY DEF fetch_pair_transactions, from, n
  <2>. DEFINE m == Max({1, from})
  <2>5. m \in Int /\ m >= 1
    BY <2>3
  <2>. HIDE DEF m
  <2>6. SubSeq(History[k], m, n) \in Seq(Transfer)
    BY <1>1, <2>1, <2>5, SubSeqProperties DEF n
  <2>. QED BY <2>4, <2>6 DEF m
<1>. QED BY <1>1, <1>2, <1>3, <1>4, PositionType, BuyersType

\* A position of which more than 55% came back.
Returned(p) == p.spent > 0 /\ 20 * p.received > 11 * p.spent

\* A profit that may be missing is at least what came back less what was spent,
\* for what is held has no negative price; a rate that may be missing is above
\* the one of a rug where enough came back.
Fits(x, p) == Maybe(x) /\ \A n \in x : n >= p.received - p.spent
Rated(x, p) == Maybe(x) /\ (Returned(p) => \A n \in x : n > -90)

LEMMA PositionFields ==
    ASSUME NEW p \in Position
    PROVE  /\ p.in \in Nat /\ p.out \in Nat /\ p.spent \in Nat /\ p.received \in Nat
           /\ p.txs \in Nat /\ p.minutes \in Nat
           /\ Holding(p) = (IF p.in >= p.out THEN p.in - p.out ELSE 0)
           /\ Holding(p) \in Nat
<1>1. /\ p.in \in Nat /\ p.out \in Nat /\ p.spent \in Nat /\ p.received \in Nat
      /\ p.txs \in Nat /\ p.minutes \in Nat
  BY DEF Position
<1>2. p.in - p.out \in Int
  BY <1>1
<1>3. Holding(p) = IF 0 >= p.in - p.out THEN 0 ELSE p.in - p.out
  BY <1>2, OneOfTwo DEF Holding
<1>. QED BY <1>1, <1>3

LEMMA PnlType ==
    ASSUME NEW p \in Position, NEW price \in Nat
    PROVE  /\ Pnl(p, price) \in Int /\ Fits({Pnl(p, price)}, p)
           /\ p.spent > 0 => Rated({Roi(p, price)}, p)
<1>1. /\ p.spent \in Nat /\ p.received \in Nat /\ Holding(p) \in Nat
  BY PositionFields
<1>2. Holding(p) * price \in Nat
  BY <1>1
<1>3. Pnl(p, price) \in Int /\ Pnl(p, price) >= p.received - p.spent
  BY <1>1, <1>2 DEF Pnl
<1>4. Fits({Pnl(p, price)}, p)
  BY <1>3 DEF Fits, Maybe
<1>5. ASSUME p.spent > 0 PROVE Rated({Roi(p, price)}, p)
  <2>1. p.spent \in Nat \ {0}
    BY <1>1, <1>5
  <2>2. /\ Roi(p, price) \in Int
        /\ 10 * Pnl(p, price) > -9 * p.spent => Roi(p, price) > -90
    BY <1>3, <2>1, PercentType DEF Roi
  <2>3. Returned(p) => 10 * Pnl(p, price) > -9 * p.spent
    BY <1>1, <1>3 DEF Returned
  <2>. QED BY <2>2, <2>3 DEF Rated, Maybe
<1>. QED BY <1>3, <1>4, <1>5

LEMMA RealizedType ==
    ASSUME NEW p \in Position
    PROVE  Fits(RealizedPnl(p), p) /\ Rated(RealizedRoi(p), p)
<1>0. p.in \in Nat /\ p.out \in Nat /\ p.spent \in Nat /\ p.received \in Nat
  BY PositionFields
<1>. DEFINE Sells == p.out > 0 /\ p.in > 0 /\ p.received > 0
<1>1. CASE ~Sells
  BY <1>1 DEF RealizedPnl, RealizedRoi, Fits, Rated, Maybe
<1>2. CASE Sells
  <2>. DEFINE moved == Min({p.out, p.in})
              cost == RealizedCost(p)
  <2>0. p.out \in Int /\ p.in \in Int
    BY <1>0
  <2>11. Min({p.out, p.in}) = IF p.out =< p.in THEN p.out ELSE p.in
    BY <2>0, OneOfTwo
  <2>1. moved \in Nat /\ moved =< p.in
    <3>1. moved = IF p.out =< p.in THEN p.out ELSE p.in
      BY <2>11
    <3>. HIDE DEF moved
    <3>. QED BY <1>0, <3>1
  <2>2. cost = (moved * p.spent) \div p.in
    BY DEF RealizedCost
  <2>. HIDE DEF moved, cost
  <2>3. p.in \in Nat \ {0}
    BY <1>0, <1>2
  <2>4. cost \in Int /\ cost =< p.spent
    BY <1>0, <2>1, <2>2, <2>3, PartOfSpent
  <2>6. RealizedPnl(p) = {p.received - cost}
    BY <1>2 DEF RealizedPnl, cost
  <2>7. Fits(RealizedPnl(p), p)
    BY <1>0, <2>4, <2>6 DEF Fits, Maybe
  <2>8. NumberOr(RealizedPnl(p), 0) = p.received - cost
    BY <2>6 DEF NumberOr
  <2>9. CASE cost > 0
    <3>1. RealizedRoi(p) = {Percent(p.received - cost, cost)}
      BY <2>6, <2>8, <2>9 DEF RealizedRoi, cost
    <3>2. cost \in Nat \ {0} /\ p.received - cost \in Int
      BY <1>0, <2>4, <2>9
    <3>3. /\ Percent(p.received - cost, cost) \in Int
          /\ 10 * (p.received - cost) > -9 * cost
               => Percent(p.received - cost, cost) > -90
      BY <3>2, PercentType
    <3>4. Returned(p) => 10 * (p.received - cost) > -9 * cost
      BY <1>0, <2>4, <2>9 DEF Returned
    <3>. QED BY <2>7, <3>1, <3>3, <3>4 DEF Rated, Maybe
  <2>10. CASE ~(cost > 0)
    BY <2>7, <2>10 DEF RealizedRoi, cost, Rated, Maybe
  <2>. QED BY <2>9, <2>10
<1>. QED BY <1>1, <1>2

-----------------------------------------------------------------------------
(***************************************************************************)
(* The inductive invariant of the tables and of what the services have     *)
(* read.                                                                   *)
(***************************************************************************)
\* The position a row of whale_performance_tracking was made from, and what
\* the row keeps of it.
Origin(key) == IF key[3] = "reverse_profit_discovery"
               THEN EarlyBuyers[key[2]][key[1]] ELSE Positions[key[1]][key[2]]
TrackedOK(row, p) ==
    /\ row = [spent |-> p.spent, received |-> p.received, pnl |-> row.pnl,
              roi |-> row.roi, minutes |-> row.minutes, net |-> row.net,
              fresh |-> row.fresh]
    /\ Fits(row.pnl, p) /\ Rated(row.roi, p) /\ Fits(row.fresh, p)
    /\ row.net = {} \/ row.net = {p.in - p.out}

EliteRows(table) ==
    DOMAIN table \subseteq Accounts /\ \A w \in DOMAIN table : EliteOK(table[w])
PerfRows(table, wallets) ==
    /\ DOMAIN table \subseteq Keys
    /\ \A key \in DOMAIN table :
          TrackedOK(table[key], Origin(key)) /\ key[1] \in wallets

\* The rows behind a token that was analysed.
ReverseKeys(keys, k) == {key \in keys : key[2] = k /\ key[3] = "reverse_profit_discovery"}
TargetRowOK(row, k, keys) ==
    row.status = "ANALYZED" =>
        /\ row.promoted \in Nat
        /\ row.promoted =< row.profitable /\ row.profitable =< row.checked
        /\ row.promoted =< Cardinality(ReverseKeys(keys, k))
TargetRows(table, keys) ==
    /\ DOMAIN table \subseteq Tokens
    /\ \A k \in DOMAIN table : TargetRowOK(table[k], k, keys)

\* What a process has read stays true while others write.
ProcOK(r, wallets) ==
    /\ r = [job |-> r.job, todo |-> r.todo, read |-> r.read]
    /\ r.job \in {"idle", "discovery", "reverse", "audit", "refresh", "survival"}
    /\ r.job \in {"idle", "discovery", "survival"} => r.todo = {}
    /\ r.job = "audit" => r.todo \subseteq Accounts
    /\ r.job \in {"reverse", "refresh"} => r.todo \subseteq Tokens
    /\ r.job = "reverse" => \A k \in r.todo : r.read[k] \in Nat
    /\ r.job = "survival" => DOMAIN r.read \subseteq wallets
ProcsOK(f, wallets) ==
    f = [p \in Procs |-> f[p]] /\ \A p \in Procs : ProcOK(f[p], wallets)

WalletsIInv ==
    /\ intel \in [Accounts -> [Tokens -> 0..MaxRows]]
    /\ EliteRows(elite)
    /\ PerfRows(perf, DOMAIN elite)
    /\ TargetRows(target, DOMAIN perf)
    /\ DOMAIN survival \subseteq DOMAIN elite
    /\ ProcsOK(proc, DOMAIN elite)
    /\ starts \in 0..MaxStarts

LEMMA UpsertRows ==
    ASSUME NEW f, NEW g
    PROVE  DOMAIN Upsert(f, g) = DOMAIN f \cup DOMAIN g
  BY DEF Upsert

LEMMA UpsertedRow ==
    ASSUME NEW f, NEW g, NEW x
    PROVE  /\ x \in DOMAIN f => Upsert(f, g)[x] = f[x]
           /\ x \in DOMAIN g /\ x \notin DOMAIN f => Upsert(f, g)[x] = g[x]
  BY DEF Upsert

LEMMA KeysFinite == IsFiniteSet(Keys)
<1>. DEFINE Pairs == (Accounts \X Tokens) \X Sources
            f == [q \in Pairs |-> <<q[1][1], q[1][2], q[2]>>]
<1>1. IsFiniteSet(Sources)
  <2>1. Sources = ({} \cup {"wallet_intelligence"}) \cup {"reverse_profit_discovery"}
                  \cup {"wallet_consistency_audit"}
    BY DEF Sources
  <2>. QED BY <2>1, FS_EmptySet, FS_AddElement
<1>2. IsFiniteSet(Pairs)
  BY <1>1, AccountsAssumption, FS_Product
<1>3. f \in Surjection(Pairs, Keys)
  <2>1. f \in [Pairs -> Keys]
    BY DEF Keys
  <2>2. ASSUME NEW key \in Keys PROVE \E q \in Pairs : f[q] = key
    <3>1. PICK a \in Accounts, k \in Tokens, c \in Sources : key = <<a, k, c>>
      BY DEF Keys
    <3>2. <<<<a, k>>, c>> \in Pairs /\ f[<<<<a, k>>, c>>] = key
      BY <3>1
    <3>. QED BY <3>2
  <2>. QED BY <2>1, <2>2 DEF Surjection
<1>. QED BY <1>2, <1>3, FS_Surjection

LEMMA UpsertElites ==
    ASSUME NEW f, NEW g, EliteRows(f), EliteRows(g)
    PROVE  EliteRows(Upsert(f, g)) /\ DOMAIN g \subseteq DOMAIN Upsert(f, g)
<1>1. DOMAIN Upsert(f, g) = DOMAIN f \cup DOMAIN g
  BY UpsertRows
<1>2. ASSUME NEW w \in DOMAIN Upsert(f, g) PROVE EliteOK(Upsert(f, g)[w])
  <2>1. CASE w \in DOMAIN f
    BY <2>1, UpsertedRow DEF EliteRows
  <2>2. CASE w \in DOMAIN g /\ w \notin DOMAIN f
    BY <2>2, UpsertedRow DEF EliteRows
  <2>. QED BY <1>1, <2>1, <2>2
<1>3. DOMAIN Upsert(f, g) \subseteq Accounts
  BY <1>1 DEF EliteRows
<1>. QED BY <1>1, <1>2, <1>3 DEF EliteRows

LEMMA UpsertPerf ==
    ASSUME NEW f, NEW g, NEW W, NEW V, W \subseteq V, PerfRows(f, V), PerfRows(g, W)
    PROVE  PerfRows(Upsert(f, g), V) /\ DOMAIN g \subseteq DOMAIN Upsert(f, g)
<1>1. DOMAIN Upsert(f, g) = DOMAIN f \cup DOMAIN g
  BY UpsertRows
<1>2. ASSUME NEW key \in DOMAIN Upsert(f, g)
      PROVE  TrackedOK(Upsert(f, g)[key], Origin(key)) /\ key[1] \in V
  <2>1. CASE key \in DOMAIN f
    BY <2>1, UpsertedRow DEF PerfRows
  <2>2. CASE key \in DOMAIN g /\ key \notin DOMAIN f
    BY <2>2, UpsertedRow DEF PerfRows
  <2>. QED BY <1>1, <2>1, <2>2
<1>. QED BY <1>1, <1>2 DEF PerfRows

\* Rows are never deleted.
LEMMA MoreRows ==
    ASSUME NEW A, NEW B \in SUBSET Keys, A \subseteq B, NEW k
    PROVE  /\ Cardinality(ReverseKeys(A, k)) \in Nat
           /\ Cardinality(ReverseKeys(B, k)) \in Nat
           /\ Cardinality(ReverseKeys(A, k)) =< Cardinality(ReverseKeys(B, k))
<1>1. ReverseKeys(B, k) \in SUBSET Keys /\ ReverseKeys(A, k) \in SUBSET ReverseKeys(B, k)
  BY DEF ReverseKeys
<1>2. IsFiniteSet(ReverseKeys(B, k))
  BY <1>1, KeysFinite, FS_Subset
<1>. QED BY <1>1, <1>2, FS_Subset, FS_CardinalityType

LEMMA TargetsKept ==
    ASSUME NEW t, NEW A, NEW B \in SUBSET Keys, A \subseteq B, TargetRows(t, A)
    PROVE  TargetRows(t, B)
<1>1. ASSUME NEW k \in DOMAIN t, t[k].status = "ANALYZED"
      PROVE  /\ t[k].promoted \in Nat
             /\ t[k].promoted =< t[k].profitable /\ t[k].profitable =< t[k].checked
             /\ t[k].promoted =< Cardinality(ReverseKeys(B, k))
  <2>1. /\ t[k].promoted \in Nat
        /\ t[k].promoted =< t[k].profitable /\ t[k].profitable =< t[k].checked
        /\ t[k].promoted =< Cardinality(ReverseKeys(A, k))
    BY <1>1 DEF TargetRows, TargetRowOK
  <2>2. /\ Cardinality(ReverseKeys(A, k)) \in Nat
        /\ Cardinality(ReverseKeys(B, k)) \in Nat
        /\ Cardinality(ReverseKeys(A, k)) =< Cardinality(ReverseKeys(B, k))
    BY MoreRows
  <2>. QED BY <2>1, <2>2
<1>. QED BY <1>1 DEF TargetRows, TargetRowOK

LEMMA UpsertTargets ==
    ASSUME NEW f, NEW g, NEW B, TargetRows(f, B), TargetRows(g, B)
    PROVE  TargetRows(Upsert(f, g), B)
<1>1. DOMAIN Upsert(f, g) = DOMAIN f \cup DOMAIN g
  BY UpsertRows
<1>2. ASSUME NEW k \in DOMAIN Upsert(f, g) PROVE TargetRowOK(Upsert(f, g)[k], k, B)
  <2>1. CASE k \in DOMAIN f
    BY <2>1, UpsertedRow DEF TargetRows
  <2>2. CASE k \in DOMAIN g /\ k \notin DOMAIN f
    BY <2>2, UpsertedRow DEF TargetRows
  <2>. QED BY <1>1, <2>1, <2>2
<1>3. DOMAIN Upsert(f, g) \subseteq Tokens
  BY <1>1 DEF TargetRows
<1>. QED BY <1>2, <1>3 DEF TargetRows

LEMMA ProcessSet ==
    ASSUME NEW f, NEW W, NEW V, W \subseteq V, ProcsOK(f, W),
           NEW p, NEW r, ProcOK(r, V)
    PROVE  ProcsOK([f EXCEPT ![p] = r], V)
<1>1. \A q \in Procs : ProcOK(f[q], V)
  BY DEF ProcsOK, ProcOK
<1>2. DOMAIN f = Procs
  BY DEF ProcsOK
<1>. DEFINE g == [f EXCEPT ![p] = r]
<1>3. g = [q \in Procs |-> g[q]]
  BY <1>2
<1>4. \A q \in Procs : g[q] = r \/ g[q] = f[q]
  BY <1>2
<1>. HIDE DEF g
<1>5. \A q \in Procs : ProcOK(g[q], V)
  BY <1>1, <1>4
<1>6. ProcsOK(g, V)
  BY <1>3, <1>5 DEF ProcsOK
<1>. QED BY <1>6 DEF g

LEMMA IdleOK == ASSUME NEW W PROVE ProcOK(Idle, W)
  BY DEF ProcOK, Idle

-----------------------------------------------------------------------------
(***************************************************************************)
(* What the services write.                                                *)
(***************************************************************************)
LEMMA OriginType ==
    ASSUME NEW key \in Keys
    PROVE  Origin(key) \in Position
<1>1. key[1] \in Accounts /\ key[2] \in Tokens
  BY DEF Keys
<1>. QED BY <1>1, ChainTypes DEF Origin

LEMMA PerfRowOK ==
    ASSUME NEW key, NEW p, NEW trade, NEW net, NEW W, PerfRows(perf, W), Origin(key) = p,
           trade.amount = p.spent, Fits(trade.pnl, p), Rated(trade.roi, p),
           net = {} \/ net = {p.in - p.out}
    PROVE  TrackedOK(PerfRow(key, trade, p.received, net), p)
<1>. DEFINE row == PerfRow(key, trade, p.received, net)
            fresh == IF key \in DOMAIN perf THEN perf[key].fresh ELSE {}
<1>1. Fits(fresh, p)
  <2>1. CASE key \in DOMAIN perf
    BY <2>1 DEF PerfRows, TrackedOK
  <2>2. CASE key \notin DOMAIN perf
    BY <2>2 DEF Fits, Maybe
  <2>. QED BY <2>1, <2>2
<1>. HIDE DEF fresh
<1>2. row = [spent |-> p.spent, received |-> p.received, pnl |-> trade.pnl,
             roi |-> trade.roi, minutes |-> trade.minutes, net |-> net, fresh |-> fresh]
  BY DEF PerfRow, fresh
<1>. HIDE DEF row
<1>3. /\ row.pnl = trade.pnl /\ row.roi = trade.roi /\ row.minutes = trade.minutes
      /\ row.net = net /\ row.fresh = fresh
  BY <1>2
<1>4. TrackedOK(row, p)
  BY <1>1, <1>2, <1>3 DEF TrackedOK
<1>. QED BY <1>4 DEF row

LEMMA WalletRowOK ==
    ASSUME NEW w \in Accounts, NEW k \in Tokens
    PROVE  /\ WalletRow(w, k).amount = Positions[w][k].spent
           /\ Fits(WalletRow(w, k).pnl, Positions[w][k])
           /\ Rated(WalletRow(w, k).roi, Positions[w][k])
           /\ TradeOK(WalletRow(w, k))
<1>. DEFINE p == Positions[w][k]
            t == WalletRow(w, k)
<1>1. p \in Position
  BY ChainTypes
<1>2. t.amount = p.spent /\ t.pnl = RealizedPnl(p) /\ t.roi = RealizedRoi(p)
  BY DEF WalletRow, trade_from_wallet_row
<1>. HIDE DEF p, t
<1>3. Fits(t.pnl, p) /\ Rated(t.roi, p) /\ p.spent \in Nat
  BY <1>1, <1>2, RealizedType, PositionFields
<1>4. TradeOK(t)
  BY <1>2, <1>3 DEF TradeOK, Fits, Rated
<1>5. t.amount = p.spent /\ Fits(t.pnl, p) /\ Rated(t.roi, p) /\ TradeOK(t)
  BY <1>2, <1>3, <1>4
<1>. QED BY <1>5 DEF p, t

LEMMA IntelTradesOK ==
    ASSUME NEW w \in Accounts, NEW rows
    PROVE  Trades(IntelTrades(w, rows))
<1>. DEFINE all == Tokens \X (1..MaxRows)
            f == IntelTrades(w, rows)
<1>1. IsFiniteSet(all)
  <2>1. 1 \in Int /\ MaxRows \in Int
    BY StartsAssumption
  <2>2. IsFiniteSet(1..MaxRows)
    BY <2>1, FS_Interval
  <2>. QED BY <2>2, AccountsAssumption, FS_Product
<1>2. DOMAIN f \in SUBSET all
  BY DEF IntelTrades
<1>3. \A i \in DOMAIN f : f[i] = WalletRow(w, i[1])
  BY DEF IntelTrades
<1>. HIDE DEF f
<1>4. IsFiniteSet(DOMAIN f)
  <2>. HIDE DEF all
  <2>. QED BY <1>1, <1>2, FS_Subset
<1>5. ASSUME NEW i \in DOMAIN f PROVE TradeOK(f[i])
  <2>1. i[1] \in Tokens
    BY <1>2
  <2>. QED BY <1>3, <2>1, WalletRowOK
<1>6. Trades(f)
  BY <1>4, <1>5 DEF Trades
<1>. QED BY <1>6 DEF f

LEMMA PricedTradeOK ==
    ASSUME NEW p \in Position, p.spent > 0, NEW price \in Nat
    PROVE  /\ position_to_trade(p, price).amount = p.spent
           /\ Fits(position_to_trade(p, price).pnl, p)
           /\ Rated(position_to_trade(p, price).roi, p)
           /\ TradeOK(position_to_trade(p, price))
           /\ positions_to_trades(p, price).amount = p.spent
           /\ Fits(positions_to_trades(p, price).pnl, p)
           /\ Rated(positions_to_trades(p, price).roi, p)
           /\ TradeOK(positions_to_trades(p, price))
<1>. DEFINE t == position_to_trade(p, price)
            a == positions_to_trades(p, price)
<1>1. t = [amount |-> p.spent, pnl |-> {Pnl(p, price)}, roi |-> {Roi(p, price)},
           minutes |-> {p.minutes}, rate |-> TxRate(p)]
  BY DEF position_to_trade
<1>2. a = [t EXCEPT !.minutes = {}, !.rate = 0]
  BY DEF positions_to_trades
<1>. HIDE DEF t, a
<1>3. /\ t.amount = p.spent /\ t.pnl = {Pnl(p, price)} /\ t.roi = {Roi(p, price)}
      /\ a.amount = p.spent /\ a.pnl = {Pnl(p, price)} /\ a.roi = {Roi(p, price)}
  BY <1>1, <1>2
<1>4. Fits({Pnl(p, price)}, p) /\ Rated({Roi(p, price)}, p) /\ p.spent \in Nat
  BY PnlType, PositionFields
<1>5. TradeOK(t) /\ TradeOK(a)
  BY <1>3, <1>4 DEF TradeOK, Fits, Rated
<1>. QED BY <1>3, <1>4, <1>5 DEF t, a

LEMMA TradesWithOK ==
    ASSUME NEW W, PerfRows(perf, W), NEW w, NEW trade, TradeOK(trade)
    PROVE  Trades(TradesWith(w, trade))
<1>. DEFINE new == [key \in {<<w>>} |-> trade]
            old == [key \in RowsOf(w) |-> RowTrade(perf[key])]
            f == Upsert(new, old)
<1>1. DOMAIN f = {<<w>>} \cup RowsOf(w)
  <2>1. DOMAIN new = {<<w>>} /\ DOMAIN old = RowsOf(w)
    OBVIOUS
  <2>. HIDE DEF new, old
  <2>. QED BY <2>1, UpsertRows
<1>2. RowsOf(w) \in SUBSET Keys
  BY DEF RowsOf, PerfRows
<1>3. IsFiniteSet(DOMAIN f)
  BY <1>1, <1>2, KeysFinite, FS_Subset, FS_AddElement
<1>4. ASSUME NEW key \in RowsOf(w) PROVE TradeOK(old[key])
  <2>1. TrackedOK(perf[key], Origin(key)) /\ Origin(key) \in Position
    BY <1>2, OriginType DEF RowsOf, PerfRows
  <2>2. /\ perf[key].spent = Origin(key).spent /\ Maybe(perf[key].pnl)
        /\ Maybe(perf[key].roi)
    BY <2>1 DEF TrackedOK, Fits, Rated
  <2>3. Origin(key).spent \in Nat
    BY <2>1, PositionFields
  <2>4. /\ old[key].amount = perf[key].spent /\ old[key].pnl = perf[key].pnl
        /\ old[key].roi = perf[key].roi
    BY DEF RowTrade
  <2>. HIDE DEF old
  <2>. QED BY <2>2, <2>3, <2>4 DEF TradeOK
<1>5. ASSUME NEW i \in DOMAIN f PROVE TradeOK(f[i])
  <2>1. CASE i \in {<<w>>}
    <3>1. i \in DOMAIN new /\ new[i] = trade
      BY <2>1
    <3>. HIDE DEF new
    <3>. QED BY <3>1, UpsertedRow
  <2>2. CASE i \in RowsOf(w) /\ i \notin {<<w>>}
    <3>1. i \in DOMAIN old /\ i \notin DOMAIN new /\ TradeOK(old[i])
      BY <2>2, <1>4
    <3>. HIDE DEF new, old
    <3>. QED BY <3>1, UpsertedRow
  <2>. QED BY <1>1, <2>1, <2>2
<1>6. Trades(f)
  BY <1>3, <1>5 DEF Trades
<1>. QED BY <1>6 DEF TradesWith

-----------------------------------------------------------------------------
(***************************************************************************)
(* One transaction of each service.                                        *)
(***************************************************************************)
\* What a transaction may do to the wallets and to their rows.
Writes == /\ EliteRows(elite') /\ DOMAIN elite \subseteq DOMAIN elite'
          /\ PerfRows(perf', DOMAIN elite') /\ DOMAIN perf \subseteq DOMAIN perf'

\* The wallets that are saved cover the rows that are saved with them.
LEMMA BothUpserted ==
    ASSUME WalletsIInv, NEW wallets, NEW rows, EliteRows(wallets),
           PerfRows(rows, DOMAIN wallets),
           elite' = Upsert(wallets, elite), perf' = Upsert(rows, perf)
    PROVE  Writes
<1>1. EliteRows(elite') /\ DOMAIN elite \subseteq DOMAIN elite'
  BY UpsertElites DEF WalletsIInv
<1>2. DOMAIN wallets \subseteq DOMAIN elite'
  BY UpsertRows
<1>3. PerfRows(rows, DOMAIN elite')
  BY <1>2 DEF PerfRows
<1>4. PerfRows(perf', DOMAIN elite') /\ DOMAIN perf \subseteq DOMAIN perf'
  BY <1>1, <1>3, UpsertPerf DEF WalletsIInv
<1>. QED BY <1>1, <1>4 DEF Writes

LEMMA DiscoveryWrites ==
    ASSUME WalletsIInv, NEW p, DiscoverySaves(p)
    PROVE  Writes
<1>. DEFINE rows == proc[p].read
            source == "wallet_intelligence"
            wallets == [w \in Discovered(rows) |-> EliteRow(IntelTrades(w, rows), source)]
            evidence == [key \in Evidence(rows) |->
                           PerfRow(key, WalletRow(key[1], key[2]),
                             Positions[key[1]][key[2]].received, {})]
<1>1. elite' = Upsert(wallets, elite) /\ perf' = Upsert(evidence, perf)
  BY DEF DiscoverySaves
<1>2. DOMAIN wallets = Discovered(rows) /\ DOMAIN evidence = Evidence(rows)
  OBVIOUS
<1>3. Discovered(rows) \subseteq Accounts
  BY DEF Discovered, Grouped
<1>4. ASSUME NEW w \in Discovered(rows) PROVE EliteOK(wallets[w])
  <2>1. source \in Sources /\ Trades(IntelTrades(w, rows))
    BY <1>3, IntelTradesOK DEF Sources
  <2>2. wallets[w] = EliteRow(IntelTrades(w, rows), source)
    OBVIOUS
  <2>. HIDE DEF wallets, source, rows
  <2>. QED BY <2>1, <2>2, EliteRowType
<1>5. ASSUME NEW key \in Evidence(rows)
      PROVE  /\ key \in Keys /\ key[1] \in Discovered(rows)
             /\ TrackedOK(evidence[key], Origin(key))
  <2>1. /\ key \in Keys /\ key[3] = "wallet_intelligence"
        /\ key[1] \in Discovered(rows)
    BY DEF Evidence
  <2>2. key[1] \in Accounts /\ key[2] \in Tokens
    BY <2>1 DEF Keys
  <2>. DEFINE pos == Positions[key[1]][key[2]]
              trade == WalletRow(key[1], key[2])
  <2>3. Origin(key) = pos
    BY <2>1 DEF Origin
  <2>4. trade.amount = pos.spent /\ Fits(trade.pnl, pos) /\ Rated(trade.roi, pos)
    BY <2>2, WalletRowOK
  <2>5. evidence[key] = PerfRow(key, trade, pos.received, {})
    OBVIOUS
  <2>6. PerfRows(perf, DOMAIN elite)
    BY DEF WalletsIInv
  <2>. HIDE DEF pos, trade, evidence
  <2>7. TrackedOK(PerfRow(key, trade, pos.received, {}), pos)
    BY <2>3, <2>4, <2>6, PerfRowOK
  <2>. QED BY <2>1, <2>3, <2>5, <2>7
<1>. HIDE DEF wallets, evidence, rows
<1>6. EliteRows(wallets)
  BY <1>2, <1>3, <1>4 DEF EliteRows
<1>7. PerfRows(evidence, DOMAIN wallets)
  BY <1>2, <1>5 DEF PerfRows
<1>. QED BY <1>1, <1>6, <1>7, BothUpserted

LEMMA BuyersKnown ==
    ASSUME NEW k \in Tokens, NEW price \in Nat, NEW w \in GainedAtLeast(k, price, MinProfit)
    PROVE  /\ w \in Accounts /\ EarlyBuyers[k][w] \in Position
           /\ EarlyBuyers[k][w].spent > 0
<1>1. w \in KnownIn(EarlyBuyers[k]) /\ EarlyBuyers[k][w].spent > 0
  BY DEF GainedAtLeast, Buyers
<1>2. w \in Accounts
  BY <1>1 DEF KnownIn
<1>. QED BY <1>1, <1>2, ChainTypes

LEMMA ReverseWrites ==
    ASSUME WalletsIInv, NEW p \in Procs, NEW k \in Tokens, ReverseAnalyzes(p, k)
    PROVE  /\ Writes
           /\ proc[p].read[k] \in Nat
           /\ GainedAtLeast(k, proc[p].read[k], MinProfit) \X {k}
                \X {"reverse_profit_discovery"} \subseteq DOMAIN perf'
<1>. DEFINE price == proc[p].read[k]
            source == "reverse_profit_discovery"
            promoted == GainedAtLeast(k, price, MinProfit)
            trade(w) == position_to_trade(EarlyBuyers[k][w], price)
            row(w) == PerfRow(<<w, k, source>>, trade(w), EarlyBuyers[k][w].received,
                        {EarlyBuyers[k][w].in - EarlyBuyers[k][w].out})
            keys == promoted \X {k} \X {source}
            wallets == [w \in promoted |-> EliteRow(TradesWith(w, trade(w)), source)]
            rows == [key \in keys |-> row(key[1])]
<1>1. elite' = Upsert(wallets, elite) /\ perf' = Upsert(rows, perf)
  BY DEF ReverseAnalyzes
<1>2. DOMAIN wallets = promoted /\ DOMAIN rows = keys
  OBVIOUS
<1>3. price \in Nat
  <2>1. ProcOK(proc[p], DOMAIN elite)
    BY DEF WalletsIInv, ProcsOK
  <2>2. proc[p].job = "reverse" /\ k \in proc[p].todo
    BY DEF ReverseAnalyzes
  <2>. QED BY <2>1, <2>2 DEF ProcOK
<1>4. ASSUME NEW w \in promoted
      PROVE  w \in Accounts /\ EliteOK(wallets[w]) /\ TrackedOK(row(w), EarlyBuyers[k][w])
  <2>. DEFINE pos == EarlyBuyers[k][w]
              t == trade(w)
              key == <<w, k, source>>
              net == {pos.in - pos.out}
  <2>1. w \in Accounts /\ pos \in Position /\ pos.spent > 0
    BY <1>3, BuyersKnown
  <2>2. /\ t.amount = pos.spent /\ Fits(t.pnl, pos) /\ Rated(t.roi, pos) /\ TradeOK(t)
    <3>1. t = position_to_trade(pos, price)
      OBVIOUS
    <3>. HIDE DEF t, pos, price
    <3>. QED BY <1>3, <2>1, <3>1, PricedTradeOK
  <2>3. PerfRows(perf, DOMAIN elite)
    BY DEF WalletsIInv
  <2>4. Origin(key) = pos
    BY DEF Origin
  <2>5. TrackedOK(row(w), pos)
    <3>1. row(w) = PerfRow(key, t, pos.received, net)
      OBVIOUS
    <3>2. net = {pos.in - pos.out}
      OBVIOUS
    <3>. HIDE DEF row, t, pos, net, key
    <3>. QED BY <2>2, <2>3, <2>4, <3>1, <3>2, PerfRowOK
  <2>6. EliteOK(wallets[w])
    <3>1. wallets[w] = EliteRow(TradesWith(w, t), source) /\ source \in Sources
      BY DEF Sources
    <3>. HIDE DEF wallets, t, source
    <3>2. Trades(TradesWith(w, t))
      BY <2>2, <2>3, TradesWithOK
    <3>. QED BY <3>1, <3>2, EliteRowType
  <2>. QED BY <2>1, <2>5, <2>6
<1>5. ASSUME NEW key \in keys
      PROVE  /\ key \in Keys /\ key[1] \in promoted /\ TrackedOK(rows[key], Origin(key))
  <2>1. PICK w \in promoted : key = <<w, k, source>>
    OBVIOUS
  <2>2. key \in Keys
    BY <1>4, <2>1 DEF Keys, Sources
  <2>3. rows[key] = row(w) /\ Origin(key) = EarlyBuyers[k][w] /\ key[1] = w
    BY <2>1 DEF Origin
  <2>. HIDE DEF rows, row
  <2>. QED BY <1>4, <2>1, <2>2, <2>3
<1>. HIDE DEF wallets, rows, row, trade, keys, promoted
<1>6. EliteRows(wallets)
  BY <1>2, <1>4 DEF EliteRows
<1>7. PerfRows(rows, DOMAIN wallets)
  BY <1>2, <1>5 DEF PerfRows
<1>8. Writes
  BY <1>1, <1>6, <1>7, BothUpserted
<1>9. keys \subseteq DOMAIN perf'
  BY <1>1, <1>2, UpsertRows
<1>. QED BY <1>3, <1>8, <1>9 DEF keys, promoted

\* The counts of a token that was analysed, against the rows it has.
LEMMA AnalyzedCounts ==
    ASSUME NEW k \in Tokens, NEW price \in Nat, NEW B \in SUBSET Keys,
           GainedAtLeast(k, price, MinProfit) \X {k} \X {"reverse_profit_discovery"}
             \subseteq B
    PROVE  TargetRowOK(AnalyzedTarget(k, price), k, B)
<1>. DEFINE promoted == GainedAtLeast(k, price, MinProfit)
            gained == GainedAtLeast(k, price, 1)
            known == KnownIn(EarlyBuyers[k])
            source == "reverse_profit_discovery"
            f == [w \in promoted |-> <<w, k, source>>]
<1>1. \A w \in Accounts : Pnl(EarlyBuyers[k][w], price) \in Int
  BY ChainTypes, PnlType
<1>2. gained \in SUBSET known /\ known \in SUBSET Accounts
  BY DEF GainedAtLeast, Buyers, KnownIn
<1>3. promoted \in SUBSET gained
  <2>1. ASSUME NEW w \in promoted PROVE w \in gained
    <3>1. w \in Buyers(k) /\ Pnl(EarlyBuyers[k][w], price) >= MinProfit
      BY DEF GainedAtLeast
    <3>2. w \in Accounts
      BY <3>1 DEF Buyers, KnownIn
    <3>3. Pnl(EarlyBuyers[k][w], price) >= 1
      <4>. DEFINE n == Pnl(EarlyBuyers[k][w], price)
      <4>1. n \in Int /\ n >= MinProfit
        BY <1>1, <3>1, <3>2
      <4>. HIDE DEF n
      <4>2. n >= 1
        BY <4>1, MinProfitAssumption
      <4>. QED BY <4>2 DEF n
    <3>. QED BY <3>1, <3>3 DEF GainedAtLeast
  <2>. QED BY <2>1
<1>4. IsFiniteSet(known) /\ IsFiniteSet(gained) /\ IsFiniteSet(promoted)
  <2>. HIDE DEF known, gained, promoted
  <2>. QED BY <1>2, <1>3, AccountsAssumption, FS_Subset
<1>5. f \in Injection(promoted, ReverseKeys(B, k))
  <2>1. ASSUME NEW w \in promoted PROVE <<w, k, source>> \in ReverseKeys(B, k)
    <3>1. <<w, k, source>> \in B
      OBVIOUS
    <3>. QED BY <3>1 DEF ReverseKeys
  <2>. HIDE DEF promoted, source
  <2>2. f \in [promoted -> ReverseKeys(B, k)]
    BY <2>1
  <2>3. ASSUME NEW v \in promoted, NEW w \in promoted, f[v] = f[w] PROVE v = w
    BY <2>3
  <2>. QED BY <2>2, <2>3 DEF Injection, IsInjective
<1>6. IsFiniteSet(ReverseKeys(B, k))
  <2>1. ReverseKeys(B, k) \in SUBSET Keys
    BY DEF ReverseKeys
  <2>. QED BY <2>1, KeysFinite, FS_Subset
<1>. HIDE DEF promoted, gained, known, f, source
<1>7. /\ Cardinality(promoted) \in Nat /\ Cardinality(promoted) =< Cardinality(gained)
      /\ Cardinality(gained) =< Cardinality(known)
      /\ Cardinality(promoted) =< Cardinality(ReverseKeys(B, k))
  BY <1>2, <1>3, <1>4, <1>5, <1>6, FS_CardinalityType, FS_Subset, FS_Injection
<1>8. /\ AnalyzedTarget(k, price).promoted = Cardinality(promoted)
      /\ AnalyzedTarget(k, price).profitable = Cardinality(gained)
      /\ AnalyzedTarget(k, price).checked = Cardinality(known)
  BY DEF AnalyzedTarget, promoted, gained, known
<1>. QED BY <1>7, <1>8 DEF TargetRowOK

LEMMA AuditWrites ==
    ASSUME WalletsIInv, NEW p, NEW w \in Accounts, AuditsWallet(p, w)
    PROVE  Writes
<1>. DEFINE source == "wallet_consistency_audit"
            position == Positions[w]
<1>0. PICK seen \in SUBSET Invested(w) :
      \E price \in [seen -> IF Outages THEN Prices \cup {0} ELSE Prices] :
        LET trade == [k \in seen |-> positions_to_trades(position[k], price[k])]
            saved == {k \in seen : NumberOr(trade[k].pnl, 0) >= 0}
            row(k) == [spent |-> trade[k].amount, received |-> position[k].received,
                       pnl |-> trade[k].pnl, roi |-> trade[k].roi, minutes |-> {},
                       net |-> {position[k].in - position[k].out},
                       fresh |-> trade[k].pnl]
        IN /\ elite' = Upsert([v \in {w} |-> EliteRow(trade, source)], elite)
           /\ perf' = Upsert([key \in {w} \X saved \X {source} |-> row(key[2])], perf)
  BY DEF AuditsWallet
<1>1. PICK price \in [seen -> IF Outages THEN Prices \cup {0} ELSE Prices] :
        LET trade == [k \in seen |-> positions_to_trades(position[k], price[k])]
            saved == {k \in seen : NumberOr(trade[k].pnl, 0) >= 0}
            row(k) == [spent |-> trade[k].amount, received |-> position[k].received,
                       pnl |-> trade[k].pnl, roi |-> trade[k].roi, minutes |-> {},
                       net |-> {position[k].in - position[k].out},
                       fresh |-> trade[k].pnl]
        IN /\ elite' = Upsert([v \in {w} |-> EliteRow(trade, source)], elite)
           /\ perf' = Upsert([key \in {w} \X saved \X {source} |-> row(key[2])], perf)
  BY <1>0
<1>. DEFINE trade == [k \in seen |-> positions_to_trades(position[k], price[k])]
            saved == {k \in seen : NumberOr(trade[k].pnl, 0) >= 0}
            row(k) == [spent |-> trade[k].amount, received |-> position[k].received,
                       pnl |-> trade[k].pnl, roi |-> trade[k].roi, minutes |-> {},
                       net |-> {position[k].in - position[k].out},
                       fresh |-> trade[k].pnl]
            wallets == [v \in {w} |-> EliteRow(trade, source)]
            keys == {w} \X saved \X {source}
            rows == [key \in keys |-> row(key[2])]
<1>2. elite' = Upsert(wallets, elite) /\ perf' = Upsert(rows, perf)
  BY <1>1
<1>3. ASSUME NEW k \in seen
      PROVE  /\ k \in Tokens /\ TradeOK(trade[k]) /\ TrackedOK(row(k), position[k])
  <2>. DEFINE pos == position[k]
              t == trade[k]
              n == price[k]
  <2>0. k \in Tokens /\ Positions[w][k].spent > 0
    BY DEF Invested
  <2>10. n \in Nat
    <3>. DEFINE answers == IF Outages THEN Prices \cup {0} ELSE Prices
    <3>1. answers \subseteq Nat
      BY PricesAssumption
    <3>2. price \in [seen -> answers]
      OBVIOUS
    <3>. HIDE DEF answers
    <3>. QED BY <3>1, <3>2
  <2>1. k \in Tokens /\ pos \in Position /\ pos.spent > 0 /\ n \in Nat
    BY <2>0, <2>10, ChainTypes
  <2>2. t = positions_to_trades(pos, n)
    OBVIOUS
  <2>3. row(k) = [spent |-> t.amount, received |-> pos.received, pnl |-> t.pnl,
                  roi |-> t.roi, minutes |-> {}, net |-> {pos.in - pos.out},
                  fresh |-> t.pnl]
    OBVIOUS
  <2>. DEFINE r == row(k)
  <2>. HIDE DEF row, trade, t, pos, n
  <2>4. /\ t.amount = pos.spent /\ Fits(t.pnl, pos) /\ Rated(t.roi, pos) /\ TradeOK(t)
    BY <2>1, <2>2, PricedTradeOK
  <2>5. r = [spent |-> pos.spent, received |-> pos.received, pnl |-> t.pnl,
             roi |-> t.roi, minutes |-> {}, net |-> {pos.in - pos.out}, fresh |-> t.pnl]
    BY <2>3, <2>4
  <2>. HIDE DEF r
  <2>6. /\ r.pnl = t.pnl /\ r.roi = t.roi /\ r.minutes = {} /\ r.fresh = t.pnl
        /\ r.net = {pos.in - pos.out}
    BY <2>5
  <2>7. TrackedOK(r, pos)
    BY <2>4, <2>5, <2>6 DEF TrackedOK
  <2>. QED BY <2>1, <2>4, <2>7 DEF r, t, pos
<1>4. EliteOK(wallets[w]) /\ DOMAIN wallets = {w}
  <2>1. DOMAIN trade = seen /\ source \in Sources /\ wallets[w] = EliteRow(trade, source)
        /\ DOMAIN wallets = {w}
    BY DEF Sources
  <2>. HIDE DEF trade, wallets, source
  <2>2. seen \in SUBSET Tokens
    BY <1>3
  <2>3. Trades(trade)
    BY <1>3, <2>1, <2>2, AccountsAssumption, FS_Subset DEF Trades
  <2>. QED BY <2>1, <2>3, EliteRowType
<1>5. DOMAIN rows = keys
  OBVIOUS
<1>6. ASSUME NEW key \in keys
      PROVE  key \in Keys /\ key[1] = w /\ TrackedOK(rows[key], Origin(key))
  <2>1. PICK k \in seen : key = <<w, k, source>>
    OBVIOUS
  <2>2. key \in Keys
    BY <1>3, <2>1 DEF Keys, Sources
  <2>3. rows[key] = row(k) /\ Origin(key) = position[k] /\ key[1] = w
    BY <2>1 DEF Origin
  <2>. HIDE DEF rows, row
  <2>. QED BY <1>3, <2>1, <2>2, <2>3
<1>. HIDE DEF wallets, rows, row, trade, keys, saved
<1>7. EliteRows(wallets) /\ PerfRows(rows, DOMAIN wallets)
  BY <1>4, <1>5, <1>6 DEF EliteRows, PerfRows
<1>. QED BY <1>2, <1>7, BothUpserted

LEMMA FreshSet ==
    ASSUME NEW a, NEW b, NEW c, NEW d, NEW e, NEW f, NEW g, NEW x, NEW row,
           row = [spent |-> a, received |-> b, pnl |-> c, roi |-> d, minutes |-> e,
                  net |-> f, fresh |-> g]
    PROVE  [row EXCEPT !.fresh = x] =
             [spent |-> a, received |-> b, pnl |-> c, roi |-> d, minutes |-> e,
              net |-> f, fresh |-> x]
  OBVIOUS

\* A refreshed profit still fits the position.
LEMMA RefreshedOK ==
    ASSUME NEW row, NEW p \in Position, TrackedOK(row, p), NEW price \in Nat
    PROVE  TrackedOK(Refreshed(row, price), p)
<1>. DEFINE net == NumberOr(row.net, 0)
            held == Max({0, net})
            fresh == row.received + held * price - row.spent
            new == Refreshed(row, price)
<1>1. /\ p.in \in Nat /\ p.out \in Nat /\ p.spent \in Nat /\ p.received \in Nat
      /\ Holding(p) = IF p.in >= p.out THEN p.in - p.out ELSE 0
  BY PositionFields
<1>2. /\ row = [spent |-> p.spent, received |-> p.received, pnl |-> row.pnl,
                roi |-> row.roi, minutes |-> row.minutes, net |-> row.net,
                fresh |-> row.fresh]
      /\ Fits(row.pnl, p) /\ Rated(row.roi, p)
      /\ row.net = {} \/ row.net = {p.in - p.out}
  BY DEF TrackedOK
<1>3. net = 0 \/ net = p.in - p.out
  BY <1>2 DEF NumberOr
<1>4. held \in Nat
  <2>1. net \in Int
    BY <1>1, <1>3
  <2>2. \A n \in Int : Max({0, n}) = IF 0 >= n THEN 0 ELSE n
    BY OneOfTwo
  <2>3. held = IF 0 >= net THEN 0 ELSE net
    BY <2>1, <2>2
  <2>. HIDE DEF held, net
  <2>. QED BY <2>1, <2>3
<1>5. row.spent = p.spent /\ row.received = p.received
  BY <1>2
<1>. HIDE DEF held, net
<1>6. fresh \in Int /\ fresh >= p.received - p.spent
  <2>1. held * price \in Nat
    BY <1>4
  <2>. QED BY <1>1, <1>5, <2>1
<1>7. Fits({fresh}, p)
  <2>. HIDE DEF fresh
  <2>. QED BY <1>6 DEF Fits, Maybe
<1>8. new = [row EXCEPT !.fresh = {fresh}]
  BY DEF Refreshed, held, net
<1>. HIDE DEF new, fresh
<1>9. new = [spent |-> p.spent, received |-> p.received, pnl |-> row.pnl,
             roi |-> row.roi, minutes |-> row.minutes, net |-> row.net,
             fresh |-> {fresh}]
  <2>. DEFINE spent == p.spent
              received == p.received
              pnl == row.pnl
              roi == row.roi
              minutes == row.minutes
              netted == row.net
              old == row.fresh
              x == {fresh}
  <2>1. /\ row = [spent |-> spent, received |-> received, pnl |-> pnl, roi |-> roi,
                  minutes |-> minutes, net |-> netted, fresh |-> old]
        /\ new = [row EXCEPT !.fresh = x]
    BY <1>2, <1>8
  <2>. HIDE DEF spent, received, pnl, roi, minutes, netted, old, x
  <2>2. new = [spent |-> spent, received |-> received, pnl |-> pnl, roi |-> roi,
               minutes |-> minutes, net |-> netted, fresh |-> x]
    BY <2>1, FreshSet
  <2>. QED BY <2>2 DEF spent, received, pnl, roi, minutes, netted, x
<1>10. /\ new.pnl = row.pnl /\ new.roi = row.roi /\ new.minutes = row.minutes
       /\ new.net = row.net /\ new.fresh = {fresh}
  BY <1>9
<1>11. TrackedOK(new, p)
  BY <1>2, <1>7, <1>9, <1>10 DEF TrackedOK
<1>. QED BY <1>11 DEF new

LEMMA RefreshWrites ==
    ASSUME WalletsIInv, NEW p \in Procs, RefreshSaves(p)
    PROVE  PerfRows(perf', DOMAIN elite) /\ DOMAIN perf' = DOMAIN perf
<1>0. PICK answered \in SUBSET proc[p].todo :
      \E price \in [answered -> Prices] :
        perf' = [key \in DOMAIN perf |->
                   IF key[2] \in answered /\ price[key[2]] # 0
                   THEN Refreshed(perf[key], price[key[2]]) ELSE perf[key]]
  <2>1. \E answered \in IF Outages THEN SUBSET proc[p].todo ELSE {proc[p].todo} :
        \E price \in [answered -> Prices] :
          perf' = [key \in DOMAIN perf |->
                     IF key[2] \in answered /\ price[key[2]] # 0
                     THEN Refreshed(perf[key], price[key[2]]) ELSE perf[key]]
    BY DEF RefreshSaves
  <2>. QED BY <2>1
<1>1. PICK price \in [answered -> Prices] :
        perf' = [key \in DOMAIN perf |->
                   IF key[2] \in answered /\ price[key[2]] # 0
                   THEN Refreshed(perf[key], price[key[2]]) ELSE perf[key]]
  BY <1>0
<1>2. DOMAIN perf' = DOMAIN perf
  BY <1>1
<1>3. ASSUME NEW key \in DOMAIN perf
      PROVE  key \in Keys /\ TrackedOK(perf'[key], Origin(key)) /\ key[1] \in DOMAIN elite
  <2>1. key \in Keys /\ TrackedOK(perf[key], Origin(key)) /\ key[1] \in DOMAIN elite
    BY DEF WalletsIInv, PerfRows
  <2>2. CASE key[2] \in answered /\ price[key[2]] # 0
    <3>1. perf'[key] = Refreshed(perf[key], price[key[2]]) /\ price[key[2]] \in Nat
      BY <1>1, <2>2, PricesAssumption
    <3>. QED BY <2>1, <3>1, OriginType, RefreshedOK
  <2>3. CASE ~(key[2] \in answered /\ price[key[2]] # 0)
    BY <1>1, <2>1, <2>3
  <2>. QED BY <2>2, <2>3
<1>. QED BY <1>2, <1>3 DEF PerfRows

-----------------------------------------------------------------------------
(***************************************************************************)
(* The invariant.                                                          *)
(***************************************************************************)
LEMMA WalletsInitially == WalletsInit => WalletsIInv
<1>. SUFFICES ASSUME WalletsInit PROVE WalletsIInv
  OBVIOUS
<1>1. intel \in [Accounts -> [Tokens -> 0..MaxRows]]
  BY StartsAssumption DEF WalletsInit
<1>2. EliteRows(elite) /\ PerfRows(perf, DOMAIN elite) /\ TargetRows(target, DOMAIN perf)
      /\ DOMAIN survival \subseteq DOMAIN elite
  BY DEF WalletsInit, Empty, EliteRows, PerfRows, TargetRows
<1>3. ProcsOK(proc, DOMAIN elite)
  <2>1. proc = [p \in Procs |-> Idle]
    BY DEF WalletsInit
  <2>. QED BY <2>1, IdleOK DEF ProcsOK
<1>4. starts \in 0..MaxStarts
  BY StartsAssumption DEF WalletsInit
<1>. QED BY <1>1, <1>2, <1>3, <1>4 DEF WalletsIInv

\* A service that begins touches no wallet and no trade.
LEMMA ServiceBegins ==
    ASSUME WalletsIInv, NEW p \in Procs, NEW job, NEW todo, NEW read,
           Begins(p, job, todo, read), UNCHANGED <<intel, elite, perf, survival>>,
           TargetRows(target', DOMAIN perf),
           ProcOK([job |-> job, todo |-> todo, read |-> read], DOMAIN elite)
    PROVE  WalletsIInv'
<1>. DEFINE r == [job |-> job, todo |-> todo, read |-> read]
<1>1. /\ starts' \in 0..MaxStarts
      /\ proc' = [proc EXCEPT ![p] = r]
  BY StartsAssumption DEF Begins, WalletsIInv
<1>2. ProcOK(r, DOMAIN elite)
  OBVIOUS
<1>. HIDE DEF r
<1>3. ProcsOK(proc, DOMAIN elite)
  BY DEF WalletsIInv
<1>4. ProcsOK([proc EXCEPT ![p] = r], DOMAIN elite)
  BY <1>2, <1>3, ProcessSet
<1>5. ProcsOK(proc', DOMAIN elite')
  BY <1>1, <1>4
<1>. QED BY <1>1, <1>5 DEF WalletsIInv

\* A process ends while the tables of wallets and trades only grow.
LEMMA TablesWritten ==
    ASSUME WalletsIInv, NEW p \in Procs, NEW r, proc' = [proc EXCEPT ![p] = r],
           ProcOK(r, DOMAIN elite), Writes, TargetRows(target', DOMAIN perf'),
           UNCHANGED <<intel, survival, starts>>
    PROVE  WalletsIInv'
<1>1. DOMAIN elite \subseteq DOMAIN elite'
  BY DEF Writes
<1>2. ProcOK(r, DOMAIN elite')
  BY <1>1 DEF ProcOK
<1>3. ProcsOK(proc, DOMAIN elite)
  BY DEF WalletsIInv
<1>4. ProcsOK([proc EXCEPT ![p] = r], DOMAIN elite')
  BY <1>1, <1>2, <1>3, ProcessSet
<1>5. ProcsOK(proc', DOMAIN elite')
  BY <1>4
<1>6. DOMAIN survival' \subseteq DOMAIN elite'
  BY <1>1 DEF WalletsIInv
<1>. QED BY <1>5, <1>6 DEF WalletsIInv, Writes

LEMMA WritesKeepTargets ==
    ASSUME WalletsIInv, Writes
    PROVE  TargetRows(target, DOMAIN perf') /\ DOMAIN perf' \in SUBSET Keys
<1>1. DOMAIN perf' \in SUBSET Keys /\ DOMAIN perf \subseteq DOMAIN perf'
  BY DEF Writes, PerfRows
<1>2. TargetRows(target, DOMAIN perf)
  BY DEF WalletsIInv
<1>. QED BY <1>1, <1>2, TargetsKept

LEMMA NothingWritten ==
    ASSUME WalletsIInv, UNCHANGED <<elite, perf>>
    PROVE  Writes
  BY DEF WalletsIInv, Writes

LEMMA LessTodo ==
    ASSUME NEW r, NEW W, ProcOK(r, W), r.job \in {"reverse", "audit"}, NEW x
    PROVE  ProcOK([r EXCEPT !.todo = @ \ {x}], W)
<1>. DEFINE left == r.todo \ {x}
            q == [r EXCEPT !.todo = left]
<1>1. r = [job |-> r.job, todo |-> r.todo, read |-> r.read]
  BY DEF ProcOK
<1>. HIDE DEF left
<1>2. q = [job |-> r.job, todo |-> left, read |-> r.read]
  BY <1>1
<1>3. left \subseteq r.todo
  BY DEF left
<1>. HIDE DEF q
<1>4. q.job = r.job /\ q.todo = left /\ q.read = r.read
  BY <1>2
<1>5. ProcOK(q, W)
  BY <1>2, <1>3, <1>4 DEF ProcOK
<1>. QED BY <1>5 DEF q, left

LEMMA IntelligenceKept ==
    ASSUME WalletsIInv, NEW w \in Holders, NEW k \in Tokens, IntelligenceSaves(w, k)
    PROVE  WalletsIInv'
<1>1. w \in Accounts /\ intel[w] \in [Tokens -> 0..MaxRows] /\ intel[w][k] < MaxRows
  BY PricesAssumption DEF WalletsIInv, IntelligenceSaves
<1>2. intel[w][k] + 1 \in 0..MaxRows
  <2>. DEFINE n == intel[w][k]
  <2>1. n \in 0..MaxRows /\ n < MaxRows /\ MaxRows \in Nat
    BY <1>1, StartsAssumption
  <2>. HIDE DEF n
  <2>2. n + 1 \in 0..MaxRows
    BY <2>1
  <2>. QED BY <2>2 DEF n
<1>3. intel' = [intel EXCEPT ![w] = [intel[w] EXCEPT ![k] = intel[w][k] + 1]]
  BY DEF IntelligenceSaves
<1>4. [intel[w] EXCEPT ![k] = intel[w][k] + 1] \in [Tokens -> 0..MaxRows]
  BY <1>1, <1>2
<1>5. intel' \in [Accounts -> [Tokens -> 0..MaxRows]]
  <2>. DEFINE row == [intel[w] EXCEPT ![k] = intel[w][k] + 1]
              V == [Tokens -> 0..MaxRows]
  <2>1. row \in V /\ intel \in [Accounts -> V] /\ intel' = [intel EXCEPT ![w] = row]
    BY <1>3, <1>4 DEF WalletsIInv
  <2>. HIDE DEF row, V
  <2>2. intel' \in [Accounts -> V]
    BY <2>1
  <2>. QED BY <2>2 DEF V
<1>. QED BY <1>5 DEF IntelligenceSaves, WalletsIInv

LEMMA ReverseBegins ==
    ASSUME WalletsIInv, NEW p \in Procs, ReverseStarts(p)
    PROVE  WalletsIInv'
<1>1. PICK found \in SUBSET Tokens :
        \E price \in [found -> Prices] :
          /\ Begins(p, "reverse", found, price)
          /\ target' = Upsert([k \in found |-> NewTarget], target)
          /\ UNCHANGED <<intel, elite, perf, survival>>
  BY DEF ReverseStarts
<1>2. PICK price \in [found -> Prices] :
        /\ Begins(p, "reverse", found, price)
        /\ target' = Upsert([k \in found |-> NewTarget], target)
        /\ UNCHANGED <<intel, elite, perf, survival>>
  BY <1>1
<1>. DEFINE new == [k \in found |-> NewTarget]
<1>3. TargetRows(new, DOMAIN perf)
  <2>1. \A k \in found : new[k].status = "DISCOVERED"
    BY DEF NewTarget
  <2>2. DOMAIN new = found
    OBVIOUS
  <2>. HIDE DEF new
  <2>. QED BY <2>1, <2>2 DEF TargetRows, TargetRowOK
<1>4. TargetRows(target, DOMAIN perf) /\ target' = Upsert(new, target)
  BY <1>2 DEF WalletsIInv
<1>. HIDE DEF new
<1>5. TargetRows(target', DOMAIN perf)
  BY <1>3, <1>4, UpsertTargets
<1>. DEFINE r == [job |-> "reverse", todo |-> found, read |-> price]
<1>6. /\ r.job = "reverse" /\ r.todo = found /\ r.read = price
      /\ r = [job |-> r.job, todo |-> r.todo, read |-> r.read]
  OBVIOUS
<1>. HIDE DEF r
<1>7. ProcOK(r, DOMAIN elite)
  <2>1. \A k \in found : price[k] \in Nat
    BY PricesAssumption
  <2>. QED BY <1>6, <2>1 DEF ProcOK
<1>. QED BY <1>2, <1>5, <1>7, ServiceBegins DEF r

LEMMA ReverseKept ==
    ASSUME WalletsIInv, NEW p \in Procs, NEW k \in Tokens, ReverseAnalyzes(p, k)
    PROVE  WalletsIInv'
<1>. DEFINE price == proc[p].read[k]
            new == [x \in {k} |-> AnalyzedTarget(k, price)]
            r == [proc[p] EXCEPT !.todo = @ \ {k}]
<1>1. /\ Writes /\ price \in Nat
      /\ GainedAtLeast(k, price, MinProfit) \X {k} \X {"reverse_profit_discovery"}
           \subseteq DOMAIN perf'
  BY ReverseWrites
<1>2. TargetRows(target, DOMAIN perf') /\ DOMAIN perf' \in SUBSET Keys
  BY <1>1, WritesKeepTargets
<1>3. TargetRows(new, DOMAIN perf')
  <2>. HIDE DEF price
  <2>1. TargetRowOK(AnalyzedTarget(k, price), k, DOMAIN perf')
    BY <1>1, <1>2, AnalyzedCounts
  <2>2. DOMAIN new = {k} /\ new[k] = AnalyzedTarget(k, price)
    OBVIOUS
  <2>. HIDE DEF new
  <2>. QED BY <2>1, <2>2 DEF TargetRows
<1>4. /\ target' = Upsert(new, target) /\ proc[p].job = "reverse"
      /\ UNCHANGED <<intel, survival, starts>>
  BY DEF ReverseAnalyzes
<1>5. proc' = [proc EXCEPT ![p] = r]
  BY DEF ReverseAnalyzes
<1>. HIDE DEF new
<1>6. TargetRows(target', DOMAIN perf')
  BY <1>2, <1>3, <1>4, UpsertTargets
<1>7. ProcOK(r, DOMAIN elite)
  <2>1. ProcOK(proc[p], DOMAIN elite)
    BY DEF WalletsIInv, ProcsOK
  <2>. QED BY <1>4, <2>1, LessTodo
<1>. HIDE DEF r
<1>. QED BY <1>1, <1>4, <1>5, <1>6, <1>7, TablesWritten

LEMMA AuditKept ==
    ASSUME WalletsIInv, NEW p \in Procs, NEW w \in Accounts, AuditsWallet(p, w)
    PROVE  WalletsIInv'
<1>. DEFINE r == [proc[p] EXCEPT !.todo = @ \ {w}]
<1>1. Writes
  BY AuditWrites
<1>2. /\ proc[p].job = "audit" /\ UNCHANGED <<intel, target, survival, starts>>
      /\ proc' = [proc EXCEPT ![p] = r]
  BY DEF AuditsWallet
<1>3. ProcOK(r, DOMAIN elite)
  <2>1. ProcOK(proc[p], DOMAIN elite)
    BY DEF WalletsIInv, ProcsOK
  <2>. QED BY <1>2, <2>1, LessTodo
<1>. HIDE DEF r
<1>4. TargetRows(target', DOMAIN perf')
  BY <1>1, <1>2, WritesKeepTargets
<1>. QED BY <1>1, <1>2, <1>3, <1>4, TablesWritten

LEMMA DiscoveryKept ==
    ASSUME WalletsIInv, NEW p \in Procs, DiscoverySaves(p)
    PROVE  WalletsIInv'
<1>1. Writes
  BY DiscoveryWrites
<1>2. UNCHANGED <<intel, target, survival, starts>> /\ proc' = [proc EXCEPT ![p] = Idle]
  BY DEF DiscoverySaves, Ends
<1>3. TargetRows(target', DOMAIN perf')
  BY <1>1, <1>2, WritesKeepTargets
<1>. QED BY <1>1, <1>2, <1>3, IdleOK, TablesWritten

LEMMA RefreshKept ==
    ASSUME WalletsIInv, NEW p \in Procs, RefreshSaves(p)
    PROVE  WalletsIInv'
<1>1. PerfRows(perf', DOMAIN elite) /\ DOMAIN perf' = DOMAIN perf
  BY RefreshWrites
<1>2. /\ UNCHANGED <<intel, elite, target, survival, starts>>
      /\ proc' = [proc EXCEPT ![p] = Idle]
  BY DEF RefreshSaves, Ends
<1>3. Writes
  BY <1>1, <1>2 DEF WalletsIInv, Writes
<1>4. TargetRows(target', DOMAIN perf')
  BY <1>2, <1>3, WritesKeepTargets
<1>. QED BY <1>2, <1>3, <1>4, IdleOK, TablesWritten

\* A profile is made of trades, and a trade has its wallet.
LEMMA SurvivalBegins ==
    ASSUME WalletsIInv, NEW p \in Procs, SurvivalReads(p)
    PROVE  WalletsIInv'
<1>. DEFINE wallets == {w \in Accounts : DOMAIN SurvivalTrades(w) # {}}
            read == [w \in wallets |-> build_survival_profile(SurvivalTrades(w))]
            r == [job |-> "survival", todo |-> {}, read |-> read]
<1>1. /\ Begins(p, "survival", {}, read) /\ UNCHANGED <<intel, elite, perf, target, survival>>
  BY DEF SurvivalReads
<1>2. ASSUME NEW w \in wallets PROVE w \in DOMAIN elite
  <2>1. PICK key \in DOMAIN perf : key[1] = w
    BY DEF SurvivalTrades, RowsOf
  <2>. QED BY <2>1 DEF WalletsIInv, PerfRows
<1>3. DOMAIN read \subseteq DOMAIN elite
  BY <1>2
<1>. HIDE DEF read
<1>4. /\ r.job = "survival" /\ r.todo = {} /\ r.read = read
      /\ r = [job |-> r.job, todo |-> r.todo, read |-> r.read]
  OBVIOUS
<1>. HIDE DEF r
<1>5. ProcOK(r, DOMAIN elite)
  BY <1>3, <1>4 DEF ProcOK
<1>6. TargetRows(target', DOMAIN perf)
  BY <1>1 DEF WalletsIInv
<1>. QED BY <1>1, <1>5, <1>6, ServiceBegins DEF r

LEMMA SurvivalKept ==
    ASSUME WalletsIInv, NEW p \in Procs, SurvivalSaves(p)
    PROVE  WalletsIInv'
<1>1. /\ proc[p].job = "survival" /\ survival' = Upsert(proc[p].read, survival)
      /\ proc' = [proc EXCEPT ![p] = Idle]
      /\ UNCHANGED <<intel, elite, perf, target, starts>>
  BY DEF SurvivalSaves, Ends
<1>2. ProcsOK(proc, DOMAIN elite)
  BY DEF WalletsIInv
<1>3. DOMAIN proc[p].read \subseteq DOMAIN elite
  BY <1>1, <1>2 DEF ProcsOK, ProcOK
<1>4. DOMAIN survival' \subseteq DOMAIN elite
  BY <1>1, <1>3, UpsertRows DEF WalletsIInv
<1>5. ProcsOK([proc EXCEPT ![p] = Idle], DOMAIN elite)
  BY <1>2, IdleOK, ProcessSet
<1>. QED BY <1>1, <1>4, <1>5 DEF WalletsIInv

LEMMA ReaderBegins ==
    ASSUME WalletsIInv, NEW p \in Procs, NEW job \in {"discovery", "audit", "refresh"},
           NEW todo, NEW read, Begins(p, job, todo, read),
           job = "discovery" => todo = {}, job = "audit" => todo \subseteq Accounts,
           job = "refresh" => todo \subseteq Tokens,
           UNCHANGED <<intel, elite, perf, target, survival>>
    PROVE  WalletsIInv'
<1>. DEFINE r == [job |-> job, todo |-> todo, read |-> read]
<1>1. /\ r.job = job /\ r.todo = todo /\ r.read = read
      /\ r = [job |-> r.job, todo |-> r.todo, read |-> r.read]
  OBVIOUS
<1>. HIDE DEF r
<1>2. ProcOK(r, DOMAIN elite)
  BY <1>1 DEF ProcOK
<1>3. TargetRows(target', DOMAIN perf)
  BY DEF WalletsIInv
<1>. QED BY <1>2, <1>3, ServiceBegins DEF r

LEMMA OtherReads ==
    ASSUME WalletsIInv, NEW p \in Procs, DiscoveryReads(p) \/ AuditReads(p) \/ RefreshReads(p)
    PROVE  WalletsIInv'
<1>1. CASE DiscoveryReads(p)
  BY <1>1, ReaderBegins DEF DiscoveryReads
<1>2. CASE AuditReads(p)
  <2>1. PICK best \in SUBSET Auditable :
          /\ Begins(p, "audit", best, <<>>)
          /\ UNCHANGED <<intel, elite, perf, target, survival>>
    BY <1>2 DEF AuditReads
  <2>2. best \subseteq Accounts
    BY DEF Auditable, WalletsIInv, EliteRows
  <2>. QED BY <2>1, <2>2, ReaderBegins
<1>3. CASE RefreshReads(p)
  <2>. DEFINE tokens == {key[2] : key \in DOMAIN perf}
  <2>1. tokens \subseteq Tokens
    BY DEF WalletsIInv, PerfRows, Keys
  <2>2. /\ Begins(p, "refresh", tokens, <<>>)
        /\ UNCHANGED <<intel, elite, perf, target, survival>>
    BY <1>3 DEF RefreshReads
  <2>. HIDE DEF tokens
  <2>. QED BY <2>1, <2>2, ReaderBegins
<1>. QED BY <1>1, <1>2, <1>3

LEMMA EndKept ==
    ASSUME WalletsIInv, NEW p \in Procs, ServiceEnds(p) \/ ServiceFails(p)
    PROVE  WalletsIInv'
<1>1. /\ UNCHANGED <<intel, elite, perf, target, survival, starts>>
      /\ proc' = [proc EXCEPT ![p] = Idle]
  BY DEF ServiceEnds, ServiceFails, Ends
<1>2. Writes
  BY <1>1, NothingWritten
<1>3. TargetRows(target', DOMAIN perf')
  BY <1>1 DEF WalletsIInv
<1>. QED BY <1>1, <1>2, <1>3, IdleOK, TablesWritten

LEMMA WalletsStep == WalletsIInv /\ [WalletsNext]_walletVars => WalletsIInv'
<1>. SUFFICES ASSUME WalletsIInv, [WalletsNext]_walletVars PROVE WalletsIInv'
  OBVIOUS
<1>1. CASE UNCHANGED walletVars
  BY <1>1 DEF walletVars, WalletsIInv
<1>2. CASE \E w \in Holders, k \in Tokens : IntelligenceSaves(w, k)
  BY <1>2, IntelligenceKept
<1>3. ASSUME NEW p \in Procs, DiscoveryReads(p) \/ AuditReads(p) \/ RefreshReads(p)
      PROVE  WalletsIInv'
  BY <1>3, OtherReads
<1>4. ASSUME NEW p \in Procs, DiscoverySaves(p) PROVE WalletsIInv'
  BY <1>4, DiscoveryKept
<1>5. ASSUME NEW p \in Procs, ReverseStarts(p) PROVE WalletsIInv'
  BY <1>5, ReverseBegins
<1>6. ASSUME NEW p \in Procs, NEW k \in Tokens, ReverseAnalyzes(p, k) PROVE WalletsIInv'
  BY <1>6, ReverseKept
<1>7. ASSUME NEW p \in Procs, NEW w \in Accounts, AuditsWallet(p, w) PROVE WalletsIInv'
  BY <1>7, AuditKept
<1>8. ASSUME NEW p \in Procs, ServiceEnds(p) \/ ServiceFails(p) PROVE WalletsIInv'
  BY <1>8, EndKept
<1>9. ASSUME NEW p \in Procs, RefreshSaves(p) PROVE WalletsIInv'
  BY <1>9, RefreshKept
<1>10. ASSUME NEW p \in Procs, SurvivalReads(p) PROVE WalletsIInv'
  BY <1>10, SurvivalBegins
<1>11. ASSUME NEW p \in Procs, SurvivalSaves(p) PROVE WalletsIInv'
  BY <1>11, SurvivalKept
<1>. QED BY <1>1, <1>2, <1>3, <1>4, <1>5, <1>6, <1>7, <1>8, <1>9, <1>10, <1>11 DEF WalletsNext

\* A target that is not analysed is still to be, or was left by a failed run.
Pending(k) == k \in cut \/ \E p \in Procs : proc[p].job = "reverse" /\ k \in proc[p].todo
Unfinished ==
    /\ cut \subseteq Tokens
    /\ \A k \in DOMAIN target : target[k].status # "ANALYZED" => Pending(k)

\* What every service but the reverse discovery leaves alone.
LEMMA OtherServices ==
    ASSUME ProcsOK(proc, DOMAIN elite), Unfinished, cut' = cut, target' = target,
           NEW p \in Procs, NEW r, proc' = [proc EXCEPT ![p] = r],
           proc[p].job # "reverse" \/ proc[p].todo = {}
    PROVE  Unfinished'
<1>. SUFFICES ASSUME NEW k \in DOMAIN target, target[k].status # "ANALYZED"
              PROVE  Pending(k)'
  BY DEF Unfinished
<1>1. CASE k \in cut
  BY <1>1 DEF Pending
<1>2. ASSUME NEW q \in Procs, proc[q].job = "reverse", k \in proc[q].todo
      PROVE  Pending(k)'
  <2>1. q # p
    BY <1>2
  <2>2. proc'[q] = proc[q]
    BY <2>1 DEF ProcsOK
  <2>. QED BY <1>2, <2>2 DEF Pending
<1>. QED BY <1>1, <1>2 DEF Unfinished, Pending

LEMMA ReverseStartPends ==
    ASSUME WalletsIInv, Unfinished, NEW p \in Procs, ReverseStarts(p)
    PROVE  Unfinished'
<1>1. PICK found \in SUBSET Tokens : \E price \in [found -> Prices] :
        /\ Begins(p, "reverse", found, price)
        /\ target' = Upsert([k \in found |-> NewTarget], target)
        /\ cut' = cut
  BY DEF ReverseStarts
<1>2. PICK price \in [found -> Prices] :
        /\ Begins(p, "reverse", found, price)
        /\ target' = Upsert([k \in found |-> NewTarget], target)
        /\ cut' = cut
  BY <1>1
<1>3. /\ proc[p].job = "idle"
      /\ proc' = [proc EXCEPT ![p] = [job |-> "reverse", todo |-> found, read |-> price]]
      /\ ProcsOK(proc, DOMAIN elite)
  BY <1>2 DEF Begins, WalletsIInv
<1>4. /\ proc'[p].job = "reverse" /\ proc'[p].todo = found
      /\ \A q \in Procs : q # p => proc'[q] = proc[q]
  BY <1>3 DEF ProcsOK
<1>5. DOMAIN target' = found \cup DOMAIN target
      /\ \A k \in DOMAIN target : k \notin found => target'[k] = target[k]
  BY <1>2 DEF Upsert
<1>6. ASSUME NEW k \in DOMAIN target', target'[k].status # "ANALYZED"
      PROVE  Pending(k)'
  <2>1. CASE k \in found
    BY <1>4, <2>1 DEF Pending
  <2>2. CASE k \notin found
    <3>1. k \in DOMAIN target /\ target[k].status # "ANALYZED"
      BY <1>5, <1>6, <2>2
    <3>2. Pending(k)
      BY <3>1 DEF Unfinished
    <3>. QED BY <1>2, <1>3, <1>4, <3>2 DEF Pending
  <2>. QED BY <2>1, <2>2
<1>. QED BY <1>2, <1>6 DEF Unfinished

LEMMA AnalyzePends ==
    ASSUME WalletsIInv, Unfinished, NEW p \in Procs, NEW k \in Tokens, ReverseAnalyzes(p, k)
    PROVE  Unfinished'
<1>. DEFINE done == AnalyzedTarget(k, proc[p].read[k])
<1>1. /\ target' = Upsert([x \in {k} |-> done], target)
      /\ proc' = [proc EXCEPT ![p].todo = @ \ {k}] /\ cut' = cut \ {k}
      /\ ProcsOK(proc, DOMAIN elite)
  BY DEF ReverseAnalyzes, WalletsIInv
<1>2. done.status = "ANALYZED"
  BY DEF AnalyzedTarget
<1>. HIDE DEF done
<1>3. /\ DOMAIN target' = {k} \cup DOMAIN target /\ target'[k] = done
      /\ \A x \in DOMAIN target : x # k => target'[x] = target[x]
  BY <1>1 DEF Upsert
<1>4. \A q \in Procs : /\ proc'[q].job = proc[q].job
                       /\ \A x \in proc[q].todo : x # k => x \in proc'[q].todo
  <2>. SUFFICES ASSUME NEW q \in Procs
                PROVE  /\ proc'[q].job = proc[q].job
                       /\ \A x \in proc[q].todo : x # k => x \in proc'[q].todo
    OBVIOUS
  <2>1. CASE q # p
    BY <1>1, <2>1 DEF ProcsOK
  <2>2. CASE q = p
    <3>1. /\ proc[p] = [job |-> proc[p].job, todo |-> proc[p].todo, read |-> proc[p].read]
          /\ p \in DOMAIN proc
      BY <1>1 DEF ProcsOK, ProcOK
    <3>2. proc'[p] = [proc[p] EXCEPT !.todo = @ \ {k}]
      BY <1>1, <3>1
    <3>3. proc'[p].job = proc[p].job /\ proc'[p].todo = proc[p].todo \ {k}
      BY <3>1, <3>2
    <3>. QED BY <2>2, <3>3
  <2>. QED BY <2>1, <2>2
<1>5. ASSUME NEW x \in DOMAIN target', target'[x].status # "ANALYZED" PROVE Pending(x)'
  <2>1. x # k /\ x \in DOMAIN target /\ target[x].status # "ANALYZED"
    BY <1>2, <1>3, <1>5
  <2>. QED BY <1>1, <1>4, <2>1 DEF Unfinished, Pending
<1>. QED BY <1>1, <1>5 DEF Unfinished

LEMMA FailurePends ==
    ASSUME WalletsIInv, Unfinished, NEW p \in Procs, ServiceFails(p)
    PROVE  Unfinished'
<1>1. /\ proc' = [proc EXCEPT ![p] = Idle] /\ target' = target
      /\ cut' = IF proc[p].job = "reverse" THEN cut \cup proc[p].todo ELSE cut
      /\ ProcsOK(proc, DOMAIN elite)
  BY DEF ServiceFails, Ends, WalletsIInv
<1>2. CASE proc[p].job # "reverse"
  BY <1>1, <1>2, OtherServices
<1>3. CASE proc[p].job = "reverse"
  <2>1. proc[p].todo \subseteq Tokens
    BY <1>1, <1>3 DEF ProcsOK, ProcOK
  <2>2. \A q \in Procs : q # p => proc'[q] = proc[q]
    BY <1>1 DEF ProcsOK
  <2>3. ASSUME NEW k \in DOMAIN target, target[k].status # "ANALYZED" PROVE Pending(k)'
    BY <1>1, <1>3, <2>2, <2>3 DEF Unfinished, Pending
  <2>. QED BY <1>1, <1>3, <2>1, <2>3 DEF Unfinished
<1>. QED BY <1>2, <1>3

LEMMA UnfinishedStep ==
    WalletsIInv /\ Unfinished /\ [WalletsNext]_walletVars => Unfinished'
<1>. SUFFICES ASSUME WalletsIInv, Unfinished, [WalletsNext]_walletVars PROVE Unfinished'
  OBVIOUS
<1>0. ProcsOK(proc, DOMAIN elite)
  BY DEF WalletsIInv
<1>1. CASE UNCHANGED walletVars
  BY <1>1 DEF walletVars, Unfinished, Pending
<1>2. CASE \E w \in Holders, k \in Tokens : IntelligenceSaves(w, k)
  BY <1>2 DEF IntelligenceSaves, Unfinished, Pending
<1>3. ASSUME NEW p \in Procs,
             DiscoveryReads(p) \/ AuditReads(p) \/ RefreshReads(p) \/ SurvivalReads(p)
      PROVE  Unfinished'
  <2>1. /\ proc[p].job = "idle" /\ cut' = cut /\ target' = target
        /\ \E r : proc' = [proc EXCEPT ![p] = r]
    BY <1>3 DEF DiscoveryReads, AuditReads, RefreshReads, SurvivalReads, Begins
  <2>. QED BY <1>0, <2>1, OtherServices
<1>4. ASSUME NEW p \in Procs,
             DiscoverySaves(p) \/ RefreshSaves(p) \/ SurvivalSaves(p) \/ ServiceEnds(p)
      PROVE  Unfinished'
  <2>1. /\ proc[p].job # "reverse" \/ proc[p].todo = {}
        /\ cut' = cut /\ target' = target /\ proc' = [proc EXCEPT ![p] = Idle]
    BY <1>4 DEF DiscoverySaves, RefreshSaves, SurvivalSaves, ServiceEnds, Ends
  <2>. QED BY <1>0, <2>1, OtherServices
<1>5. ASSUME NEW p \in Procs, NEW w \in Accounts, AuditsWallet(p, w) PROVE Unfinished'
  <2>1. /\ proc[p].job = "audit" /\ cut' = cut /\ target' = target
        /\ proc' = [proc EXCEPT ![p] = [proc[p] EXCEPT !.todo = @ \ {w}]]
    BY <1>5 DEF AuditsWallet
  <2>. QED BY <1>0, <2>1, OtherServices
<1>6. ASSUME NEW p \in Procs, ReverseStarts(p) PROVE Unfinished'
  BY <1>6, ReverseStartPends
<1>7. ASSUME NEW p \in Procs, NEW k \in Tokens, ReverseAnalyzes(p, k) PROVE Unfinished'
  BY <1>7, AnalyzePends
<1>8. ASSUME NEW p \in Procs, ServiceFails(p) PROVE Unfinished'
  BY <1>8, FailurePends
<1>. QED BY <1>1, <1>2, <1>3, <1>4, <1>5, <1>6, <1>7, <1>8 DEF WalletsNext

LEMMA WalletsInvariant == WalletsSpec => [](WalletsIInv /\ Unfinished)
<1>1. WalletsInit => Unfinished
  BY DEF WalletsInit, Empty, Unfinished
<1>. QED BY <1>1, WalletsInitially, WalletsStep, UnfinishedStep, PTL DEF WalletsSpec

-----------------------------------------------------------------------------
(***************************************************************************)
(* The theorems about the whale tables.                                    *)
(***************************************************************************)
\* What every run and every interleaving of the services leaves in the tables
\* has the right shape: scores between 0 and 10000, wallets that are excluded
\* as bots and only those marked so, and at most one number in each column.
THEOREM TablesTyped == WalletsSpec => []WalletsTypeOK
<1>1. WalletsIInv /\ Unfinished => WalletsTypeOK
  <2>. SUFFICES ASSUME WalletsIInv, Unfinished PROVE WalletsTypeOK
    OBVIOUS
  <2>1. \A w \in DOMAIN elite : EliteOK(elite[w])
    BY DEF WalletsIInv, EliteRows
  <2>2. ASSUME NEW key \in DOMAIN perf
        PROVE  /\ perf[key].spent \in Nat /\ perf[key].received \in Nat
               /\ \A x \in {perf[key].pnl, perf[key].roi, perf[key].fresh} : AtMostOne(x)
    <3>1. TrackedOK(perf[key], Origin(key)) /\ Origin(key) \in Position
      BY OriginType DEF WalletsIInv, PerfRows
    <3>2. /\ perf[key].spent = Origin(key).spent
          /\ perf[key].received = Origin(key).received
          /\ Maybe(perf[key].pnl) /\ Maybe(perf[key].roi) /\ Maybe(perf[key].fresh)
      BY <3>1 DEF TrackedOK, Fits, Rated
    <3>. QED BY <3>1, <3>2, PositionFields, FiniteMaybe
  <2>3. ASSUME NEW p \in Procs
        PROVE  /\ proc[p].job \in {"idle", "discovery", "survival"} => proc[p].todo = {}
               /\ proc[p].job = "audit" => proc[p].todo \subseteq Accounts
               /\ proc[p].job \in {"reverse", "refresh"} => proc[p].todo \subseteq Tokens
    BY DEF WalletsIInv, ProcsOK, ProcOK
  <2>4. /\ DOMAIN elite \subseteq Accounts /\ DOMAIN perf \subseteq Keys
        /\ DOMAIN target \subseteq Tokens /\ DOMAIN survival \subseteq Accounts
        /\ intel \in [Accounts -> [Tokens -> 0..MaxRows]] /\ starts \in 0..MaxStarts
        /\ cut \subseteq Tokens
    BY DEF WalletsIInv, Unfinished, EliteRows, PerfRows, TargetRows
  <2>. QED BY <2>1, <2>2, <2>3, <2>4 DEF WalletsTypeOK, EliteOK
<1>. QED BY <1>1, WalletsInvariant, PTL

\* No service, whatever it is interleaved with and wherever it stops, leaves a
\* trade or a survival profile of a wallet that elite_wallets does not have.
THEOREM EvidenceOwned == WalletsSpec => []EvidenceHasItsWallet
<1>1. WalletsIInv => EvidenceHasItsWallet
  BY DEF WalletsIInv, PerfRows, EvidenceHasItsWallet
<1>. QED BY <1>1, WalletsInvariant, PTL

\* The reverse discovery never claims to have promoted more wallets of a token
\* than it made a profit for, and has a row of the tracking table for each; and
\* a target it has not analysed is on the list of a run or was left by a failure.
THEOREM TargetsBacked == WalletsSpec => []AnalyzedTargetHasRows
<1>1. WalletsIInv /\ Unfinished => AnalyzedTargetHasRows
  <2>. SUFFICES ASSUME WalletsIInv, Unfinished, NEW k \in DOMAIN target
                PROVE  IF target[k].status = "ANALYZED"
                       THEN /\ target[k].promoted <= target[k].profitable
                            /\ target[k].profitable <= target[k].checked
                            /\ target[k].promoted <= Cardinality({key \in DOMAIN perf :
                                 key[2] = k /\ key[3] = "reverse_profit_discovery"})
                       ELSE Pending(k)
    BY DEF AnalyzedTargetHasRows, Pending
  <2>1. CASE target[k].status = "ANALYZED"
    BY <2>1 DEF WalletsIInv, TargetRows, TargetRowOK, ReverseKeys
  <2>2. CASE target[k].status # "ANALYZED"
    BY <2>2 DEF Unfinished
  <2>. QED BY <2>1, <2>2
<1>. QED BY <1>1, WalletsInvariant, PTL

\* A row of a position of which enough came back is no rug, whichever service
\* wrote it and whatever a refresh put in its place.
LEMMA ReturnedIsNoRug ==
    ASSUME NEW row, NEW p \in Position, TrackedOK(row, p), Returned(p)
    PROVE  ~is_rugged_trade(SurvivalTrade(row))
<1>. DEFINE t == SurvivalTrade(row)
<1>1. /\ row.spent = p.spent /\ row.received = p.received
      /\ Fits(row.pnl, p) /\ Rated(row.roi, p) /\ Fits(row.fresh, p)
  BY DEF TrackedOK
<1>2. /\ t.spent = p.spent /\ t.received = p.received /\ t.roi = row.roi
      /\ t.pnl = IF row.fresh # {} THEN row.fresh ELSE row.pnl
  BY <1>1 DEF SurvivalTrade
<1>. HIDE DEF t
<1>3. Fits(t.pnl, p) /\ Rated(t.roi, p)
  BY <1>1, <1>2
<1>4. /\ p.spent \in Nat \ {0} /\ p.received \in Nat
      /\ 20 * p.received > 11 * p.spent
  BY PositionFields DEF Returned
<1>. DEFINE n == NumberOr(t.pnl, 0)
<1>5. t.pnl # {} => n \in Int /\ n >= p.received - p.spent
  BY <1>3 DEF Fits, Maybe, NumberOr
<1>. HIDE DEF n
<1>. DEFINE roi == IF t.roi # {} THEN NumberOr(t.roi, 0)
                   ELSE IF t.pnl # {} THEN Percent(n, t.spent)
                   ELSE 0
            value == IF t.pnl # {} THEN t.received + n ELSE 0
<1>6. roi \in Int /\ roi > -90
  <2>1. CASE t.roi # {}
    <3>1. NumberOr(t.roi, 0) \in Int /\ NumberOr(t.roi, 0) > -90
      BY <1>3, <2>1 DEF Rated, Maybe, NumberOr
    <3>. QED BY <2>1, <3>1
  <2>2. CASE t.roi = {} /\ t.pnl # {}
    <3>1. n \in Int /\ 10 * n > -9 * p.spent
      BY <1>4, <1>5, <2>2
    <3>2. roi = Percent(n, p.spent)
      BY <1>2, <2>2
    <3>. HIDE DEF roi
    <3>3. Percent(n, p.spent) \in Int /\ Percent(n, p.spent) > -90
      BY <1>4, <3>1, PercentType
    <3>. QED BY <3>2, <3>3
  <2>3. CASE t.roi = {} /\ t.pnl = {}
    BY <2>3
  <2>. QED BY <2>1, <2>2, <2>3
<1>7. value \in Int /\ (value > 0 => 10 * value > t.spent)
  <2>1. CASE t.pnl # {}
    <3>1. value = p.received + n
      BY <1>2, <2>1
    <3>. HIDE DEF value
    <3>. QED BY <1>2, <1>4, <1>5, <2>1, <3>1
  <2>2. CASE t.pnl = {}
    BY <2>2
  <2>. QED BY <2>1, <2>2
<1>8. is_rugged_trade(t) <=> (roi =< -90 \/ (value > 0 /\ 10 * value =< t.spent))
  BY DEF is_rugged_trade, n
<1>. HIDE DEF roi, value
<1>9. t.spent \in Nat
  BY <1>2, <1>4
<1>10. ~is_rugged_trade(t)
  BY <1>6, <1>7, <1>8, <1>9
<1>. QED BY <1>10 DEF t

\* Whatever the services and the prices made of a position, it counts against
\* its wallet as a rug only if at most 55% of what was spent came back.
THEOREM RugsJustified == WalletsSpec => []RugsReturnedLittle
<1>1. WalletsIInv => RugsReturnedLittle
  <2>. SUFFICES ASSUME WalletsIInv, NEW key \in DOMAIN perf, perf[key].spent > 0,
                       is_rugged_trade(SurvivalTrade(perf[key]))
                PROVE  20 * Origin(key).received =< 11 * Origin(key).spent
    BY DEF RugsReturnedLittle, Origin
  <2>. DEFINE p == Origin(key)
  <2>1. TrackedOK(perf[key], p) /\ p \in Position
    BY OriginType DEF WalletsIInv, PerfRows
  <2>. HIDE DEF p
  <2>2. ~Returned(p)
    BY <2>1, ReturnedIsNoRug
  <2>3. perf[key].spent = p.spent /\ p.received \in Nat /\ p.spent \in Nat
    BY <2>1, PositionFields DEF TrackedOK
  <2>4. 20 * p.received =< 11 * p.spent
    BY <2>2, <2>3 DEF Returned
  <2>. QED BY <2>4 DEF p
<1>. QED BY <1>1, WalletsInvariant, PTL
=============================================================================
