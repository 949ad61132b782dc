---------------------------- MODULE WhaleSignals ----------------------------
(***************************************************************************)
(* The signals of the whale wallets: Helius reports a transaction of a     *)
(* watched wallet to POST /api/whale-signal until it is accepted, the      *)
(* handler stores each item of the body and decides whether its token is   *)
(* to be analysed, and the radar page shows the strong ones as alerts.     *)
(* From the queued job on the work is that of ScanJobs.                    *)
(*                                                                         *)
(* Amounts are in hundredths of SOL.                                       *)
(***************************************************************************)
EXTENDS WhaleWebhook

CONSTANTS
    Noise,      \* NOISE_TOKEN_ADDRESSES
    NoToken,    \* a transaction that moves no token of its first account
    Reliable,   \* wallets whose score reaches WHALE_SIGNAL_ALERT_MIN_SCORE_10
    QueueMin,   \* WHALE_SIGNAL_AUTO_ANALYZE_MIN_SOL
    AlertMin,   \* WHALE_SIGNAL_ALERT_MIN_SOL
    Chain,      \* the transactions that may happen
    Requests,   \* webhook requests the server may hold at once
    MaxBody     \* bound on the items of a body

ASSUME MinimaAssumption == QueueMin \in Nat \ {0} /\ AlertMin \in Nat /\ QueueMin =< AlertMin
ASSUME BodyAssumption == MaxBody \in Nat \ {0}
ASSUME ChainAssumption == \A e \in Chain : e.paid \in Nat /\ e.got \in Nat

VARIABLES
    happened,  \* the transactions so far
    due,       \* <<webhook, transaction>> that Helius still has to report
    accepted,  \* transactions in a body that Helius saw answered with 202
    signals,   \* live_whale_signals, by signature
    jobs,      \* whale_signal_analysis_jobs: the signal of each token's row
    decided,   \* tokens with a row in watchlist_decisions
    request    \* each webhook request: its body and the item it is at

store == <<signals, jobs, decided>>
delivery == <<happened, due, accepted>>
vars == <<whales, webhook, faults, delivery, store, request>>

Mints == {e.mint : e \in Chain} \ {NoToken}
NoRequest == [pc |-> "idle", hook |-> 0, body |-> <<>>, at |-> 1]

Init ==
    /\ WebhookInit
    /\ happened = {} /\ due = {} /\ accepted = {}
    /\ signals = [e \in {} |-> {}] /\ jobs = [k \in {} |-> {}] /\ decided = {}
    /\ request = [r \in Requests |-> NoRequest]

-----------------------------------------------------------------------------
(***************************************************************************)
(* What the receiver reads from a transaction: its first account, the      *)
(* account that pays the fee, stands for the wallet.                       *)
(***************************************************************************)
detect_signal_type(e) ==
    LET receives == e.to = e.payer
        gives == e.from = e.payer
    IN  IF receives /\ e.paid > 0 THEN "BUY"
        ELSE IF gives /\ e.got > 0 THEN "SELL"
        ELSE IF receives THEN "TOKEN_IN"
        ELSE IF gives THEN "TOKEN_OUT" ELSE "ACTIVITY"

extract_signal_amount_sol(e) ==
    IF detect_signal_type(e) = "BUY" THEN e.paid
    ELSE IF detect_signal_type(e) = "SELL" THEN e.got ELSE 0

extract_token_address(e) == IF e.payer \in {e.from, e.to} THEN e.mint ELSE NoToken

-----------------------------------------------------------------------------
(***************************************************************************)
(* Helius: a transaction is due once for each webhook that watches one of  *)
(* its accounts, and is reported until it is accepted.                     *)
(***************************************************************************)
Watches(h, e) == {e.payer, e.from, e.to} \intersect hooks[h] # {}

Happens(e) ==
    /\ e \notin happened
    /\ happened' = happened \union {e}
    /\ due' = due \union {<<h, e>> : h \in {i \in DOMAIN hooks : Watches(i, e)}}
    /\ UNCHANGED <<whales, webhook, faults, accepted, store, request>>

Bodies(h) ==
    LET Due == {e \in happened : <<h, e>> \in due}
    IN  {b \in UNION {[1..n -> Due] : n \in 1..MaxBody} :
            \A i, j \in DOMAIN b : b[i] = b[j] => i = j}

Arrives(r, h, b) ==
    /\ request[r].pc = "idle"
    /\ request' = [request EXCEPT ![r] = [pc |-> "save", hook |-> h, body |-> b, at |-> 1]]
    /\ UNCHANGED <<whales, webhook, faults, delivery, store>>

-----------------------------------------------------------------------------
(***************************************************************************)
(* The handler, up to each of its statements.                              *)
(***************************************************************************)
Item(r) == request[r].body[request[r].at]

\* The next item, or the answer after the last one.
NextItem(r) ==
    request' = [request EXCEPT
        ![r].pc = IF request[r].at = Len(request[r].body) THEN "answer" ELSE "save",
        ![r].at = @ + 1]

GoesTo(r, pc) == request' = [request EXCEPT ![r].pc = pc]

NewRow(e) ==
    [tracked |-> e.payer \in Wallets /\ profile[e.payer] # "unknown",
     wallet |-> e.payer, type |-> detect_signal_type(e),
     token |-> extract_token_address(e), amount |-> extract_signal_amount_sol(e)]

\* Mutant: the update on a known signature sets elite_wallet_id as well.
Row_Relinked(e) == NewRow(e)

\* INSERT ... ON CONFLICT (signature) DO UPDATE: a row keeps what it was
\* stored with, its link to elite_wallets included.
Row(e) == IF e \in DOMAIN signals THEN signals[e] ELSE NewRow(e)

\* The mints of the chain are addresses, so that is_valid_solana_address accepts
\* every token but the missing one.
MayQueue(row) ==
    /\ row.type \in {"BUY", "TOKEN_IN"}
    /\ row.token \notin Noise \union {NoToken}
    /\ row.amount >= QueueMin

SignalSaved(r) ==
    LET e == Item(r) IN
    /\ request[r].pc = "save"
    /\ signals' = [x \in DOMAIN signals \union {e} |-> IF x = e THEN Row(e) ELSE signals[x]]
    /\ IF MayQueue(Row(e)) THEN GoesTo(r, "profile") ELSE NextItem(r)
    /\ UNCHANGED <<whales, webhook, faults, delivery, jobs, decided>>

Qualifies(w) == w \in Wallets /\ profile[w] = "clean"

ProfileRead(r) ==
    /\ request[r].pc = "profile"
    /\ IF Qualifies(signals[Item(r)].wallet) THEN GoesTo(r, "decision") ELSE NextItem(r)
    /\ UNCHANGED <<whales, webhook, faults, delivery, store>>

DecisionRead(r) ==
    /\ request[r].pc = "decision"
    /\ IF signals[Item(r)].token \in decided THEN NextItem(r) ELSE GoesTo(r, "job")
    /\ UNCHANGED <<whales, webhook, faults, delivery, store>>

\* INSERT ... ON CONFLICT (token_address) DO UPDATE SET signal_id = COALESCE
JobUpserted(r) ==
    LET k == signals[Item(r)].token IN
    /\ request[r].pc = "job"
    /\ jobs' = [x \in DOMAIN jobs \union {k} |->
                  IF x \in DOMAIN jobs THEN jobs[x] ELSE Item(r)]
    /\ NextItem(r)
    /\ UNCHANGED <<whales, webhook, faults, delivery, signals, decided>>

Answers(r) ==
    LET Items == {request[r].body[i] : i \in DOMAIN request[r].body} IN
    /\ request[r].pc = "answer"
    /\ accepted' = accepted \union Items
    /\ due' = due \ ({request[r].hook} \X Items)
    /\ request' = [request EXCEPT ![r] = NoRequest]
    /\ UNCHANGED <<whales, webhook, faults, happened, store>>

\* Mutant: an item that raises is skipped, and the rest of the body goes on.
RequestFails_Skips(r) ==
    /\ request[r].pc \in {"save", "profile", "decision", "job"} /\ faults < MaxFaults
    /\ NextItem(r)
    /\ faults' = faults + 1
    /\ UNCHANGED <<whales, webhook, delivery, store>>

\* A statement raises and the answer is 400, or the answer 202 is lost.
RequestFails(r) ==
    /\ request[r].pc # "idle" /\ faults < MaxFaults
    /\ request' = [request EXCEPT ![r] = NoRequest]
    /\ faults' = faults + 1
    /\ UNCHANGED <<whales, webhook, delivery, store>>

\* The server ends with its requests and the synchronisations it runs; one
\* that was started from the command line goes on.
Restart ==
    /\ faults < MaxFaults
    /\ request' = [r \in Requests |-> NoRequest]
    /\ \E Ours \in SUBSET Syncs :
           sync' = [s \in Syncs |-> IF s \in Ours THEN NoSync ELSE sync[s]]
    /\ faults' = faults + 1
    /\ UNCHANGED <<whales, hooks, config, newest, started, overlaps, delivery, store>>

\* A scan, a command or a queued job saves a decision.
Decides(k) ==
    /\ k \notin decided
    /\ decided' = decided \union {k}
    /\ UNCHANGED <<whales, webhook, faults, delivery, signals, jobs, request>>

HandlerStep(r) ==
    \/ SignalSaved(r) \/ ProfileRead(r) \/ DecisionRead(r)
    \/ JobUpserted(r) \/ Answers(r) \/ RequestFails(r)

Next ==
    \/ WebhookNext /\ UNCHANGED <<delivery, store, request>>
    \/ \E e \in Chain : Happens(e)
    \/ \E r \in Requests, h \in DOMAIN hooks : \E b \in Bodies(h) : Arrives(r, h, b)
    \/ \E r \in Requests : HandlerStep(r)
    \/ \E k \in Mints : Decides(k)
    \/ Restart

Spec == Init /\ [][Next]_vars

-----------------------------------------------------------------------------
\* The rows, the requests and the webhooks are what the tables can hold.
TypeOK ==
    /\ profile \in [Wallets -> Profiles] /\ tainted \subseteq Wallets
    /\ hooks \in Seq(SUBSET Wallets)
    /\ DOMAIN config \subseteq DOMAIN hooks /\ newest \in {0} \union DOMAIN config
    /\ DOMAIN signals \subseteq happened /\ happened \subseteq Chain
    /\ due \subseteq (DOMAIN hooks) \X happened
    /\ \A k \in DOMAIN jobs : jobs[k] \in DOMAIN signals /\ signals[jobs[k]].token = k
    /\ \A r \in Requests : request[r].at \in 1..(Len(request[r].body) + 1)

\* "Creates or updates one Helius enhanced webhook" (PROJECT_OVERVIEW.md:142):
\* every webhook beyond the first is the work of a fault between the creation
\* and the saved row, or of two synchronisations that overlapped.
HooksCostFaults == Len(hooks) =< 1 + faults + overlaps

\* After a synchronisation that ran alone, the row the next one will update
\* names a webhook that exists at Helius and watches exactly the wallets of that
\* row, whatever faults and overlaps earlier ones left (save_webhook_config).
\* Webhooks that no row names any more keep reporting: HooksCostFaults counts
\* them.
SyncRepairs ==
    [][\A s \in Syncs :
        ConfigSaved(s) /\ sync[s].alone
            => newest' \in DOMAIN hooks /\ hooks'[newest'] = config'[newest'] ]_vars

\* What was answered with 202 is stored, each item of the body: an error in
\* the middle has the whole body sent again (store_whale_signal_payload).
AcceptedIsStored == accepted \subseteq DOMAIN signals

\* fetch_whale_radar: high_signal_alerts.
Alert(e) ==
    LET row == signals[e] IN
    /\ row.type \in {"BUY", "TOKEN_IN"}
    /\ row.amount >= AlertMin
    /\ row.tracked /\ row.wallet \in Reliable
    /\ profile[row.wallet] # "risky"
    /\ row.token \notin Noise \union {NoToken}

\* The radar page and the queue judge a signal by filters of their own and at
\* different times: the token of every alert about a wallet that was never a
\* bot or risky has a job or a decision once the signal was accepted.
AlertsAreQueued ==
    \A e \in accepted :
        Alert(e) /\ signals[e].wallet \notin tainted
            => signals[e].token \in decided \union DOMAIN jobs
=============================================================================
