---------------------------- MODULE WhaleWebhook ----------------------------
(***************************************************************************)
(* The webhook at Helius that reports what the whale wallets do, and the   *)
(* synchronisation that creates or updates it and keeps its id in          *)
(* whale_webhook_configs.  A synchronisation is a request to the server    *)
(* or a command: two may overlap, and each may end at any of its awaits.   *)
(***************************************************************************)
EXTENDS Naturals, Sequences, FiniteSets

CONSTANTS
    Wallets,
    Known,        \* wallets in elite_wallets when the server starts
    Syncs,        \* requests and commands that synchronise
    MaxSyncs,     \* bound on the synchronisations started
    MaxFaults,    \* bound on errors, lost answers and restarts
    MaxChanges    \* bound on the changes of the wallets' profiles

ASSUME KnownAssumption == Known \subseteq Wallets
ASSUME SyncsAssumption == IsFiniteSet(Syncs)
ASSUME BoundsAssumption ==
    MaxSyncs \in Nat /\ MaxFaults \in Nat /\ MaxChanges \in Nat

VARIABLES
    profile,   \* what elite_wallets and whale_survival_profiles say of each
    tainted,   \* wallets that were bots or risky at some time (history)
    changes,   \* profile changes so far
    hooks,     \* at Helius: the wallets each webhook watches, by its id
    config,    \* whale_webhook_configs: the wallets saved for each webhook_id
    newest,    \* the webhook_id of its row that was updated last
    sync,      \* what each synchronisation has read
    started,   \* synchronisations so far
    overlaps,  \* those that began while another one ran (history)
    faults     \* errors, lost answers and restarts so far

whales == <<profile, tainted, changes>>
webhook == <<hooks, config, newest, sync, started, overlaps>>

Profiles == {"unknown", "clean", "risky", "bot"}
NoSync == [pc |-> "idle", list |-> {}, id |-> 0, alone |-> TRUE]

WebhookInit ==
    /\ profile = [w \in Wallets |-> IF w \in Known THEN "clean" ELSE "unknown"]
    /\ tainted = {} /\ changes = 0
    /\ hooks = <<>> /\ config = [i \in {} |-> {}] /\ newest = 0
    /\ sync = [s \in Syncs |-> NoSync]
    /\ started = 0 /\ overlaps = 0 /\ faults = 0

\* The services of WhaleWallets discover a wallet or judge it again.
ProfileChanges(w, p) ==
    /\ changes < MaxChanges
    /\ profile[w] # p
    /\ profile' = [profile EXCEPT ![w] = p]
    /\ tainted' = IF p = "clean" THEN tainted ELSE tainted \union {w}
    /\ changes' = changes + 1
    /\ UNCHANGED <<webhook, faults>>

-----------------------------------------------------------------------------
(***************************************************************************)
(* POST /api/whale-radar/sync-webhook                                      *)
(***************************************************************************)
fetch_elite_wallet_addresses == {w \in Wallets : profile[w] \in {"clean", "risky"}}

Active(s) == sync[s].pc # "idle"
Overlaps(s) == \E r \in Syncs \ {s} : Active(r)

SyncBegins(s) ==
    /\ ~Active(s) /\ started < MaxSyncs
    /\ fetch_elite_wallet_addresses # {}
    /\ sync' = [r \in Syncs |->
                  IF r = s THEN [pc |-> "config", list |-> fetch_elite_wallet_addresses,
                                 id |-> 0, alone |-> ~Overlaps(s)]
                  ELSE [sync[r] EXCEPT !.alone = FALSE]]
    /\ started' = started + 1
    /\ overlaps' = overlaps + (IF Overlaps(s) THEN 1 ELSE 0)
    /\ UNCHANGED <<whales, hooks, config, newest, faults>>

\* Mutant: the id is read under the name Helius uses, and is never there.
Latest_WrongKey(s) == 0

\* The row that was updated last, none at first.
Latest(s) == newest

ConfigRead(s) ==
    /\ sync[s].pc = "config"
    /\ sync' = [sync EXCEPT ![s].pc = "request", ![s].id = Latest(s)]
    /\ UNCHANGED <<whales, hooks, config, newest, started, overlaps, faults>>

\* Mutant: an update sends the address and the types, and not the wallets.
Sent_KeepsList(id, list) == IF id = 0 THEN Append(hooks, list) ELSE hooks

\* What Helius makes of the request: PUT replaces the list, POST creates.
Sent(id, list) ==
    IF id = 0 THEN Append(hooks, list) ELSE [hooks EXCEPT ![id] = list]

RequestAnswered(s) ==
    /\ sync[s].pc = "request"
    /\ hooks' = Sent(sync[s].id, sync[s].list)
    /\ sync' = [sync EXCEPT ![s].pc = "save", ![s].id = IF @ = 0 THEN Len(hooks') ELSE @]
    /\ UNCHANGED <<whales, config, newest, started, overlaps, faults>>

\* The request arrives, its answer is lost, and request_with_retry repeats it.
AnswerLost(s) ==
    /\ sync[s].pc = "request" /\ faults < MaxFaults
    /\ hooks' = Sent(sync[s].id, sync[s].list)
    /\ faults' = faults + 1
    /\ UNCHANGED <<whales, config, newest, sync, started, overlaps>>

\* INSERT ... ON CONFLICT (webhook_id) DO UPDATE ... updated_at = NOW()
Saved(id, list) ==
    [i \in DOMAIN config \union {id} |-> IF i = id THEN list ELSE config[i]]

ConfigSaved(s) ==
    /\ sync[s].pc = "save"
    /\ config' = Saved(sync[s].id, sync[s].list)
    /\ newest' = sync[s].id
    /\ sync' = [sync EXCEPT ![s] = NoSync]
    /\ UNCHANGED <<whales, hooks, started, overlaps, faults>>

\* The database or Helius answers with an error, or the process ends.
SyncFails(s) ==
    /\ Active(s) /\ faults < MaxFaults
    /\ sync' = [sync EXCEPT ![s] = NoSync]
    /\ faults' = faults + 1
    /\ UNCHANGED <<whales, hooks, config, newest, started, overlaps>>

SyncStep(s) ==
    \/ SyncBegins(s) \/ ConfigRead(s) \/ RequestAnswered(s)
    \/ AnswerLost(s) \/ ConfigSaved(s) \/ SyncFails(s)

WebhookNext ==
    \/ \E w \in Wallets, p \in Profiles \ {"unknown"} : ProfileChanges(w, p)
    \/ \E s \in Syncs : SyncStep(s)
=============================================================================
