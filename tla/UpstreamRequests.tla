-------------------------- MODULE UpstreamRequests --------------------------
(***************************************************************************)
(* The clients of DexScreener and Helius: the limiter that spaces the      *)
(* calls of one client, request_with_retry, and what a call returns or     *)
(* raises to its caller in the end.                                        *)
(*                                                                         *)
(* Time passes in ticks of half a second.  A task that sleeps has a timer; *)
(* it goes on when the timer is at 0 or, in a busy loop, some time later.  *)
(***************************************************************************)
EXTENDS Integers, Sequences, FiniteSets

CONSTANTS
    Tasks,            \* coroutines that call
    Clients,          \* client objects, each with a limiter
    Interval,         \* min_request_interval_seconds
    MaxAttempts,      \* max_attempts, 5
    MaxWait,          \* max_wait_seconds
    RetryAfterMax,    \* RETRY_AFTER_MAX_SECONDS
    Hints             \* what Retry-After may say

ASSUME IntervalAssumption == Interval \in Nat /\ MaxAttempts \in Nat \ {0}
ASSUME ClientsAssumption == Clients # {}
ASSUME WaitsAssumption ==
    MaxWait \in Nat \ {0} /\ RetryAfterMax \in Nat /\ Hints \subseteq Nat

VARIABLES
    call,    \* call[t]: the call a task is in
    queue,   \* queue[c]: the tasks at the limiter's lock, its holder first
    since    \* since[c]: the time since _last_request_at

vars == <<call, queue, since>>

\* How a method treats what it gets: the lists of DexScreener, its strict
\* variants, the methods of Helius that answer a list, its RPC.
Kinds == {"lenient", "strict", "list", "rpc"}
Results == {"none", "data", "empty", "unavailable", "refused", "broken"}

\* What one attempt may meet: an answer of the expected form, another form of
\* JSON, or none; an error in the body of an RPC; 429 and 5xx; another 4xx;
\* a timeout or a broken connection.
Answers == {"good", "odd", "garbled", "rpc_error"}

NoCall == [pc |-> "idle", client |-> CHOOSE c \in Clients : TRUE, kind |-> "lenient",
           attempt |-> 0, timer |-> 0, hint |-> 0, failed |-> 0, answered |-> FALSE,
           result |-> "none"]

Init ==
    /\ call = [t \in Tasks |-> NoCall]
    /\ queue = [c \in Clients |-> <<>>]
    /\ since = [c \in Clients |-> Interval]

AtLeast0(x) == IF x < 0 THEN 0 ELSE x
AtMost(x, y) == IF x < y THEN x ELSE y

-----------------------------------------------------------------------------
(***************************************************************************)
(* The limiter.                                                            *)
(***************************************************************************)
Calls(t, c, kind) ==
    /\ call[t].pc = "idle"
    /\ call' = [call EXCEPT ![t] = [NoCall EXCEPT !.pc = "waits", !.client = c,
                                                  !.kind = kind]]
    /\ queue' = [queue EXCEPT ![c] = Append(@, t)]
    /\ UNCHANGED since

Holds(t) == queue[call[t].client] # <<>> /\ Head(queue[call[t].client]) = t

\* Mutant: the lock is not taken, so that all who wait see the same time.
Paces_Unlocked(t) ==
    /\ call[t].pc = "waits"
    /\ call' = [call EXCEPT ![t] = [call[t] EXCEPT !.pc = "paces",
                    !.timer = AtLeast0(Interval - since[call[t].client])]]
    /\ UNCHANGED <<queue, since>>

\* With the lock, sleep for what is left of the interval.
Paces(t) ==
    /\ call[t].pc = "waits"
    /\ Holds(t)
    /\ call' = [call EXCEPT ![t] = [call[t] EXCEPT !.pc = "paces",
                    !.timer = AtLeast0(Interval - since[call[t].client])]]
    /\ UNCHANGED <<queue, since>>

\* Mutant: the lock is not given back.
Sends_KeepsLock(t) ==
    LET c == call[t].client
    IN /\ call[t].pc = "paces"
       /\ call[t].timer = 0
       /\ call' = [call EXCEPT ![t] = [call[t] EXCEPT !.pc = "sent", !.attempt = 1]]
       /\ since' = [since EXCEPT ![c] = 0]
       /\ UNCHANGED queue

\* The holder gives the lock back and sends, all in one step of the loop.
Sends(t) ==
    LET c == call[t].client
    IN /\ call[t].pc = "paces"
       /\ call[t].timer = 0
       /\ call' = [call EXCEPT ![t] = [call[t] EXCEPT !.pc = "sent", !.attempt = 1]]
       /\ queue' = [queue EXCEPT ![c] = Tail(@)]
       /\ since' = [since EXCEPT ![c] = 0]

-----------------------------------------------------------------------------
(***************************************************************************)
(* request_with_retry.                                                     *)
(***************************************************************************)
\* Mutant: a failing client answers a strict caller like a lenient one.
Returned_Swallowed(kind, outcome) ==
    IF outcome = "good" THEN "data"
    ELSE IF outcome \in {"garbled", "rpc_error"} THEN "broken"
    ELSE "empty"

\* What the caller gets: the lenient methods swallow both errors, but not an
\* answer that is no JSON; an error in the body is an error for RPC only.
Returned(kind, outcome) ==
    IF outcome = "good" THEN "data"
    ELSE IF outcome = "garbled" \/ (outcome = "rpc_error" /\ kind = "rpc") THEN "broken"
    ELSE IF outcome \in {"odd", "rpc_error"} \/ kind = "lenient" THEN "empty"
    ELSE outcome

Finishes(t, outcome, answered) ==
    call' = [call EXCEPT ![t] = [call[t] EXCEPT !.pc = "done", !.timer = 0, !.hint = 0,
                !.result = Returned(call[t].kind, outcome), !.answered = answered]]

Answered(t) ==
    /\ call[t].pc = "sent"
    /\ \E answer \in Answers : Finishes(t, answer, TRUE)
    /\ UNCHANGED <<queue, since>>

\* A 4xx other than 429: the retry loop raises it at once.
Refused(t) ==
    /\ call[t].pc = "sent"
    /\ Finishes(t, "refused", TRUE)
    /\ UNCHANGED <<queue, since>>

\* The smaller of max_wait_seconds and the power of two.
Backoff(attempt) ==
    LET power == 2 ^ (attempt - 1) IN IF power \in 0..MaxWait THEN power ELSE MaxWait

\* Mutant: the server's hint is not read.
Wait_NoHint(attempt, hint) == Backoff(attempt)

\* hint is a set of at most one number.
Wait(attempt, hint) ==
    IF hint = {} THEN Backoff(attempt)
    ELSE AtMost(CHOOSE h \in hint : TRUE, RetryAfterMax)

\* The jitter adds up to 0.2 seconds, not always a tick.
Retries(t, hint) ==
    \E jitter \in {0, 1} :
        call' = [call EXCEPT ![t] = [call[t] EXCEPT
            !.pc = "backs_off", !.failed = @ + 1,
            !.timer = Wait(call[t].attempt, hint) + jitter,
            !.hint = IF hint = {} THEN 0
                     ELSE AtMost(CHOOSE h \in hint : TRUE, RetryAfterMax)]]

\* Mutant: one attempt more than configured.
LastAttempt_OneMore(t) == call[t].attempt > MaxAttempts

\* Mutant: one attempt fewer than configured.
LastAttempt_OffByOne(t) == call[t].attempt >= MaxAttempts - 1

LastAttempt(t) == call[t].attempt >= MaxAttempts

\* 429 and 5xx with or without a hint, timeouts and network errors without.
Fails(t) ==
    /\ call[t].pc = "sent"
    /\ IF LastAttempt(t)
       THEN call' = [call EXCEPT ![t] = [call[t] EXCEPT !.pc = "done",
                        !.failed = @ + 1, !.hint = 0,
                        !.result = Returned(call[t].kind, "unavailable")]]
       ELSE \E hint \in {{}} \cup {{h} : h \in Hints} : Retries(t, hint)
    /\ UNCHANGED <<queue, since>>

\* A retry does not pass the limiter.
Resends(t) ==
    /\ call[t].pc = "backs_off"
    /\ call[t].timer = 0
    /\ call' = [call EXCEPT ![t] = [call[t] EXCEPT !.pc = "sent", !.attempt = @ + 1]]
    /\ UNCHANGED <<queue, since>>

\* The caller takes the result and may call again.
Takes(t) ==
    /\ call[t].pc = "done"
    /\ call' = [call EXCEPT ![t] = NoCall]
    /\ UNCHANGED <<queue, since>>

Tick ==
    /\ \/ \E t \in Tasks : call[t].timer > 0 \/ call[t].hint > 0
       \/ \E c \in Clients : since[c] < Interval
    /\ call' = [t \in Tasks |-> [call[t] EXCEPT !.timer = AtLeast0(@ - 1),
                                                !.hint = AtLeast0(@ - 1)]]
    /\ since' = [c \in Clients |-> AtMost(Interval, since[c] + 1)]
    /\ UNCHANGED queue

Proceeds(t) ==
    Paces(t) \/ Sends(t) \/ Answered(t) \/ Refused(t) \/ Fails(t) \/ Resends(t)
        \/ Takes(t)

Next ==
    \/ Tick
    \/ \E t \in Tasks :
          \/ \E c \in Clients, kind \in Kinds : Calls(t, c, kind)
          \/ Paces(t) \/ Sends(t) \/ Answered(t) \/ Refused(t) \/ Fails(t)
          \/ Resends(t) \/ Takes(t)

\* Timers end and the loop runs what is ready; an attempt ends with an answer
\* or its timeout.
Fairness == WF_vars(Tick) /\ \A t \in Tasks : WF_vars(Proceeds(t))

Spec == Init /\ [][Next]_vars /\ Fairness

-----------------------------------------------------------------------------
(***************************************************************************)
(* Properties.                                                             *)
(***************************************************************************)
Call == [pc : {"idle", "waits", "paces", "sent", "backs_off", "done"},
         client : Clients, kind : Kinds, attempt : 0..MaxAttempts,
         timer : Nat, hint : Nat, failed : 0..MaxAttempts, answered : BOOLEAN,
         result : Results]

\* The variables have their types, and a task is in a limiter's queue exactly
\* while it waits or paces there.
TypeOK ==
    /\ call \in [Tasks -> Call]
    /\ queue \in [Clients -> Seq(Tasks)]
    /\ since \in [Clients -> 0..Interval]
    /\ \A t \in Tasks, c \in Clients :
          (\E i \in DOMAIN queue[c] : queue[c][i] = t)
              <=> (call[t].client = c /\ call[t].pc \in {"waits", "paces"})

\* However many tasks share a client, two calls of it begin at least the
\* interval apart (dexscreener.py:154-155, helius.py:27-28).
CallsAreSpaced ==
    [][\A t \in Tasks : call'[t].pc = "sent" /\ call[t].pc = "paces" =>
          since[call[t].client] >= Interval]_vars

\* No task sends again before the time the server asked it to wait, up to the
\* cap, is over.
HintsAreHonored ==
    [][\A t \in Tasks : call'[t].attempt > call[t].attempt => call[t].hint = 0]_vars

\* "Unavailable" means that the full number of attempts failed and nothing was
\* answered, and only a lenient caller takes silence for an empty answer.
UnavailableIsTrue ==
    \A t \in Tasks : call[t].pc = "done" =>
        /\ ~call[t].answered => call[t].failed = MaxAttempts
        /\ call[t].result = "unavailable" => ~call[t].answered
        /\ call[t].result = "empty" /\ ~call[t].answered => call[t].kind = "lenient"

\* Every call comes to an end, with a result or an exception.
CallsEnd ==
    \A t \in Tasks : call[t].pc # "idle" ~> call[t].pc = "done"
=============================================================================
