----------------------- MODULE UpstreamRequests_proofs -----------------------
(***************************************************************************)
(* Proofs about UpstreamRequests, for any tasks and clients, any interval, *)
(* number of attempts, cap and hints.                                      *)
(***************************************************************************)
EXTENDS UpstreamRequests, SequenceTheorems, TLAPS

Waiting(c) == c.pc \in {"waits", "paces"}

\* A task waits once at most for the lock of a limiter.
Injective(s) == \A i, j \in 1..Len(s) : s[i] = s[j] => i = j

Fresh(c) == c.attempt = 0 /\ c.failed = 0 /\ c.hint = 0 /\ ~c.answered

\* The fields of a call that go together: what was sent is what has failed
\* and the attempt under way, and a hint is no longer than the sleep it set.
CallOK(c) ==
    /\ c.pc \in {"idle", "waits", "paces"} => Fresh(c)
    /\ c.pc = "sent" =>
          /\ c.attempt \in 1..MaxAttempts /\ c.failed = c.attempt - 1
          /\ c.hint = 0 /\ ~c.answered
    /\ c.pc = "backs_off" =>
          /\ c.attempt \in 1..MaxAttempts - 1 /\ c.failed = c.attempt
          /\ c.hint <= c.timer /\ ~c.answered
    /\ c.pc = "done" /\ c.answered => c.result # "unavailable"
    /\ c.pc = "done" /\ ~c.answered =>
          c.failed = MaxAttempts /\ c.result = Returned(c.kind, "unavailable")

\* A task that sleeps in the limiter has its lock, and sleeps for no less than
\* what is left of the interval.
Paced(t) ==
    call[t].pc = "paces" =>
        Holds(t) /\ since[call[t].client] + call[t].timer >= Interval

Inv ==
    /\ TypeOK
    /\ \A c \in Clients : Injective(queue[c])
    /\ \A t \in Tasks : CallOK(call[t]) /\ Paced(t)

-----------------------------------------------------------------------------
(***************************************************************************)
(* Parts.                                                                  *)
(***************************************************************************)
LEMMA LargerType ==
    ASSUME NEW x \in Int
    PROVE  AtLeast0(x) \in Nat /\ AtLeast0(x) >= x
  BY DEF AtLeast0

LEMMA SmallerType ==
    ASSUME NEW x \in Nat, NEW y \in Nat
    PROVE  AtMost(x, y) \in Nat /\ AtMost(x, y) <= x /\ AtMost(x, y) <= y
  BY DEF AtMost

\* Who waits after one more has joined the line.
LEMMA Joined ==
    ASSUME NEW s \in Seq(Tasks), NEW t \in Tasks
    PROVE  /\ Append(s, t) \in Seq(Tasks) /\ Append(s, t) # <<>>
           /\ s # <<>> => Head(Append(s, t)) = Head(s)
           /\ \A u \in Tasks :
                 (\E i \in DOMAIN Append(s, t) : Append(s, t)[i] = u)
                     <=> (\E i \in DOMAIN s : s[i] = u) \/ u = t
           /\ Injective(s) /\ ~(\E i \in DOMAIN s : s[i] = t)
                 => Injective(Append(s, t))
<1>1. /\ Append(s, t) \in Seq(Tasks) /\ Len(s) \in Nat
      /\ Len(Append(s, t)) = Len(s) + 1
      /\ Append(s, t)[Len(s) + 1] = t
      /\ \A i \in 1..Len(s) : Append(s, t)[i] = s[i]
  BY AppendProperties
<1>. QED BY <1>1 DEF Injective

\* Who waits after the head of the line has left, if it waited once.
LEMMA Left ==
    ASSUME NEW s \in Seq(Tasks), s # <<>>, Injective(s)
    PROVE  /\ Tail(s) \in Seq(Tasks) /\ Injective(Tail(s))
           /\ \A u \in Tasks :
                 (\E i \in DOMAIN Tail(s) : Tail(s)[i] = u)
                     <=> (\E i \in DOMAIN s : s[i] = u) /\ u # Head(s)
<1>1. /\ Tail(s) \in Seq(Tasks) /\ Len(s) \in Nat /\ Len(Tail(s)) = Len(s) - 1
      /\ \A i \in 1..Len(Tail(s)) : Tail(s)[i] = s[i + 1]
      /\ s[1] = Head(s) /\ 1 \in 1..Len(s)
  BY HeadTailProperties
<1>2. Injective(Tail(s))
  BY <1>1 DEF Injective
<1>3. ASSUME NEW u \in Tasks
      PROVE  (\E i \in 1..Len(Tail(s)) : Tail(s)[i] = u)
                 <=> (\E i \in 1..Len(s) : s[i] = u) /\ u # Head(s)
  <2>1. ASSUME NEW i \in 1..Len(Tail(s)), Tail(s)[i] = u
        PROVE  (\E j \in 1..Len(s) : s[j] = u) /\ u # Head(s)
    <3>1. i + 1 \in 1..Len(s) /\ s[i + 1] = u /\ i + 1 # 1
      BY <1>1, <2>1
    <3>. QED BY <1>1, <3>1 DEF Injective
  <2>2. ASSUME NEW i \in 1..Len(s), s[i] = u, u # Head(s)
        PROVE  \E j \in 1..Len(Tail(s)) : Tail(s)[j] = u
    <3>1. i # 1 /\ i - 1 \in 1..Len(Tail(s)) /\ Tail(s)[i - 1] = u
      BY <1>1, <2>2
    <3>. QED BY <3>1
  <2>. QED BY <2>1, <2>2
<1>4. DOMAIN s = 1..Len(s) /\ DOMAIN Tail(s) = 1..Len(Tail(s))
  BY <1>1
<1>. QED BY <1>1, <1>2, <1>3, <1>4

LEMMA NoCallType == NoCall \in Call /\ CallOK(NoCall) /\ NoCall.pc = "idle"
<1>1. (CHOOSE c \in Clients : TRUE) \in Clients
  BY ClientsAssumption
<1>. QED BY <1>1, IntervalAssumption
         DEF NoCall, Call, CallOK, Fresh, Kinds, Results

\* A task that is not waiting, or is and stays so, leaves the queues right.
Queued(t, c) ==
    (\E i \in DOMAIN queue[c] : queue[c][i] = t)
        <=> (call[t].client = c /\ call[t].pc \in {"waits", "paces"})

LEMMA TypeParts ==
    TypeOK <=> /\ call \in [Tasks -> Call]
               /\ queue \in [Clients -> Seq(Tasks)]
               /\ since \in [Clients -> 0..Interval]
               /\ \A t \in Tasks, c \in Clients : Queued(t, c)
  BY DEF TypeOK, Queued

LEMMA TypeAfter ==
    ASSUME call' \in [Tasks -> Call], queue' \in [Clients -> Seq(Tasks)],
           since' \in [Clients -> 0..Interval],
           \A t \in Tasks, c \in Clients : Queued(t, c)'
    PROVE  TypeOK'
  BY DEF TypeOK, Queued

LEMMA QueuesKept ==
    ASSUME TypeOK, UNCHANGED queue,
           \A u \in Tasks :
              \/ /\ call'[u].client = call[u].client
                 /\ Waiting(call'[u]) <=> Waiting(call[u])
              \/ ~Waiting(call'[u]) /\ ~Waiting(call[u])
    PROVE  \A u \in Tasks, c \in Clients : Queued(u, c)'
  BY TypeParts DEF Queued, Waiting

\* A step that gives one task another call.
LEMMA NewCall ==
    ASSUME Inv, NEW t \in Tasks, NEW new \in Call, CallOK(new),
           call' = [call EXCEPT ![t] = new]
    PROVE  /\ \A u \in Tasks : call'[u] = IF u = t THEN new ELSE call[u]
           /\ call' \in [Tasks -> Call] /\ \A u \in Tasks : CallOK(call'[u])
<1>1. \A u \in Tasks : call'[u] = IF u = t THEN new ELSE call[u]
  BY TypeParts DEF Inv
<1>. QED BY <1>1, TypeParts DEF Inv

\* The same, when it leaves the limiters alone.
LEMMA OneCall ==
    ASSUME Inv, NEW t \in Tasks, NEW new \in Call, CallOK(new), new.pc # "paces",
           call' = [call EXCEPT ![t] = new], UNCHANGED <<queue, since>>,
           ~Waiting(new), ~Waiting(call[t])
    PROVE  Inv'
<1>1. \A u \in Tasks : call'[u] = IF u = t THEN new ELSE call[u]
  BY NewCall
<1>2. call' \in [Tasks -> Call] /\ \A u \in Tasks : CallOK(call'[u])
  BY NewCall
<1>3. \A u \in Tasks, c \in Clients : Queued(u, c)'
  BY <1>1, QueuesKept DEF Inv
<1>4. TypeOK'
  BY <1>2, <1>3, TypeParts, TypeAfter DEF Inv
<1>5. \A u \in Tasks : Paced(u)'
  BY <1>1 DEF Inv, Paced, Holds
<1>. QED BY <1>2, <1>4, <1>5 DEF Inv

-----------------------------------------------------------------------------
(***************************************************************************)
(* The limiter.                                                            *)
(***************************************************************************)
LEMMA CallsInv ==
    ASSUME Inv, NEW t \in Tasks, NEW c \in Clients, NEW kind \in Kinds, Calls(t, c, kind)
    PROVE  Inv'
<1>. DEFINE new == [NoCall EXCEPT !.pc = "waits", !.client = c, !.kind = kind]
            s == queue[c]
            longer == Append(s, t)
<1>1. call[t].pc = "idle" /\ call[t] \in Call /\ s \in Seq(Tasks) /\ Injective(s)
  BY TypeParts DEF Inv, Calls
<1>2. new \in Call /\ CallOK(new) /\ new.pc = "waits" /\ new.client = c
  BY NoCallType DEF Call, CallOK, Fresh
<1>3. call' = [call EXCEPT ![t] = new] /\ queue' = [queue EXCEPT ![c] = longer]
  BY TypeParts DEF Inv, Calls
<1>4. \A u \in Tasks : Queued(u, c)
  BY TypeParts DEF Inv
<1>5. /\ longer \in Seq(Tasks) /\ longer # <<>>
      /\ s # <<>> => Head(longer) = Head(s)
      /\ \A u \in Tasks : (\E i \in DOMAIN longer : longer[i] = u)
                              <=> (\E i \in DOMAIN s : s[i] = u) \/ u = t
  BY <1>1, Joined
<1>6. Injective(longer)
  BY <1>1, <1>4, Joined DEF Queued
<1>. HIDE DEF new, longer
<1>7. /\ \A u \in Tasks : call'[u] = IF u = t THEN new ELSE call[u]
      /\ call' \in [Tasks -> Call] /\ \A u \in Tasks : CallOK(call'[u])
  BY <1>2, <1>3, NewCall
<1>8. \A d \in Clients : queue'[d] = IF d = c THEN longer ELSE queue[d]
  BY <1>3, TypeParts DEF Inv
<1>9. queue' \in [Clients -> Seq(Tasks)]
  <2>1. longer \in Seq(Tasks)
    BY <1>5
  <2>2. queue \in [Clients -> Seq(Tasks)]
    BY TypeParts DEF Inv
  <2>. QED BY <1>3, <2>1, <2>2
<1>10. \A d \in Clients : Injective(queue'[d])
  BY <1>6, <1>8 DEF Inv
<1>11. \A u \in Tasks, d \in Clients : Queued(u, d)'
  <2>. SUFFICES ASSUME NEW u \in Tasks, NEW d \in Clients PROVE Queued(u, d)'
    OBVIOUS
  <2>1. Queued(u, d)
    BY TypeParts DEF Inv
  <2>2. CASE d = c
    BY <1>1, <1>2, <1>5, <1>7, <1>8, <2>1, <2>2 DEF Queued
  <2>3. CASE d # c
    BY <1>1, <1>2, <1>7, <1>8, <2>1, <2>3 DEF Queued
  <2>. QED BY <2>2, <2>3
<1>12. TypeOK'
  BY <1>7, <1>9, <1>11, TypeParts, TypeAfter DEF Inv, Calls
<1>13. \A u \in Tasks : Paced(u)'
  <2>. SUFFICES ASSUME NEW u \in Tasks, call'[u].pc = "paces"
       PROVE  Holds(u)' /\ since'[call'[u].client] + call'[u].timer >= Interval
    BY DEF Paced
  <2>1. u # t /\ call'[u] = call[u] /\ Paced(u) /\ call[u].client \in Clients
    BY <1>2, <1>7, TypeParts DEF Inv, Call
  <2>2. Holds(u) /\ since[call[u].client] + call[u].timer >= Interval
    BY <2>1 DEF Paced
  <2>. QED BY <1>5, <1>8, <2>1, <2>2 DEF Holds, Calls
<1>. QED BY <1>7, <1>10, <1>12, <1>13 DEF Inv

LEMMA PacesInv ==
    ASSUME Inv, NEW t \in Tasks, Paces(t)
    PROVE  Inv'
<1>. DEFINE c == call[t].client
            wait == AtLeast0(Interval - since[c])
            new == [call[t] EXCEPT !.pc = "paces", !.timer = wait]
<1>1. call[t] \in Call /\ CallOK(call[t]) /\ call[t].pc = "waits" /\ c \in Clients
  BY TypeParts DEF Inv, Paces, Call
<1>2. since[c] \in 0..Interval /\ Interval \in Nat
  BY <1>1, TypeParts, IntervalAssumption DEF Inv
<1>3. wait \in Nat /\ wait >= Interval - since[c]
  BY <1>2, LargerType
<1>4. new \in Call /\ CallOK(new) /\ new.pc = "paces" /\ new.client = c /\ new.timer = wait
  BY <1>1, <1>3 DEF Call, CallOK, Fresh
<1>5. call' = [call EXCEPT ![t] = new]
  BY DEF Paces
<1>. HIDE DEF new, wait
<1>6. /\ \A u \in Tasks : call'[u] = IF u = t THEN new ELSE call[u]
      /\ call' \in [Tasks -> Call] /\ \A u \in Tasks : CallOK(call'[u])
  BY <1>4, <1>5, NewCall
<1>7. \A u \in Tasks, d \in Clients : Queued(u, d)'
  BY <1>1, <1>4, <1>6, QueuesKept DEF Inv, Paces, Waiting
<1>8. TypeOK'
  BY <1>6, <1>7, TypeParts, TypeAfter DEF Inv, Paces
<1>9. \A u \in Tasks : Paced(u)'
  <2>. SUFFICES ASSUME NEW u \in Tasks PROVE Paced(u)'
    OBVIOUS
  <2>1. CASE u = t
    <3>1. since[c] + wait >= Interval
      BY <1>2, <1>3
    <3>. QED BY <1>4, <1>6, <2>1, <3>1 DEF Paced, Holds, Paces
  <2>2. CASE u # t
    BY <1>6, <2>2 DEF Inv, Paced, Holds, Paces
  <2>. QED BY <2>1, <2>2
<1>. QED BY <1>6, <1>8, <1>9 DEF Inv, Paces

\* The lock goes to the next in line; nobody else was sleeping with it.
LEMMA SendsInv ==
    ASSUME Inv, NEW t \in Tasks, Sends(t)
    PROVE  Inv'
<1>. DEFINE c == call[t].client
            new == [call[t] EXCEPT !.pc = "sent", !.attempt = 1]
            s == queue[c]
            rest == Tail(s)
<1>1. /\ call[t] \in Call /\ CallOK(call[t]) /\ call[t].pc = "paces" /\ c \in Clients
      /\ s \in Seq(Tasks) /\ s # <<>> /\ Head(s) = t /\ Injective(s)
  BY TypeParts DEF Inv, Sends, Call, Paced, Holds
<1>2. new \in Call /\ new.pc = "sent" /\ new.client = c
  <2>1. 1 \in 0..MaxAttempts
    BY IntervalAssumption
  <2>. QED BY <1>1, <2>1 DEF Call
<1>3. CallOK(new)
  <2>1. /\ new.pc = "sent" /\ new.attempt = 1 /\ new.failed = 0 /\ new.hint = 0
        /\ ~new.answered
    BY <1>1 DEF Call, CallOK, Fresh
  <2>. QED BY <2>1, IntervalAssumption DEF CallOK
<1>4. call' = [call EXCEPT ![t] = new] /\ queue' = [queue EXCEPT ![c] = rest]
  BY DEF Sends
<1>5. /\ rest \in Seq(Tasks) /\ Injective(rest)
      /\ \A u \in Tasks : (\E i \in DOMAIN rest : rest[i] = u)
                              <=> (\E i \in DOMAIN s : s[i] = u) /\ u # t
  BY <1>1, Left
<1>. HIDE DEF new, rest
<1>6. /\ \A u \in Tasks : call'[u] = IF u = t THEN new ELSE call[u]
      /\ call' \in [Tasks -> Call] /\ \A u \in Tasks : CallOK(call'[u])
  BY <1>2, <1>3, <1>4, NewCall
<1>7. \A d \in Clients : queue'[d] = IF d = c THEN rest ELSE queue[d]
  BY <1>4, TypeParts DEF Inv
<1>8. queue' \in [Clients -> Seq(Tasks)]
  BY <1>4, <1>5, TypeParts DEF Inv
<1>9. since' \in [Clients -> 0..Interval]
  <2>1. 0 \in 0..Interval /\ since \in [Clients -> 0..Interval]
    BY TypeParts, IntervalAssumption DEF Inv
  <2>. QED BY <2>1 DEF Sends
<1>10. \A d \in Clients : Injective(queue'[d])
  BY <1>5, <1>7 DEF Inv
<1>11. \A u \in Tasks, d \in Clients : Queued(u, d)'
  <2>. SUFFICES ASSUME NEW u \in Tasks, NEW d \in Clients PROVE Queued(u, d)'
    OBVIOUS
  <2>1. Queued(u, d)
    BY TypeParts DEF Inv
  <2>2. CASE d = c
    BY <1>1, <1>2, <1>5, <1>6, <1>7, <2>1, <2>2 DEF Queued
  <2>3. CASE d # c
    BY <1>1, <1>2, <1>6, <1>7, <2>1, <2>3 DEF Queued
  <2>. QED BY <2>2, <2>3
<1>12. TypeOK'
  BY <1>6, <1>8, <1>9, <1>11, TypeAfter
<1>13. \A u \in Tasks : Paced(u)'
  <2>. SUFFICES ASSUME NEW u \in Tasks, call'[u].pc = "paces"
       PROVE  Holds(u)' /\ since'[call'[u].client] + call'[u].timer >= Interval
    BY DEF Paced
  <2>1. u # t /\ call'[u] = call[u] /\ call[u].client \in Clients
    BY <1>2, <1>6, TypeParts DEF Inv, Call
  <2>2. Holds(u) /\ since[call[u].client] + call[u].timer >= Interval
    BY <2>1 DEF Inv, Paced
  <2>3. call[u].client # c
    BY <1>1, <2>1, <2>2 DEF Holds
  <2>4. since'[call[u].client] = since[call[u].client]
    BY <2>1, <2>3, TypeParts DEF Inv, Sends
  <2>. QED BY <1>7, <2>1, <2>2, <2>3, <2>4 DEF Holds
<1>. QED BY <1>6, <1>10, <1>12, <1>13 DEF Inv

-----------------------------------------------------------------------------
(***************************************************************************)
(* request_with_retry.                                                     *)
(***************************************************************************)
LEMMA ReturnedType ==
    ASSUME NEW kind \in Kinds, NEW outcome \in Answers \union {"refused", "unavailable"}
    PROVE  /\ Returned(kind, outcome) \in Results
           /\ Returned(kind, outcome) = "unavailable" => outcome = "unavailable"
           /\ Returned(kind, "unavailable") = "empty" => kind = "lenient"
  BY DEF Returned, Results, Answers, Kinds

LEMMA WaitType ==
    ASSUME NEW attempt, NEW hint, hint = {} \/ \E h \in Hints : hint = {h}
    PROVE  /\ Wait(attempt, hint) \in Nat
           /\ hint # {} => LET h == CHOOSE x \in hint : TRUE IN
                           /\ AtMost(h, RetryAfterMax) \in Nat
                           /\ Wait(attempt, hint) = AtMost(h, RetryAfterMax)
<1>1. Backoff(attempt) \in Nat
  BY WaitsAssumption DEF Backoff
<1>2. CASE hint = {}
  BY <1>1, <1>2 DEF Wait
<1>3. CASE hint # {}
  <2>1. (CHOOSE x \in hint : TRUE) \in Hints
    BY <1>3
  <2>2. AtMost(CHOOSE x \in hint : TRUE, RetryAfterMax) \in Nat
    BY <2>1, WaitsAssumption, SmallerType
  <2>. QED BY <1>3, <2>2 DEF Wait
<1>. QED BY <1>2, <1>3

LEMMA FinishesInv ==
    ASSUME Inv, NEW t \in Tasks, call[t].pc = "sent", UNCHANGED <<queue, since>>,
           NEW outcome \in Answers \union {"refused"}, Finishes(t, outcome, TRUE)
    PROVE  Inv'
<1>. DEFINE result == Returned(call[t].kind, outcome)
            new == [call[t] EXCEPT !.pc = "done", !.timer = 0, !.hint = 0,
                                   !.result = result, !.answered = TRUE]
<1>1. call[t] \in Call /\ CallOK(call[t]) /\ call[t].kind \in Kinds
  BY TypeParts DEF Inv, Call
<1>2. result \in Results /\ result # "unavailable"
  BY <1>1, ReturnedType DEF Answers
<1>3. call' = [call EXCEPT ![t] = new]
  BY DEF Finishes
<1>. HIDE DEF result
<1>4. new \in Call /\ new.pc = "done" /\ new.answered /\ new.result = result
  BY <1>1, <1>2 DEF Call
<1>5. CallOK(new)
  BY <1>2, <1>4 DEF CallOK
<1>. HIDE DEF new
<1>. QED BY <1>3, <1>4, <1>5, OneCall DEF Waiting

LEMMA FailsInv ==
    ASSUME Inv, NEW t \in Tasks, Fails(t)
    PROVE  Inv'
<1>. DEFINE k == call[t]
<1>1. /\ k \in Call /\ CallOK(k) /\ k.kind \in Kinds /\ k.pc = "sent"
      /\ k.attempt \in 1..MaxAttempts /\ k.failed = k.attempt - 1 /\ ~k.answered
      /\ MaxAttempts \in Nat
  BY TypeParts, IntervalAssumption DEF Inv, Call, CallOK, Fails
<1>2. CASE LastAttempt(t)
  <2>. DEFINE result == Returned(k.kind, "unavailable")
              new == [k EXCEPT !.pc = "done", !.failed = @ + 1, !.hint = 0,
                               !.result = result]
  <2>1. call' = [call EXCEPT ![t] = new] /\ k.attempt = MaxAttempts
    BY <1>1, <1>2 DEF Fails, LastAttempt
  <2>2. result \in Results
    BY <1>1, ReturnedType
  <2>3. /\ new.pc = "done" /\ new.failed = k.failed + 1 /\ new.result = result
        /\ new.kind = k.kind /\ new.answered = k.answered
    BY <1>1 DEF Call
  <2>4. new \in Call
    <3>1. k.failed + 1 \in 0..MaxAttempts /\ 0 \in Nat
      BY <1>1
    <3>. QED BY <1>1, <2>2, <3>1 DEF Call
  <2>5. CallOK(new)
    BY <1>1, <2>1, <2>3 DEF CallOK
  <2>. HIDE DEF new
  <2>. QED BY <1>1, <2>1, <2>3, <2>4, <2>5, OneCall DEF Fails, Waiting
<1>3. CASE ~LastAttempt(t)
  <2>1. PICK hint \in {{}} \cup {{h} : h \in Hints} : Retries(t, hint)
    BY <1>3 DEF Fails
  <2>2. hint = {} \/ \E h \in Hints : hint = {h}
    OBVIOUS
  <2>. DEFINE given == IF hint = {} THEN 0
                       ELSE AtMost(CHOOSE h \in hint : TRUE, RetryAfterMax)
              wait == Wait(k.attempt, hint)
  <2>3. wait \in Nat /\ given \in Nat /\ given <= wait
    BY <2>2, WaitType
  <2>4. PICK jitter \in {0, 1} :
           call' = [call EXCEPT ![t] = [k EXCEPT !.pc = "backs_off", !.failed = @ + 1,
                                          !.timer = wait + jitter, !.hint = given]]
    BY <2>1 DEF Retries
  <2>. HIDE DEF given, wait
  <2>. DEFINE new == [k EXCEPT !.pc = "backs_off", !.failed = @ + 1,
                               !.timer = wait + jitter, !.hint = given]
  <2>5. k.attempt \in 1..MaxAttempts - 1
    BY <1>1, <1>3 DEF LastAttempt
  <2>6. /\ new.pc = "backs_off" /\ new.failed = k.failed + 1 /\ new.hint = given
        /\ new.timer = wait + jitter /\ new.attempt = k.attempt
        /\ new.answered = k.answered
    BY <1>1 DEF Call
  <2>7. wait + jitter \in Nat /\ given <= wait + jitter /\ k.failed + 1 \in 0..MaxAttempts
    BY <1>1, <2>3, <2>5
  <2>8. new \in Call
    BY <1>1, <2>3, <2>7 DEF Call
  <2>9. CallOK(new)
    BY <1>1, <2>5, <2>6, <2>7 DEF CallOK
  <2>10. call' = [call EXCEPT ![t] = new]
    BY <2>4
  <2>. HIDE DEF new
  <2>. QED BY <1>1, <2>6, <2>8, <2>9, <2>10, OneCall DEF Fails, Waiting
<1>. QED BY <1>2, <1>3

LEMMA ResendsInv ==
    ASSUME Inv, NEW t \in Tasks, Resends(t)
    PROVE  Inv' /\ call[t].hint = 0
<1>. DEFINE k == call[t]
            new == [k EXCEPT !.pc = "sent", !.attempt = @ + 1]
<1>1. /\ k \in Call /\ k.pc = "backs_off" /\ MaxAttempts \in Nat
      /\ k.attempt \in 1..MaxAttempts - 1 /\ k.failed = k.attempt /\ ~k.answered
      /\ k.hint <= k.timer /\ k.timer = 0 /\ k.hint \in Nat
  BY TypeParts, IntervalAssumption DEF Inv, Call, CallOK, Resends
<1>2. k.hint = 0 /\ k.attempt + 1 \in 1..MaxAttempts /\ k.attempt + 1 \in 0..MaxAttempts
  BY <1>1
<1>3. /\ new.pc = "sent" /\ new.attempt = k.attempt + 1 /\ new.failed = k.failed
      /\ new.hint = k.hint /\ new.answered = k.answered
  BY <1>1 DEF Call
<1>4. new \in Call
  BY <1>1, <1>2 DEF Call
<1>5. CallOK(new)
  BY <1>1, <1>2, <1>3 DEF CallOK
<1>6. call' = [call EXCEPT ![t] = new]
  BY DEF Resends
<1>. HIDE DEF new
<1>. QED BY <1>1, <1>2, <1>3, <1>4, <1>5, <1>6, OneCall DEF Resends, Waiting

LEMMA TakesInv ==
    ASSUME Inv, NEW t \in Tasks, Takes(t)
    PROVE  Inv'
  BY NoCallType, OneCall DEF Takes, Waiting

-----------------------------------------------------------------------------
(***************************************************************************)
(* Time, and the theorems.                                                 *)
(***************************************************************************)
\* A tick takes as much from the sleep as it adds to the interval.
LEMMA Passing ==
    ASSUME NEW s \in 0..Interval, NEW timer \in Nat, NEW hint \in Nat
    PROVE  /\ AtLeast0(timer - 1) \in Nat /\ AtLeast0(hint - 1) \in Nat
           /\ AtMost(Interval, s + 1) \in 0..Interval
           /\ hint <= timer => AtLeast0(hint - 1) <= AtLeast0(timer - 1)
           /\ hint = 0 => AtLeast0(hint - 1) = 0
           /\ s + timer >= Interval
                => AtMost(Interval, s + 1) + AtLeast0(timer - 1) >= Interval
  BY IntervalAssumption DEF AtLeast0, AtMost

LEMMA TickInv ==
    ASSUME Inv, Tick
    PROVE  Inv'
<1>. DEFINE timer(u) == AtLeast0(call[u].timer - 1)
            hint(u) == AtLeast0(call[u].hint - 1)
<1>1. \A u \in Tasks : call[u] \in Call /\ CallOK(call[u])
  BY TypeParts DEF Inv
<1>2. \A c \in Clients : since[c] \in 0..Interval
  BY TypeParts DEF Inv
<1>3. \A u \in Tasks :
         /\ call'[u] = [call[u] EXCEPT !.timer = timer(u), !.hint = hint(u)]
         /\ timer(u) \in Nat /\ hint(u) \in Nat
         /\ call[u].hint <= call[u].timer => hint(u) <= timer(u)
         /\ call[u].hint = 0 => hint(u) = 0
  <2>. SUFFICES ASSUME NEW u \in Tasks
       PROVE  /\ call'[u] = [call[u] EXCEPT !.timer = timer(u), !.hint = hint(u)]
              /\ timer(u) \in Nat /\ hint(u) \in Nat
              /\ call[u].hint <= call[u].timer => hint(u) <= timer(u)
              /\ call[u].hint = 0 => hint(u) = 0
    OBVIOUS
  <2>1. call[u].timer \in Nat /\ call[u].hint \in Nat /\ 0 \in 0..Interval
    BY <1>1, IntervalAssumption DEF Call
  <2>2. call'[u] = [call[u] EXCEPT !.timer = timer(u), !.hint = hint(u)]
    BY DEF Tick
  <2>. QED BY <2>1, <2>2, Passing
<1>. HIDE DEF timer, hint
<1>4. \A u \in Tasks :
         /\ call'[u] \in Call /\ call'[u].timer = timer(u) /\ call'[u].hint = hint(u)
         /\ call'[u].pc = call[u].pc /\ call'[u].client = call[u].client
         /\ call'[u].kind = call[u].kind /\ call'[u].attempt = call[u].attempt
         /\ call'[u].failed = call[u].failed /\ call'[u].answered = call[u].answered
         /\ call'[u].result = call[u].result
  BY <1>1, <1>3 DEF Call
<1>5. \A u \in Tasks : CallOK(call'[u])
  <2>. SUFFICES ASSUME NEW u \in Tasks PROVE CallOK(call'[u])
    OBVIOUS
  <2>. DEFINE c == call[u]
              d == call'[u]
  <2>1. CallOK(c) /\ c.timer \in Nat /\ c.hint \in Nat
    BY <1>1 DEF Call
  <2>2. /\ d.pc = c.pc /\ d.kind = c.kind /\ d.attempt = c.attempt
        /\ d.failed = c.failed /\ d.answered = c.answered /\ d.result = c.result
    BY <1>4
  <2>3. /\ c.hint <= c.timer => d.hint <= d.timer
        /\ c.hint = 0 => d.hint = 0
    BY <1>3, <1>4
  <2>. HIDE DEF c, d
  <2>4. Fresh(c) => Fresh(d)
    BY <2>2, <2>3 DEF Fresh
  <2>5. CallOK(d)
    BY <2>1, <2>2, <2>3, <2>4 DEF CallOK
  <2>. QED BY <2>5 DEF d
<1>6. call' \in [Tasks -> Call]
  BY <1>4 DEF Tick
<1>7. since' \in [Clients -> 0..Interval]
  <2>1. \A c \in Clients : AtMost(Interval, since[c] + 1) \in 0..Interval
    BY <1>2, Passing
  <2>. QED BY <2>1 DEF Tick
<1>8. \A u \in Tasks, c \in Clients : Queued(u, c)'
  BY <1>4, QueuesKept DEF Inv, Tick, Waiting
<1>9. TypeOK'
  BY <1>6, <1>7, <1>8, TypeParts, TypeAfter DEF Inv, Tick
<1>10. \A u \in Tasks : Paced(u)'
  <2>. SUFFICES ASSUME NEW u \in Tasks, call[u].pc = "paces"
       PROVE  Holds(u)' /\ since'[call'[u].client] + call'[u].timer >= Interval
    BY <1>4 DEF Paced
  <2>. DEFINE c == call[u].client
  <2>1. Holds(u) /\ since[c] + call[u].timer >= Interval
    BY DEF Inv, Paced
  <2>2. c \in Clients /\ call[u].timer \in Nat /\ 0 \in Nat
    BY <1>1 DEF Call
  <2>3. AtMost(Interval, since[c] + 1) + AtLeast0(call[u].timer - 1) >= Interval
    BY <1>2, <2>1, <2>2, Passing
  <2>4. since'[c] = AtMost(Interval, since[c] + 1)
    BY <2>2 DEF Tick
  <2>. QED BY <1>4, <2>1, <2>3, <2>4 DEF Holds, Tick, timer
<1>. QED BY <1>5, <1>9, <1>10 DEF Inv, Tick

LEMMA InitInv == Init => Inv
<1>. SUFFICES ASSUME Init PROVE Inv
  OBVIOUS
<1>1. call \in [Tasks -> Call] /\ \A u \in Tasks : call[u] = NoCall
  BY NoCallType DEF Init
<1>2. queue \in [Clients -> Seq(Tasks)] /\ \A c \in Clients : queue[c] = <<>>
  BY DEF Init
<1>3. since \in [Clients -> 0..Interval]
  BY IntervalAssumption DEF Init
<1>4. Len(<<>>) = 0 /\ DOMAIN <<>> = {}
  OBVIOUS
<1>5. TypeOK
  BY <1>1, <1>2, <1>3, <1>4, NoCallType, TypeParts DEF Queued
<1>. QED BY <1>1, <1>2, <1>4, <1>5, NoCallType DEF Inv, Injective, Paced

LEMMA StepInv == Inv /\ [Next]_vars => Inv'
<1>. SUFFICES ASSUME Inv, [Next]_vars PROVE Inv'
  OBVIOUS
<1>1. ASSUME NEW t \in Tasks, Answered(t) \/ Refused(t) PROVE Inv'
  BY <1>1, FinishesInv DEF Answered, Refused
<1>2. CASE UNCHANGED vars
  BY <1>2 DEF vars, Inv, TypeOK, Paced, Holds
<1>. QED BY <1>1, <1>2, TickInv, CallsInv, PacesInv, SendsInv, FailsInv, ResendsInv,
            TakesInv DEF Next

\* Which steps start an attempt: the first one comes from the limiter, when its
\* sleep is over, the others from the back-off, when the hint is over.
LEMMA AttemptSteps ==
    ASSUME Inv, Next, NEW t \in Tasks
    PROVE  /\ call[t].pc = "paces" /\ call'[t].pc = "sent" => call[t].timer = 0
           /\ call'[t].attempt > call[t].attempt => call[t].hint = 0
<1>. DEFINE k == call[t]
            Kept == call'[t].pc = k.pc /\ call'[t].attempt = k.attempt
<1>1. k \in Call /\ CallOK(k) /\ k.attempt \in Int
  BY TypeParts, IntervalAssumption DEF Inv, Call
<1>2. CASE Tick
  <2>1. Kept
    BY <1>1, <1>2 DEF Tick, Call
  <2>. QED BY <1>1, <2>1
<1>3. ASSUME NEW u \in Tasks, u # t,
             \E new : call' = [call EXCEPT ![u] = new]
      PROVE  Kept
  BY <1>3
<1>4. ASSUME NEW u \in Tasks, Proceeds(u) \/ \E c \in Clients, kind \in Kinds : Calls(u, c, kind)
      PROVE  \E new : call' = [call EXCEPT ![u] = new]
  BY <1>4 DEF Proceeds, Paces, Sends, Answered, Refused, Finishes, Fails, Retries,
              Resends, Takes, Calls
<1>5. CASE Sends(t)
  BY <1>1, <1>5 DEF Sends, CallOK, Fresh
<1>6. CASE Resends(t)
  BY <1>1, <1>6, ResendsInv DEF Resends
<1>7. CASE Paces(t) \/ Answered(t) \/ Refused(t) \/ Fails(t)
  <2>1. t \in DOMAIN call
    BY TypeParts DEF Inv
  <2>2. CASE Paces(t)
    <3>. DEFINE new == [k EXCEPT !.pc = "paces",
                                 !.timer = AtLeast0(Interval - since[k.client])]
    <3>1. new.pc = "paces" /\ new.attempt = k.attempt
      BY <1>1 DEF Call
    <3>2. call'[t] = new
      BY <2>1, <2>2 DEF Paces
    <3>. QED BY <1>1, <3>1, <3>2
  <2>3. CASE Answered(t) \/ Refused(t)
    <3>1. PICK outcome : Finishes(t, outcome, TRUE)
      BY <2>3 DEF Answered, Refused
    <3>. DEFINE new == [k EXCEPT !.pc = "done", !.timer = 0, !.hint = 0,
                                 !.result = Returned(k.kind, outcome),
                                 !.answered = TRUE]
    <3>2. new.pc = "done" /\ new.attempt = k.attempt
      BY <1>1 DEF Call
    <3>3. call'[t] = new
      BY <2>1, <3>1 DEF Finishes
    <3>. QED BY <1>1, <3>2, <3>3
  <2>4. CASE Fails(t) /\ LastAttempt(t)
    <3>. DEFINE new == [k EXCEPT !.pc = "done", !.failed = @ + 1, !.hint = 0,
                                 !.result = Returned(k.kind, "unavailable")]
    <3>1. new.pc = "done" /\ new.attempt = k.attempt
      BY <1>1 DEF Call
    <3>2. call'[t] = new
      BY <2>1, <2>4 DEF Fails
    <3>. QED BY <1>1, <3>1, <3>2
  <2>5. CASE Fails(t) /\ ~LastAttempt(t)
    <3>1. PICK hint \in {{}} \cup {{h} : h \in Hints} : Retries(t, hint)
      BY <2>5 DEF Fails
    <3>2. PICK jitter \in {0, 1} :
             call' = [call EXCEPT ![t] = [k EXCEPT !.pc = "backs_off", !.failed = @ + 1,
                !.timer = Wait(k.attempt, hint) + jitter,
                !.hint = IF hint = {} THEN 0
                         ELSE AtMost(CHOOSE h \in hint : TRUE, RetryAfterMax)]]
      BY <3>1 DEF Retries
    <3>. DEFINE new == [k EXCEPT !.pc = "backs_off", !.failed = @ + 1,
                !.timer = Wait(k.attempt, hint) + jitter,
                !.hint = IF hint = {} THEN 0
                         ELSE AtMost(CHOOSE h \in hint : TRUE, RetryAfterMax)]
    <3>3. new.pc = "backs_off" /\ new.attempt = k.attempt
      BY <1>1 DEF Call
    <3>4. call'[t] = new
      BY <2>1, <3>2
    <3>. QED BY <1>1, <3>3, <3>4
  <2>. QED BY <1>7, <2>2, <2>3, <2>4, <2>5
<1>8. CASE Takes(t) \/ \E c \in Clients, kind \in Kinds : Calls(t, c, kind)
  <2>1. call'[t].attempt = 0 /\ k.pc # "paces"
    <3>1. \A new : call' = [call EXCEPT ![t] = new] => call'[t] = new
      BY TypeParts DEF Inv
    <3>2. NoCall \in Call /\ NoCall.attempt = 0
      BY NoCallType DEF CallOK, Fresh
    <3>. QED BY <1>8, <3>1, <3>2 DEF Takes, Calls, Call
  <2>2. k.attempt >= 0
    BY <1>1 DEF Call
  <2>. QED BY <1>1, <2>1, <2>2
<1>. QED BY <1>1, <1>2, <1>3, <1>4, <1>5, <1>6, <1>7, <1>8 DEF Next, Proceeds

LEMMA RequestsInvariant == Spec => []Inv
  BY InitInv, StepInv, PTL DEF Spec

\* The variables have their types, no call counts more attempts or failures
\* than it may make, and the lock's line has exactly the tasks that wait for
\* the limiter (http_utils.request_with_retry, _wait_for_rate_limit).
THEOREM RequestsTyped == Spec => []TypeOK
  BY RequestsInvariant, PTL DEF Inv

\* "Unavailable" means that each of the attempts failed and none was answered;
\* only a lenient method turns this into an empty list
\* (request_with_retry, _safe_get_list).
THEOREM UnavailableMeansSo == Spec => []UnavailableIsTrue
<1>1. Inv => UnavailableIsTrue
  <2>. SUFFICES ASSUME Inv, NEW t \in Tasks, call[t].pc = "done"
       PROVE  /\ ~call[t].answered => call[t].failed = MaxAttempts
              /\ call[t].result = "unavailable" => ~call[t].answered
              /\ call[t].result = "empty" /\ ~call[t].answered
                   => call[t].kind = "lenient"
    BY DEF UnavailableIsTrue
  <2>1. CallOK(call[t]) /\ call[t].kind \in Kinds
    BY TypeParts DEF Inv, Call
  <2>. QED BY <2>1, ReturnedType DEF CallOK
<1>. QED BY <1>1, RequestsInvariant, PTL

\* Two calls of one client begin an interval apart, however many tasks share
\* it: who sleeps in the limiter holds its lock, and no other task of the
\* client begins before (DexScreenerClient._wait_for_rate_limit).
THEOREM CallsSpaced == Spec => CallsAreSpaced
<1>. DEFINE Spaced == \A t \in Tasks : call'[t].pc = "sent" /\ call[t].pc = "paces" =>
                          since[call[t].client] >= Interval
<1>1. Inv /\ [Next]_vars => [Spaced]_vars
  <2>. SUFFICES ASSUME Inv, Next, NEW t \in Tasks,
                       call'[t].pc = "sent", call[t].pc = "paces"
       PROVE  since[call[t].client] >= Interval
    OBVIOUS
  <2>1. call[t].timer = 0
    BY AttemptSteps
  <2>2. since[call[t].client] + call[t].timer >= Interval
    BY DEF Inv, Paced
  <2>3. since[call[t].client] \in Int
    BY TypeParts, IntervalAssumption DEF Inv, Call
  <2>. QED BY <2>1, <2>2, <2>3
<1>. QED BY <1>1, RequestsInvariant, PTL DEF Spec, CallsAreSpaced

\* A server that asks for a pause, up to the cap, is left alone for as long
\* (request_with_retry, _retry_after_seconds).
THEOREM HintsHonored == Spec => HintsAreHonored
<1>. DEFINE Honored == \A t \in Tasks :
                          call'[t].attempt > call[t].attempt => call[t].hint = 0
<1>1. Inv /\ [Next]_vars => [Honored]_vars
  <2>. SUFFICES ASSUME Inv, Next, NEW t \in Tasks, call'[t].attempt > call[t].attempt
       PROVE  call[t].hint = 0
    OBVIOUS
  <2>. QED BY AttemptSteps
<1>. QED BY <1>1, RequestsInvariant, PTL DEF Spec, HintsAreHonored
=============================================================================
