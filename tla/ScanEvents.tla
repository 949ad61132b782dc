----------------------------- MODULE ScanEvents -----------------------------
(***************************************************************************)
(* How a change of SCAN_STATE reaches a dashboard: the bounded queue each  *)
(* /api/events connection subscribes, the callbacks that fill it, the      *)
(* stream that empties it into the socket, and the page, which polls       *)
(* /api/scan/status while its stream is down.                              *)
(*                                                                         *)
(* A state of SCAN_STATE is its version: the number of changes so far.     *)
(***************************************************************************)
EXTENDS Integers, Sequences, SequencesExt

CONSTANTS
    Dashboards,   \* open browser tabs
    Prompt,       \* those that keep reading their socket
    Conns,        \* connections to /api/events, each used once
    NoConn,       \* a dashboard without a stream
    QueueMax,     \* _SUBSCRIBER_QUEUE_MAX, 64 in the code
    WireMax,      \* messages a socket takes before the stream has to wait
    MaxVersion    \* bound on the changes explored

ASSUME PromptAssumption == Prompt \subseteq Dashboards
ASSUME NoConnAssumption == NoConn \notin Conns
ASSUME BoundsAssumption ==
    /\ QueueMax \in Nat \ {0} /\ WireMax \in Nat \ {0} /\ MaxVersion \in Nat

VARIABLES
    version,    \* version of SCAN_STATE
    announced,  \* newest version that was broadcast
    conn,       \* the server's and the network's side of each connection
    dash        \* each page: its stream, what it shows, its status request

vars == <<version, announced, conn, dash>>

Event(type, v) == [type |-> type, version |-> v]
State(v) == Event("scan_state", v)
Step(v) == Event("scan_step", v)
Beat == Event("heartbeat", 0)

Nothing == -1    \* no version: nothing shown, nothing heard, no request

EmptyConn(pc) == [pc |-> pc, link |-> FALSE, lost |-> FALSE,
                  posted |-> <<>>, queue |-> <<>>, wire |-> <<>>]
UnusedConn == EmptyConn("unused")
ClosedConn == EmptyConn("closed")

Init ==
    /\ version = 0
    /\ announced = 0
    /\ conn = [n \in Conns |-> UnusedConn]
    /\ dash = [d \in Dashboards |-> [stream |-> NoConn, ask |-> "load",
                   fetch |-> Nothing, view |-> Nothing, heard |-> Nothing]]

-----------------------------------------------------------------------------
(***************************************************************************)
(* Changes of the scan state.                                              *)
(***************************************************************************)
Subscribed(n) == conn[n].pc \in {"subscribed", "streaming"}

\* call_soon_threadsafe: the put happens later, in the loop's order.
Broadcast(events) ==
    conn' = [n \in Conns |->
                IF Subscribed(n)
                THEN [conn[n] EXCEPT !.posted = @ \o events] ELSE conn[n]]

UpdateScanState ==
    /\ version < MaxVersion
    /\ version' = version + 1
    /\ announced' = version'
    /\ Broadcast(<<State(version')>>)
    /\ UNCHANGED dash

AppendScanStep ==
    /\ version < MaxVersion
    /\ version' = version + 1
    /\ announced' = version'
    /\ Broadcast(<<Step(version'), State(version')>>)
    /\ UNCHANGED dash

\* The claims of start_scan_job, start_manual_token_job and of the whale
\* worker change SCAN_STATE in place and broadcast nothing.
ClaimSilently ==
    /\ version < MaxVersion
    /\ version' = version + 1
    /\ UNCHANGED <<announced, conn, dash>>

Full(c) == Len(c.queue) = QueueMax

\* Mutant: asyncio.LifoQueue.
SafePut_Lifo(n) ==
    /\ conn[n].posted # <<>>
    /\ conn' = [conn EXCEPT
          ![n].posted = Tail(@),
          ![n].queue = IF Full(conn[n]) THEN @ ELSE <<Head(conn[n].posted)>> \o @,
          ![n].lost = @ \/ Full(conn[n])]
    /\ UNCHANGED <<version, announced, dash>>

\* Mutant: one slot of the queue is never used.
SafePut_OffByOne(n) ==
    /\ conn[n].posted # <<>>
    /\ conn' = [conn EXCEPT
          ![n].posted = Tail(@),
          ![n].queue = IF Len(@) >= QueueMax - 1 THEN @
                       ELSE Append(@, Head(conn[n].posted)),
          ![n].lost = @ \/ Full(conn[n])]
    /\ UNCHANGED <<version, announced, dash>>

\* _safe_put_nowait: an event that finds the queue full is dropped; lost
\* remembers that for the properties.
Put(c) ==
    [c EXCEPT !.posted = Tail(@),
              !.queue = IF Full(c) THEN @ ELSE Append(@, Head(c.posted)),
              !.lost = @ \/ Full(c)]

SafePut(n) ==
    /\ conn[n].posted # <<>>
    /\ conn' = [conn EXCEPT ![n] = Put(conn[n])]
    /\ UNCHANGED <<version, announced, dash>>

-----------------------------------------------------------------------------
(***************************************************************************)
(* api_events.  The queue is registered when the request is handled, the   *)
(* snapshot read when the response starts to stream.                       *)
(***************************************************************************)
Connect(d, n) ==
    /\ dash[d].stream = NoConn
    /\ conn[n].pc = "unused"
    /\ conn' = [conn EXCEPT ![n].pc = "subscribed", ![n].link = TRUE]
    /\ dash' = [dash EXCEPT ![d].stream = n]
    /\ UNCHANGED <<version, announced>>

\* Once the browser is gone the stream writes to nobody.
Sent(c, e) == IF c.link THEN Append(c.wire, e) ELSE <<>>
HasRoom(c) == ~c.link \/ Len(c.wire) < WireMax

Snapshot(n) ==
    /\ conn[n].pc = "subscribed"
    /\ conn' = [conn EXCEPT ![n].pc = "streaming",
                            ![n].wire = Sent(conn[n], State(version))]
    /\ UNCHANGED <<version, announced, dash>>

\* The head of the queue is taken and e is written.
Taken(c, e) == [c EXCEPT !.queue = Tail(@), !.wire = Sent(c, e)]

\* Mutant: the timeout of the heartbeat cancels a get that has its event.
Forward_LosesOnTimeout(n) ==
    /\ conn[n].pc = "streaming"
    /\ conn[n].queue # <<>>
    /\ HasRoom(conn[n])
    /\ \E e \in {Head(conn[n].queue), Beat} :
          conn' = [conn EXCEPT ![n] = Taken(conn[n], e)]
    /\ UNCHANGED <<version, announced, dash>>

Forward(n) ==
    /\ conn[n].pc = "streaming"
    /\ conn[n].queue # <<>>
    /\ HasRoom(conn[n])
    /\ conn' = [conn EXCEPT ![n] = Taken(conn[n], Head(conn[n].queue))]
    /\ UNCHANGED <<version, announced, dash>>

Heartbeat(n) ==
    /\ conn[n].pc = "streaming"
    /\ conn[n].link
    /\ conn[n].queue = <<>>
    /\ HasRoom(conn[n])
    /\ conn' = [conn EXCEPT ![n].wire = Append(@, Beat)]
    /\ UNCHANGED <<version, announced, dash>>

ServerNotices(n) ==
    /\ conn[n].pc = "streaming"
    /\ ~conn[n].link
    /\ conn' = [conn EXCEPT ![n] = ClosedConn]
    /\ UNCHANGED <<version, announced, dash>>

-----------------------------------------------------------------------------
(***************************************************************************)
(* The page.  EventSource reconnects by itself; an error starts the        *)
(* fallback poll and the next scan_state event stops it.  At most one      *)
(* status request per page is in flight, a bound of the model.             *)
(***************************************************************************)
StopsPolling(ask) == IF ask = "poll" THEN "no" ELSE ask

Receive(d) ==
    LET n == dash[d].stream
        e == Head(conn[n].wire)
    IN
    /\ n # NoConn
    /\ conn[n].wire # <<>>
    /\ conn' = [conn EXCEPT ![n].wire = Tail(@)]
    /\ dash' = IF e.type = "scan_state"
               THEN [dash EXCEPT ![d] =
                       [@ EXCEPT !.view = e.version, !.heard = e.version,
                                 !.ask = StopsPolling(dash[d].ask)]]
               ELSE dash
    /\ UNCHANGED <<version, announced>>

\* A lost connection is only explored while another one is left.
StreamBreaks(d) ==
    LET n == dash[d].stream IN
    /\ n # NoConn
    /\ \E m \in Conns : conn[m].pc = "unused"
    /\ conn' = [conn EXCEPT ![n].link = FALSE, ![n].wire = <<>>]
    /\ dash' = [dash EXCEPT ![d] = [@ EXCEPT !.stream = NoConn, !.ask = "poll"]]
    /\ UNCHANGED <<version, announced>>

\* get_scan_state answers GET /api/scan/status; the answer travels.
StatusRead(d) ==
    /\ dash[d].ask # "no"
    /\ dash[d].fetch = Nothing
    /\ dash' = [dash EXCEPT ![d] =
                   [@ EXCEPT !.fetch = version,
                             !.ask = IF dash[d].ask = "load" THEN "no"
                                     ELSE dash[d].ask]]
    /\ UNCHANGED <<version, announced, conn>>

StatusShown(d) ==
    /\ dash[d].fetch # Nothing
    /\ dash' = [dash EXCEPT ![d] =
                   [@ EXCEPT !.view = dash[d].fetch, !.fetch = Nothing]]
    /\ UNCHANGED <<version, announced, conn>>

StatusFails(d) ==
    /\ dash[d].fetch # Nothing
    /\ dash' = [dash EXCEPT ![d].fetch = Nothing]
    /\ UNCHANGED <<version, announced, conn>>

-----------------------------------------------------------------------------
StreamStep(n) == Snapshot(n) \/ Forward(n) \/ Heartbeat(n) \/ ServerNotices(n)

PageStep(d) ==
    \/ \E n \in Conns : Connect(d, n)
    \/ Receive(d) \/ StreamBreaks(d)
    \/ StatusRead(d) \/ StatusShown(d) \/ StatusFails(d)

Next ==
    \/ UpdateScanState \/ AppendScanStep \/ ClaimSilently
    \/ \E n \in Conns : SafePut(n) \/ StreamStep(n)
    \/ \E d \in Dashboards : PageStep(d)

Spec == Init /\ [][Next]_vars

\* The event loop runs its callbacks and tasks; a prompt page reads.  A page
\* that is not prompt may never read, and no connection is promised.
FairSpec ==
    /\ Spec
    /\ \A n \in Conns : /\ WF_vars(SafePut(n)) /\ WF_vars(Snapshot(n))
                        /\ WF_vars(Forward(n))
    /\ \A d \in Prompt : WF_vars(Receive(d))

-----------------------------------------------------------------------------
(***************************************************************************)
(* Properties                                                              *)
(***************************************************************************)
Versions == 0..MaxVersion
Events == [type : {"scan_state", "scan_step"}, version : Versions]

\* The types of the variables, the bounds of the queue and of the socket, and
\* which of a connection's parts may be in use.
TypeOK ==
    /\ version \in Versions
    /\ announced \in 0..version
    /\ conn \in [Conns -> [pc : {"unused", "subscribed", "streaming", "closed"},
                           link : BOOLEAN, lost : BOOLEAN, posted : Seq(Events),
                           queue : Seq(Events), wire : Seq(Events \union {Beat})]]
    /\ dash \in [Dashboards -> [stream : Conns \union {NoConn},
                                ask : {"load", "poll", "no"},
                                fetch : Versions \union {Nothing},
                                view : Versions \union {Nothing},
                                heard : Versions \union {Nothing}]]
    /\ \A n \in Conns :
          /\ Len(conn[n].queue) <= QueueMax
          /\ Len(conn[n].wire) <= WireMax
          /\ conn[n].pc \in {"unused", "closed"} =>
                /\ ~conn[n].link
                /\ conn[n].posted = <<>> /\ conn[n].queue = <<>>
                /\ conn[n].wire = <<>>
          /\ conn[n].pc = "subscribed" => conn[n].wire = <<>>

\* What waits on one connection is in the order it happened, whatever was
\* dropped: only the snapshot may overtake, as it is read after subscribing.
EventsInOrder ==
    \A n \in Conns :
        LET waiting == conn[n].queue \o conn[n].posted IN
        \A i, j \in 1..Len(waiting) :
            i < j => waiting[i].version <= waiting[j].version

\* Who has heard a state of version heard and then reads all of way ends with
\* one that is not older than v.
EndsWith(heard, way, v) ==
    LET states == {i \in DOMAIN way : way[i].type = "scan_state"} IN
    \/ states = {} /\ heard >= v
    \/ \E i \in states : way[i].version >= v /\ \A j \in states : j <= i

\* A page whose stream never met a full queue has heard the newest announced
\* state or it is on its way, in whatever order subscription, snapshot and
\* changes came.
NothingLost ==
    \A d \in Dashboards :
        LET c == conn[dash[d].stream] IN
        dash[d].stream # NoConn /\ c.pc = "streaming" /\ ~c.lost
            => EndsWith(dash[d].heard, c.wire \o c.queue \o c.posted, announced)

Current(d) == dash[d].stream # NoConn /\ dash[d].heard >= announced

Overflowed(d) == dash[d].stream # NoConn /\ conn[dash[d].stream].lost

\* A prompt page whose stream stays up ends with the newest announced state,
\* unless its queue was full at some time.
StreamCatchesUp ==
    \A d \in Prompt :
        []<>(dash[d].stream = NoConn) \/ <>Overflowed(d) \/ <>[]Current(d)
=============================================================================
