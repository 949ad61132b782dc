-------------------------- MODULE ScanEvents_proofs --------------------------
(***************************************************************************)
(* Proofs about ScanEvents, for any dashboards and connections, any sizes  *)
(* of the queue and of the socket, and any number of changes.              *)
(***************************************************************************)
EXTENDS ScanEvents, SequenceTheorems, TLAPS

Conn == [pc : {"unused", "subscribed", "streaming", "closed"},
         link : BOOLEAN, lost : BOOLEAN, posted : Seq(Events),
         queue : Seq(Events), wire : Seq(Events \union {Beat})]

\* What TypeOK says of one connection.
ConnOK(c) ==
    /\ c \in Conn
    /\ Len(c.queue) <= QueueMax
    /\ Len(c.wire) <= WireMax
    /\ c.pc \in {"unused", "closed"} =>
          ~c.link /\ c.posted = <<>> /\ c.queue = <<>> /\ c.wire = <<>>
    /\ c.pc = "subscribed" => c.wire = <<>>

Dash == [stream : Conns \union {NoConn}, ask : {"load", "poll", "no"},
         fetch : Versions \union {Nothing}, view : Versions \union {Nothing},
         heard : Versions \union {Nothing}]

LEMMA TypeByConn ==
    TypeOK <=> /\ version \in Versions /\ announced \in 0..version
               /\ conn \in [Conns -> Conn] /\ \A n \in Conns : ConnOK(conn[n])
               /\ dash \in [Dashboards -> Dash]
  BY DEF TypeOK, ConnOK, Conn, Dash

LEMMA TypeAfter ==
    ASSUME version' \in Versions, announced' \in 0..version',
           conn' \in [Conns -> Conn], \A n \in Conns : ConnOK(conn'[n]),
           dash' \in [Dashboards -> Dash]
    PROVE  TypeOK'
  BY DEF TypeOK, ConnOK, Conn, Dash

-----------------------------------------------------------------------------
(***************************************************************************)
(* Types, one connection at a time.                                        *)
(***************************************************************************)
LEMMA EventTypes ==
    ASSUME NEW v \in Versions
    PROVE  State(v) \in Events /\ Step(v) \in Events
  BY DEF State, Step, Event, Events

LEMMA NoConnection == ConnOK(UnusedConn) /\ ConnOK(ClosedConn)
<1>1. UnusedConn \in Conn /\ ClosedConn \in Conn
  BY DEF UnusedConn, ClosedConn, EmptyConn, Conn
<1>2. Len(<<>>) = 0
  OBVIOUS
<1>. QED BY <1>1, <1>2, BoundsAssumption DEF ConnOK, UnusedConn, ClosedConn, EmptyConn

\* A change is put on the list of every connection that has subscribed.
LEMMA PostedType ==
    ASSUME NEW c, ConnOK(c), c.pc \in {"subscribed", "streaming"},
           NEW events \in Seq(Events)
    PROVE  ConnOK([c EXCEPT !.posted = @ \o events])
<1>. DEFINE new == [c EXCEPT !.posted = @ \o events]
<1>1. c.posted \o events \in Seq(Events)
  BY ConcatProperties DEF ConnOK, Conn
<1>2. /\ new \in Conn /\ new.queue = c.queue /\ new.wire = c.wire /\ new.pc = c.pc
  BY <1>1 DEF ConnOK, Conn
<1>. QED BY <1>2 DEF ConnOK

LEMMA BroadcastType ==
    ASSUME TypeOK, NEW events \in Seq(Events), Broadcast(events)
    PROVE  conn' \in [Conns -> Conn] /\ \A n \in Conns : ConnOK(conn'[n])
<1>1. \A n \in Conns : ConnOK(conn'[n])
  <2>. SUFFICES ASSUME NEW n \in Conns PROVE ConnOK(conn'[n])
    OBVIOUS
  <2>1. ConnOK(conn[n])
    BY TypeByConn
  <2>2. CASE Subscribed(n)
    <3>1. conn'[n] = [conn[n] EXCEPT !.posted = @ \o events]
      BY <2>2 DEF Broadcast
    <3>. QED BY <2>1, <2>2, <3>1, PostedType DEF Subscribed
  <2>3. CASE ~Subscribed(n)
    BY <2>1, <2>3 DEF Broadcast
  <2>. QED BY <2>2, <2>3
<1>2. DOMAIN conn' = Conns /\ conn' = [n \in Conns |-> conn'[n]]
  BY DEF Broadcast
<1>. QED BY <1>1, <1>2 DEF ConnOK

\* A step that gives one connection another value.
LEMMA OneConn ==
    ASSUME TypeOK, NEW n \in Conns, NEW c, ConnOK(c), conn' = [conn EXCEPT ![n] = c]
    PROVE  conn' \in [Conns -> Conn] /\ \A k \in Conns : ConnOK(conn'[k])
  BY TypeByConn DEF ConnOK

LEMMA PutType ==
    ASSUME NEW c, ConnOK(c), c.posted # <<>>
    PROVE  ConnOK(Put(c))
<1>. DEFINE queue == IF Full(c) THEN c.queue ELSE Append(c.queue, Head(c.posted))
<1>1. Tail(c.posted) \in Seq(Events) /\ Head(c.posted) \in Events
  BY HeadTailProperties DEF ConnOK, Conn
<1>2. queue \in Seq(Events) /\ Len(queue) <= QueueMax
  BY <1>1, BoundsAssumption DEF ConnOK, Conn, Full
<1>3. /\ Put(c) \in Conn /\ Put(c).queue = queue
      /\ Put(c).wire = c.wire /\ Put(c).pc = c.pc
  BY <1>1, <1>2 DEF ConnOK, Conn, Put, Full
<1>4. c.pc \notin {"unused", "closed"}
  BY DEF ConnOK
<1>. QED BY <1>2, <1>3, <1>4 DEF ConnOK

LEMMA SafePutType ==
    ASSUME TypeOK, NEW n \in Conns, SafePut(n)
    PROVE  TypeOK'
<1>. DEFINE c == conn[n]
<1>1. ConnOK(c) /\ c.posted # <<>>
  BY TypeByConn DEF SafePut
<1>2. ConnOK(Put(c))
  BY <1>1, PutType
<1>3. conn' \in [Conns -> Conn] /\ \A k \in Conns : ConnOK(conn'[k])
  BY <1>2, OneConn DEF SafePut
<1>. QED BY <1>3, TypeByConn, TypeAfter DEF SafePut

LEMMA SnapshotType ==
    ASSUME TypeOK, NEW n \in Conns, Snapshot(n)
    PROVE  TypeOK'
<1>. DEFINE c == conn[n]
            new == [c EXCEPT !.pc = "streaming", !.wire = Sent(c, State(version))]
<1>1. ConnOK(c) /\ c.wire = <<>> /\ State(version) \in Events
  BY TypeByConn, EventTypes DEF Snapshot, ConnOK
<1>2. /\ Sent(c, State(version)) \in Seq(Events \union {Beat})
      /\ Len(Sent(c, State(version))) <= WireMax
  <2>1. Sent(c, State(version)) \in {<<State(version)>>, <<>>}
    BY <1>1 DEF Sent
  <2>2. /\ <<State(version)>> \in Seq(Events \union {Beat})
        /\ Len(<<State(version)>>) = 1
    BY <1>1
  <2>3. <<>> \in Seq(Events \union {Beat}) /\ Len(<<>>) = 0
    BY EmptySeq
  <2>4. 1 <= WireMax /\ 0 <= WireMax
    BY BoundsAssumption
  <2>. QED BY <2>1, <2>2, <2>3, <2>4
<1>3. ConnOK(new)
  BY <1>1, <1>2 DEF ConnOK, Conn
<1>4. conn' = [conn EXCEPT ![n] = new]
  BY TypeByConn DEF Snapshot
<1>5. conn' \in [Conns -> Conn] /\ \A k \in Conns : ConnOK(conn'[k])
  BY <1>3, <1>4, OneConn
<1>. QED BY <1>5, TypeByConn, TypeAfter DEF Snapshot

LEMMA TakenType ==
    ASSUME NEW c, ConnOK(c), c.pc = "streaming", c.queue # <<>>, HasRoom(c),
           NEW e \in Events
    PROVE  ConnOK(Taken(c, e))
<1>1. Tail(c.queue) \in Seq(Events) /\ Len(Tail(c.queue)) = Len(c.queue) - 1
  BY HeadTailProperties DEF ConnOK, Conn
<1>2. /\ Sent(c, e) \in Seq(Events \union {Beat})
      /\ Len(Sent(c, e)) <= WireMax
  BY BoundsAssumption DEF Sent, HasRoom, ConnOK, Conn
<1>3. Len(c.queue) \in Nat
  BY DEF ConnOK, Conn
<1>4. /\ Taken(c, e) \in Conn /\ Taken(c, e).pc = c.pc
      /\ Taken(c, e).queue = Tail(c.queue) /\ Taken(c, e).wire = Sent(c, e)
  BY <1>1, <1>2 DEF ConnOK, Conn, Taken
<1>. QED BY <1>1, <1>2, <1>3, <1>4, BoundsAssumption DEF ConnOK

LEMMA ForwardType ==
    ASSUME TypeOK, NEW n \in Conns, Forward(n)
    PROVE  TypeOK'
<1>. DEFINE c == conn[n]
<1>1. ConnOK(c) /\ c.queue # <<>> /\ c.pc = "streaming" /\ HasRoom(c)
  BY TypeByConn DEF Forward
<1>2. Head(c.queue) \in Events
  BY <1>1, HeadTailProperties DEF ConnOK, Conn
<1>3. ConnOK(Taken(c, Head(c.queue)))
  BY <1>1, <1>2, TakenType
<1>4. conn' \in [Conns -> Conn] /\ \A k \in Conns : ConnOK(conn'[k])
  BY <1>3, OneConn DEF Forward
<1>. QED BY <1>4, TypeByConn, TypeAfter DEF Forward

LEMMA HeartbeatType ==
    ASSUME TypeOK, NEW n \in Conns, Heartbeat(n)
    PROVE  TypeOK'
<1>. DEFINE c == conn[n]
            new == [c EXCEPT !.wire = Append(c.wire, Beat)]
<1>1. ConnOK(c) /\ Len(c.wire) < WireMax /\ c.pc = "streaming"
  BY TypeByConn DEF Heartbeat, HasRoom
<1>2. /\ Append(c.wire, Beat) \in Seq(Events \union {Beat})
      /\ Len(Append(c.wire, Beat)) <= WireMax
  BY <1>1, BoundsAssumption DEF ConnOK, Conn
<1>3. ConnOK(new)
  BY <1>1, <1>2 DEF ConnOK, Conn
<1>4. conn' = [conn EXCEPT ![n] = new]
  BY TypeByConn DEF Heartbeat
<1>5. conn' \in [Conns -> Conn] /\ \A k \in Conns : ConnOK(conn'[k])
  BY <1>3, <1>4, OneConn
<1>. QED BY <1>5, TypeByConn, TypeAfter DEF Heartbeat

LEMMA StreamType ==
    ASSUME TypeOK, NEW n \in Conns, StreamStep(n)
    PROVE  TypeOK'
<1>1. CASE ServerNotices(n)
  <2>1. conn' \in [Conns -> Conn] /\ \A k \in Conns : ConnOK(conn'[k])
    BY <1>1, NoConnection, OneConn DEF ServerNotices
  <2>. QED BY <1>1, <2>1, TypeByConn, TypeAfter DEF ServerNotices
<1>. QED BY <1>1, SnapshotType, ForwardType, HeartbeatType DEF StreamStep

-----------------------------------------------------------------------------
(***************************************************************************)
(* Types, the page's steps.                                                *)
(***************************************************************************)
LEMMA ConnectType ==
    ASSUME TypeOK, NEW d \in Dashboards, NEW n \in Conns, Connect(d, n)
    PROVE  TypeOK'
<1>. DEFINE c == conn[n]
            new == [c EXCEPT !.pc = "subscribed", !.link = TRUE]
<1>1. ConnOK(c) /\ c.wire = <<>>
  BY TypeByConn DEF Connect, ConnOK
<1>2. ConnOK(new)
  BY <1>1 DEF ConnOK, Conn
<1>3. conn' = [conn EXCEPT ![n] = new]
  BY TypeByConn DEF Connect
<1>4. conn' \in [Conns -> Conn] /\ \A k \in Conns : ConnOK(conn'[k])
  BY <1>2, <1>3, OneConn
<1>5. dash' \in [Dashboards -> Dash]
  BY TypeByConn DEF Connect, Dash
<1>. QED BY <1>4, <1>5, TypeByConn, TypeAfter DEF Connect

LEMMA ReceiveType ==
    ASSUME TypeOK, NEW d \in Dashboards, Receive(d)
    PROVE  TypeOK'
<1>. DEFINE n == dash[d].stream
            c == conn[n]
            e == Head(c.wire)
            new == [c EXCEPT !.wire = Tail(c.wire)]
<1>1. n \in Conns
  BY TypeByConn DEF Receive, Dash
<1>2. ConnOK(c) /\ c.wire # <<>>
  BY <1>1, TypeByConn DEF Receive
<1>3. /\ e \in Events \union {Beat} /\ Tail(c.wire) \in Seq(Events \union {Beat})
      /\ Len(Tail(c.wire)) = Len(c.wire) - 1 /\ Len(c.wire) \in Nat
  BY <1>2, HeadTailProperties DEF ConnOK, Conn
<1>4. ConnOK(new)
  <2>1. c.pc = "streaming"
    BY <1>2 DEF ConnOK, Conn
  <2>2. /\ new \in Conn /\ new.pc = c.pc
        /\ new.queue = c.queue /\ new.wire = Tail(c.wire)
    BY <1>2, <1>3 DEF ConnOK, Conn
  <2>. QED BY <1>2, <1>3, <2>1, <2>2, BoundsAssumption DEF ConnOK
<1>5. conn' = [conn EXCEPT ![n] = new]
  BY <1>1, TypeByConn DEF Receive
<1>6. conn' \in [Conns -> Conn] /\ \A k \in Conns : ConnOK(conn'[k])
  BY <1>1, <1>4, <1>5, OneConn
<1>7. e.type = "scan_state" => e.version \in Versions
  BY <1>3 DEF Events, Beat, Event
<1>8. dash' \in [Dashboards -> Dash]
  BY <1>7, TypeByConn DEF Receive, Dash, StopsPolling
<1>. QED BY <1>6, <1>8, TypeByConn, TypeAfter DEF Receive

LEMMA StreamBreaksType ==
    ASSUME TypeOK, NEW d \in Dashboards, StreamBreaks(d)
    PROVE  TypeOK'
<1>. DEFINE n == dash[d].stream
            c == conn[n]
            new == [c EXCEPT !.link = FALSE, !.wire = <<>>]
<1>1. n \in Conns
  BY TypeByConn DEF StreamBreaks, Dash
<1>2. ConnOK(c) /\ c \in Conn
  BY <1>1, TypeByConn DEF ConnOK
<1>4. ConnOK(new)
  <2>1. /\ new \in Conn /\ new.pc = c.pc /\ ~new.link
        /\ new.posted = c.posted /\ new.queue = c.queue /\ new.wire = <<>>
    BY <1>2, EmptySeq DEF Conn
  <2>. QED BY <1>2, <2>1, BoundsAssumption DEF ConnOK
<1>5. conn' = [conn EXCEPT ![n] = new]
  BY <1>1, TypeByConn DEF StreamBreaks
<1>6. conn' \in [Conns -> Conn] /\ \A k \in Conns : ConnOK(conn'[k])
  BY <1>1, <1>4, <1>5, OneConn
<1>7. dash' \in [Dashboards -> Dash]
  BY TypeByConn DEF StreamBreaks, Dash
<1>. QED BY <1>6, <1>7, TypeByConn, TypeAfter DEF StreamBreaks

LEMMA StatusType ==
    ASSUME TypeOK, NEW d \in Dashboards,
           StatusRead(d) \/ StatusShown(d) \/ StatusFails(d)
    PROVE  TypeOK'
<1>1. dash[d] \in Dash /\ version \in Versions
  BY TypeByConn
<1>2. \A new \in Dash :
         dash' = [dash EXCEPT ![d] = new] => dash' \in [Dashboards -> Dash]
  BY TypeByConn
<1>3. CASE StatusRead(d)
  <2>1. [dash[d] EXCEPT !.fetch = version,
                        !.ask = IF dash[d].ask = "load" THEN "no"
                                ELSE dash[d].ask] \in Dash
    BY <1>1 DEF Dash
  <2>2. dash' \in [Dashboards -> Dash]
    BY <1>2, <1>3, <2>1 DEF StatusRead
  <2>. QED BY <1>3, <2>2, TypeByConn, TypeAfter DEF StatusRead
<1>4. CASE StatusShown(d)
  <2>1. [dash[d] EXCEPT !.view = dash[d].fetch, !.fetch = Nothing] \in Dash
    BY <1>1 DEF Dash
  <2>2. dash' \in [Dashboards -> Dash]
    BY <1>2, <1>4, <2>1 DEF StatusShown
  <2>. QED BY <1>4, <2>2, TypeByConn, TypeAfter DEF StatusShown
<1>5. CASE StatusFails(d)
  <2>1. dash' \in [Dashboards -> Dash]
    BY <1>5, TypeByConn DEF StatusFails, Dash
  <2>. QED BY <1>5, <2>1, TypeByConn, TypeAfter DEF StatusFails
<1>. QED BY <1>3, <1>4, <1>5

-----------------------------------------------------------------------------
(***************************************************************************)
(* Types, the changes of the scan state, and the theorem.                  *)
(***************************************************************************)
LEMMA ChangeType ==
    ASSUME TypeOK, UpdateScanState \/ AppendScanStep \/ ClaimSilently
    PROVE  TypeOK'
<1>1. /\ version' \in Versions /\ version' = version + 1
      /\ announced' \in 0..version'
  BY BoundsAssumption DEF TypeOK, Versions, UpdateScanState, AppendScanStep, ClaimSilently
<1>2. /\ <<State(version')>> \in Seq(Events)
      /\ <<Step(version'), State(version')>> \in Seq(Events)
  BY <1>1, EventTypes
<1>3. conn' \in [Conns -> Conn] /\ \A n \in Conns : ConnOK(conn'[n])
  BY <1>2, BroadcastType, TypeByConn DEF UpdateScanState, AppendScanStep, ClaimSilently
<1>4. dash' \in [Dashboards -> Dash]
  BY TypeByConn DEF UpdateScanState, AppendScanStep, ClaimSilently
<1>. QED BY <1>1, <1>3, <1>4, TypeAfter

LEMMA InitType == Init => TypeOK
<1>. SUFFICES ASSUME Init PROVE TypeOK
  OBVIOUS
<1>1. conn \in [Conns -> Conn] /\ \A n \in Conns : ConnOK(conn[n])
  BY NoConnection DEF Init, ConnOK
<1>2. dash \in [Dashboards -> Dash]
  BY DEF Init, Dash
<1>. QED BY <1>1, <1>2, TypeByConn, BoundsAssumption DEF Init, Versions

LEMMA StepType == TypeOK /\ [Next]_vars => TypeOK'
<1>. SUFFICES ASSUME TypeOK, [Next]_vars PROVE TypeOK'
  OBVIOUS
<1>1. CASE UNCHANGED vars
  BY <1>1, TypeByConn, TypeAfter DEF vars
<1>2. ASSUME NEW d \in Dashboards, PageStep(d) PROVE TypeOK'
  BY <1>2, ConnectType, ReceiveType, StreamBreaksType, StatusType DEF PageStep
<1>. QED BY <1>1, <1>2, ChangeType, SafePutType, StreamType DEF Next

\* Every message keeps to the bounds of the queue and of the socket, and a
\* connection that is not in use holds nothing (scan_state._safe_put_nowait,
\* web_server.api_events).
THEOREM EventsTyped == Spec => []TypeOK
  BY InitType, StepType, PTL DEF Spec

-----------------------------------------------------------------------------
(***************************************************************************)
(* The order.  What waits for the queue and what waits in it are each      *)
(* sorted, the queue is the older part, and nothing is newer than the scan *)
(* state: that a change is announced with a version of its own is what     *)
(* makes the order inductive.                                              *)
(***************************************************************************)
Sorted(s) == \A i, j \in 1..Len(s) : i < j => s[i].version <= s[j].version
UpTo(s, v) == \A i \in 1..Len(s) : s[i].version <= v
Before(s, t) == \A i \in 1..Len(s), j \in 1..Len(t) : s[i].version <= t[j].version

ConnOrder(c, v) == /\ Sorted(c.queue) /\ Sorted(c.posted)
                   /\ Before(c.queue, c.posted)
                   /\ UpTo(c.queue, v) /\ UpTo(c.posted, v)

Order == \A n \in Conns : ConnOrder(conn[n], version)

LEMMA EventVersion ==
    ASSUME NEW s \in Seq(Events), NEW i \in 1..Len(s)
    PROVE  s[i] \in Events /\ s[i].version \in Int
<1>1. s[i] \in Events
  OBVIOUS
<1>2. \A e \in Events : e.version \in Int
  BY BoundsAssumption DEF Events, Versions
<1>. QED BY <1>1, <1>2

LEMMA EmptyOrder ==
    ASSUME NEW c, NEW v, c.queue = <<>>, c.posted = <<>>
    PROVE  ConnOrder(c, v)
<1>1. Len(<<>>) = 0
  OBVIOUS
<1>. QED BY <1>1 DEF ConnOrder, Sorted, Before, UpTo

\* Newer events are put behind the others.
LEMMA ConcatOrder ==
    ASSUME NEW s \in Seq(Events), NEW t \in Seq(Events), NEW v \in Int,
           Sorted(s), UpTo(s, v),
           \A i \in 1..Len(t) : t[i].version = v + 1
    PROVE  Sorted(s \o t) /\ UpTo(s \o t, v + 1)
<1>1. /\ s \o t \in Seq(Events) /\ Len(s \o t) = Len(s) + Len(t)
      /\ \A i \in 1..Len(s) : (s \o t)[i] = s[i]
      /\ \A i \in Len(s) + 1 .. Len(s \o t) :
            (s \o t)[i] = t[i - Len(s)] /\ i - Len(s) \in 1..Len(t)
  BY ConcatProperties
<1>2. \A i \in 1..Len(s \o t) : i \in 1..Len(s) \/ i \in Len(s) + 1 .. Len(s \o t)
  BY <1>1
<1>3. \A i \in 1..Len(s) : (s \o t)[i].version <= v /\ s[i].version \in Int
  BY <1>1, EventVersion DEF UpTo
<1>4. \A i \in Len(s) + 1 .. Len(s \o t) : (s \o t)[i].version = v + 1
  BY <1>1
<1>. QED BY <1>1, <1>2, <1>3, <1>4 DEF Sorted, UpTo

\* Two sorted parts, the older first, make a sorted whole.
LEMMA JoinOrder ==
    ASSUME NEW s \in Seq(Events), NEW t \in Seq(Events),
           Sorted(s), Sorted(t), Before(s, t)
    PROVE  Sorted(s \o t)
<1>1. /\ Len(s \o t) = Len(s) + Len(t) /\ Len(s) \in Nat /\ Len(t) \in Nat
      /\ \A i \in 1..Len(s) : (s \o t)[i] = s[i]
      /\ \A i \in Len(s) + 1 .. Len(s \o t) :
            (s \o t)[i] = t[i - Len(s)] /\ i - Len(s) \in 1..Len(t)
  BY ConcatProperties
<1>2. \A i \in 1..Len(s \o t) : i \in 1..Len(s) \/ i \in Len(s) + 1 .. Len(s \o t)
  BY <1>1
<1>. SUFFICES ASSUME NEW i \in 1..Len(s \o t), NEW j \in 1..Len(s \o t), i < j
     PROVE  (s \o t)[i].version <= (s \o t)[j].version
  BY DEF Sorted
<1>3. CASE i \in 1..Len(s) /\ j \in 1..Len(s)
  BY <1>1, <1>3 DEF Sorted
<1>4. CASE i \in 1..Len(s) /\ j \in Len(s) + 1 .. Len(s \o t)
  BY <1>1, <1>4 DEF Before
<1>5. CASE i \in Len(s) + 1 .. Len(s \o t) /\ j \in Len(s) + 1 .. Len(s \o t)
  <2>1. i - Len(s) < j - Len(s)
    BY <1>1, <1>5
  <2>. QED BY <1>1, <1>5, <2>1 DEF Sorted
<1>. QED BY <1>1, <1>2, <1>3, <1>4, <1>5
LEMMA TailOrder ==
    ASSUME NEW s \in Seq(Events), s # <<>>, Sorted(s)
    PROVE  /\ Sorted(Tail(s))
           /\ \A v : UpTo(s, v) => UpTo(Tail(s), v)
           /\ \A t : Before(s, t) => Before(Tail(s), t)
           /\ \A t : Before(t, s) => Before(t, Tail(s))
           /\ Before(<<Head(s)>>, Tail(s))
<1>1. /\ Len(Tail(s)) = Len(s) - 1 /\ Len(s) \in Nat /\ Len(s) > 0
      /\ \A i \in 1..Len(Tail(s)) : Tail(s)[i] = s[i + 1] /\ i + 1 \in 1..Len(s)
      /\ Head(s) = s[1] /\ 1 \in 1..Len(s)
  BY HeadTailProperties
<1>2. Sorted(Tail(s))
  BY <1>1 DEF Sorted
<1>3. \A v : UpTo(s, v) => UpTo(Tail(s), v)
  BY <1>1 DEF UpTo
<1>4. /\ \A t : Before(s, t) => Before(Tail(s), t)
      /\ \A t : Before(t, s) => Before(t, Tail(s))
  BY <1>1 DEF Before
<1>5. \A i \in 1..Len(Tail(s)) : s[1].version <= Tail(s)[i].version
  BY <1>1 DEF Sorted
<1>6. Before(<<Head(s)>>, Tail(s))
  BY <1>1, <1>5 DEF Before
<1>. QED BY <1>2, <1>3, <1>4, <1>6

\* A new event is the last of a queue whose events are all older.
LEMMA AppendOrder ==
    ASSUME NEW s \in Seq(Events), NEW t \in Seq(Events), t # <<>>, NEW v \in Int,
           Sorted(s), Before(s, t), UpTo(s, v), UpTo(t, v), Sorted(t)
    PROVE  /\ Sorted(Append(s, Head(t))) /\ UpTo(Append(s, Head(t)), v)
           /\ Before(Append(s, Head(t)), Tail(t))
<1>. DEFINE r == Append(s, Head(t))
<1>1. /\ Head(t) = t[1] /\ 1 \in 1..Len(t) /\ Len(s) \in Nat
      /\ Len(r) = Len(s) + 1 /\ r[Len(s) + 1] = t[1]
      /\ \A i \in 1..Len(s) : r[i] = s[i]
  BY HeadTailProperties, AppendProperties
<1>2. \A i \in 1..Len(r) : i \in 1..Len(s) \/ i = Len(s) + 1
  BY <1>1
<1>3. \A i \in 1..Len(s) : s[i].version <= t[1].version
  BY <1>1 DEF Before
<1>4. t[1].version <= v
  BY <1>1 DEF UpTo
<1>5. Before(s, Tail(t)) /\ Before(<<t[1]>>, Tail(t))
  BY <1>1, TailOrder
<1>6. \A j \in 1..Len(Tail(t)) : t[1].version <= Tail(t)[j].version
  <2>1. Len(<<t[1]>>) = 1 /\ <<t[1]>>[1] = t[1]
    OBVIOUS
  <2>. QED BY <1>5, <2>1 DEF Before
<1>7. Sorted(r) /\ UpTo(r, v)
  BY <1>1, <1>2, <1>3, <1>4 DEF Sorted, UpTo
<1>8. Before(r, Tail(t))
  BY <1>1, <1>2, <1>5, <1>6 DEF Before
<1>. QED BY <1>7, <1>8

LEMMA PutOrder ==
    ASSUME NEW c, ConnOK(c), c.posted # <<>>, NEW v \in Int, ConnOrder(c, v)
    PROVE  ConnOrder(Put(c), v)
<1>1. c.queue \in Seq(Events) /\ c.posted \in Seq(Events)
  BY DEF ConnOK, Conn
<1>2. /\ Put(c).posted = Tail(c.posted)
      /\ Put(c).queue = IF Full(c) THEN c.queue ELSE Append(c.queue, Head(c.posted))
  BY DEF ConnOK, Conn, Put, Full
<1>3. /\ Sorted(Tail(c.posted)) /\ UpTo(Tail(c.posted), v)
      /\ Before(c.queue, Tail(c.posted))
  BY <1>1, TailOrder DEF ConnOrder
<1>4. LET r == Append(c.queue, Head(c.posted)) IN
      Sorted(r) /\ UpTo(r, v) /\ Before(r, Tail(c.posted))
  BY <1>1, AppendOrder DEF ConnOrder
<1>. QED BY <1>2, <1>3, <1>4 DEF ConnOrder

LEMMA BroadcastOrder ==
    ASSUME TypeOK, Order, version' = version + 1, NEW events \in Seq(Events),
           \A i \in 1..Len(events) : events[i].version = version + 1,
           Broadcast(events)
    PROVE  Order'
<1>. SUFFICES ASSUME NEW n \in Conns PROVE ConnOrder(conn'[n], version + 1)
  BY DEF Order
<1>. DEFINE c == conn[n]
<1>1. ConnOK(c) /\ version \in Int /\ ConnOrder(c, version)
  BY TypeByConn DEF Order, Versions
<1>2. c.queue \in Seq(Events) /\ c.posted \in Seq(Events)
  BY <1>1 DEF ConnOK, Conn
<1>3. UpTo(c.queue, version + 1) /\ UpTo(c.posted, version + 1)
  BY <1>1, <1>2, EventVersion DEF ConnOrder, UpTo
<1>4. CASE Subscribed(n)
  <2>1. conn'[n].queue = c.queue /\ conn'[n].posted = c.posted \o events
    BY <1>1, <1>4 DEF Broadcast, ConnOK, Conn
  <2>2. Sorted(c.posted \o events) /\ UpTo(c.posted \o events, version + 1)
    BY <1>1, <1>2, ConcatOrder DEF ConnOrder
  <2>3. Before(c.queue, c.posted \o events)
    <3>1. /\ Len(c.posted \o events) = Len(c.posted) + Len(events)
          /\ \A i \in 1..Len(c.posted) : (c.posted \o events)[i] = c.posted[i]
          /\ \A i \in Len(c.posted) + 1 .. Len(c.posted \o events) :
                (c.posted \o events)[i] = events[i - Len(c.posted)]
      BY <1>2, ConcatProperties
    <3>2. \A i \in 1..Len(c.posted \o events) :
             \/ i \in 1..Len(c.posted)
             \/ /\ i \in Len(c.posted) + 1 .. Len(c.posted \o events)
                /\ i - Len(c.posted) \in 1..Len(events)
      BY <1>2, <3>1
    <3>3. \A i \in 1..Len(c.posted \o events) :
             \/ i \in 1..Len(c.posted)
             \/ (c.posted \o events)[i].version = version + 1
      BY <3>1, <3>2
    <3>. QED BY <1>1, <1>3, <3>1, <3>3 DEF ConnOrder, Before, UpTo
  <2>. QED BY <1>1, <1>3, <2>1, <2>2, <2>3 DEF ConnOrder
<1>5. CASE ~Subscribed(n)
  BY <1>1, <1>3, <1>5 DEF Broadcast, ConnOrder
<1>. QED BY <1>4, <1>5

LEMMA ChangeOrder ==
    ASSUME TypeOK, Order, UpdateScanState \/ AppendScanStep \/ ClaimSilently
    PROVE  Order'
<1>1. version \in Int /\ version + 1 \in Versions /\ version' = version + 1
  BY BoundsAssumption DEF TypeOK, Versions, UpdateScanState, AppendScanStep, ClaimSilently
<1>2. CASE UpdateScanState
  <2>1. <<State(version')>> \in Seq(Events)
    BY <1>1, EventTypes
  <2>2. \A i \in 1..Len(<<State(version')>>) :
           <<State(version')>>[i].version = version + 1
    BY <1>1 DEF State, Event
  <2>. QED BY <1>1, <1>2, <2>1, <2>2, BroadcastOrder DEF UpdateScanState
<1>3. CASE AppendScanStep
  <2>. DEFINE two == <<Step(version'), State(version')>>
  <2>1. two \in Seq(Events)
    BY <1>1, EventTypes
  <2>2. \A i \in 1..Len(two) : two[i].version = version + 1
    BY <1>1 DEF State, Step, Event
  <2>. QED BY <1>1, <1>3, <2>1, <2>2, BroadcastOrder DEF AppendScanStep
<1>4. CASE ClaimSilently
  <2>. SUFFICES ASSUME NEW n \in Conns PROVE ConnOrder(conn[n], version + 1)
    BY <1>1, <1>4 DEF Order, ClaimSilently
  <2>1. conn[n].queue \in Seq(Events) /\ conn[n].posted \in Seq(Events)
    BY TypeByConn DEF ConnOK, Conn
  <2>. QED BY <1>1, <2>1, EventVersion DEF Order, ConnOrder, UpTo
<1>. QED BY <1>2, <1>3, <1>4

\* The steps that leave what waits on a connection alone or shorten it.
LEMMA QuietOrder ==
    ASSUME TypeOK, Order, version' = version,
           \A n \in Conns : conn'[n].queue = conn[n].queue
                            /\ conn'[n].posted = conn[n].posted
    PROVE  Order'
  BY DEF Order, ConnOrder

LEMMA KeptOrder ==
    ASSUME TypeOK, Order, version' = version, NEW n \in Conns, NEW c,
           conn' = [conn EXCEPT ![n] = c],
           c.queue = conn[n].queue, c.posted = conn[n].posted
    PROVE  Order'
<1>1. \A k \in Conns : conn'[k] = IF k = n THEN c ELSE conn[k]
  BY TypeByConn
<1>. QED BY <1>1, QuietOrder

LEMMA PageOrder ==
    ASSUME TypeOK, Order, NEW d \in Dashboards, PageStep(d)
    PROVE  Order'
<1>. DEFINE n == dash[d].stream
<1>1. n # NoConn => n \in Conns
  BY TypeByConn DEF Dash
<1>2. \A k \in Conns : conn[k] \in Conn
  BY TypeByConn
<1>3. ASSUME NEW k \in Conns, Connect(d, k) PROVE Order'
  <2>. DEFINE new == [conn[k] EXCEPT !.pc = "subscribed", !.link = TRUE]
  <2>1. conn' = [conn EXCEPT ![k] = new]
    BY <1>3, TypeByConn DEF Connect
  <2>2. new.queue = conn[k].queue /\ new.posted = conn[k].posted
    BY <1>2 DEF Conn
  <2>. QED BY <1>3, <2>1, <2>2, KeptOrder DEF Connect
<1>4. CASE Receive(d)
  <2>. DEFINE new == [conn[n] EXCEPT !.wire = Tail(conn[n].wire)]
  <2>1. conn' = [conn EXCEPT ![n] = new] /\ n \in Conns
    BY <1>1, <1>4, TypeByConn DEF Receive
  <2>2. new.queue = conn[n].queue /\ new.posted = conn[n].posted
    BY <1>2, <2>1 DEF Conn
  <2>. QED BY <1>4, <2>1, <2>2, KeptOrder DEF Receive
<1>5. CASE StreamBreaks(d)
  <2>. DEFINE new == [conn[n] EXCEPT !.link = FALSE, !.wire = <<>>]
  <2>1. conn' = [conn EXCEPT ![n] = new] /\ n \in Conns
    BY <1>1, <1>5, TypeByConn DEF StreamBreaks
  <2>2. new.queue = conn[n].queue /\ new.posted = conn[n].posted
    BY <1>2, <2>1 DEF Conn
  <2>. QED BY <1>5, <2>1, <2>2, KeptOrder DEF StreamBreaks
<1>6. CASE StatusRead(d) \/ StatusShown(d) \/ StatusFails(d)
  BY <1>6, QuietOrder DEF StatusRead, StatusShown, StatusFails
<1>. QED BY <1>3, <1>4, <1>5, <1>6 DEF PageStep

LEMMA StreamOrder ==
    ASSUME TypeOK, Order, NEW n \in Conns, StreamStep(n)
    PROVE  Order'
<1>. DEFINE c == conn[n]
<1>1. version' = version /\ ConnOK(c) /\ c \in Conn
  BY TypeByConn
  DEF StreamStep, Snapshot, Forward, Heartbeat, ServerNotices, ConnOK
<1>2. CASE Snapshot(n) \/ Heartbeat(n)
  <2>1. \A pc, wire :
           LET new == [c EXCEPT !.pc = pc, !.wire = wire] IN
           new.queue = c.queue /\ new.posted = c.posted
    BY <1>1 DEF Conn
  <2>2. CASE Snapshot(n)
    <3>1. conn' = [conn EXCEPT ![n] = [c EXCEPT !.pc = "streaming",
                                         !.wire = Sent(c, State(version))]]
      BY <2>2, TypeByConn DEF Snapshot
    <3>. QED BY <1>1, <2>1, <3>1, KeptOrder
  <2>3. CASE Heartbeat(n)
    <3>1. conn' = [conn EXCEPT ![n] = [c EXCEPT !.wire = Append(c.wire, Beat)]]
      BY <2>3, TypeByConn DEF Heartbeat
    <3>2. /\ [c EXCEPT !.wire = Append(c.wire, Beat)].queue = c.queue
          /\ [c EXCEPT !.wire = Append(c.wire, Beat)].posted = c.posted
      BY <1>1 DEF Conn
    <3>. QED BY <1>1, <3>1, <3>2, KeptOrder
  <2>. QED BY <1>2, <2>2, <2>3
<1>3. CASE Forward(n)
  <2>1. /\ c.queue \in Seq(Events) /\ c.queue # <<>> /\ ConnOrder(c, version)
    BY <1>1, <1>3 DEF Conn, Forward, Order
  <2>2. conn' = [conn EXCEPT ![n] = Taken(c, Head(c.queue))]
    BY <1>3 DEF Forward
  <2>3. /\ Taken(c, Head(c.queue)).queue = Tail(c.queue)
        /\ Taken(c, Head(c.queue)).posted = c.posted
    BY <1>1 DEF Taken, Conn
  <2>4. ConnOrder(Taken(c, Head(c.queue)), version)
    BY <2>1, <2>3, TailOrder DEF ConnOrder
  <2>5. \A k \in Conns : conn'[k] = IF k = n THEN Taken(c, Head(c.queue)) ELSE conn[k]
    BY <2>2, TypeByConn
  <2>. QED BY <1>1, <2>4, <2>5 DEF Order
<1>4. CASE ServerNotices(n)
  <2>1. ConnOrder(ClosedConn, version)
    BY EmptyOrder DEF ClosedConn, EmptyConn
  <2>2. \A k \in Conns : conn'[k] = IF k = n THEN ClosedConn ELSE conn[k]
    BY <1>4, TypeByConn DEF ServerNotices
  <2>. QED BY <1>1, <2>1, <2>2 DEF Order
<1>. QED BY <1>2, <1>3, <1>4 DEF StreamStep

LEMMA StepOrder ==
    ASSUME TypeOK, Order, [Next]_vars
    PROVE  Order'
<1>1. CASE UNCHANGED vars
  BY <1>1 DEF vars, Order
<1>2. ASSUME NEW n \in Conns, SafePut(n) PROVE Order'
  <2>1. ConnOK(conn[n]) /\ conn[n].posted # <<>> /\ version \in Int /\ version' = version
    BY <1>2, TypeByConn DEF SafePut, Versions
  <2>2. ConnOrder(Put(conn[n]), version)
    BY <2>1, PutOrder DEF Order
  <2>3. \A k \in Conns : conn'[k] = IF k = n THEN Put(conn[n]) ELSE conn[k]
    BY <1>2, TypeByConn DEF SafePut
  <2>. QED BY <2>1, <2>2, <2>3 DEF Order
<1>. QED BY <1>1, <1>2, ChangeOrder, StreamOrder, PageOrder DEF Next

LEMMA OrderGivesEvents == TypeOK /\ Order => EventsInOrder
<1>. SUFFICES ASSUME TypeOK, Order, NEW n \in Conns
     PROVE  Sorted(conn[n].queue \o conn[n].posted)
  BY DEF EventsInOrder, Sorted
<1>1. conn[n].queue \in Seq(Events) /\ conn[n].posted \in Seq(Events)
  BY TypeByConn DEF ConnOK, Conn
<1>. QED BY <1>1, JoinOrder DEF Order, ConnOrder

\* What waits for a page is in the order it happened, for any number of
\* changes and connections and whatever a full queue drops
\* (scan_state._broadcast and _safe_put_nowait).
THEOREM EventsOrdered == Spec => []EventsInOrder
<1>1. Init => Order
  BY EmptyOrder DEF Init, Order, UnusedConn, EmptyConn
<1>2. TypeOK /\ Order /\ [Next]_vars => Order'
  BY StepOrder
<1>. QED BY <1>1, <1>2, EventsTyped, OrderGivesEvents, PTL DEF Spec

-----------------------------------------------------------------------------
(***************************************************************************)
(* Nothing is lost.  The newest announced state is the last of what waits  *)
(* for a stream; when nothing waits, it is on the wire or has been heard.  *)
(* That a page is the only reader of a linked stream keeps it that way.    *)
(***************************************************************************)
ConnEnds(c, v) ==
    /\ c.posted # <<>> => Last(c.posted) = State(v)
    /\ c.posted = <<>> /\ c.queue # <<>> => Last(c.queue) = State(v)

OwnStream(d) ==
    dash[d].stream # NoConn =>
        /\ Subscribed(dash[d].stream)
        /\ conn[dash[d].stream].link
        /\ \A e \in Dashboards : dash[e].stream = dash[d].stream => e = d

Live(d) ==
    /\ dash[d].stream # NoConn
    /\ conn[dash[d].stream].pc = "streaming"
    /\ ~conn[dash[d].stream].lost

WireEnds(d) ==
    LET c == conn[dash[d].stream] IN
    Live(d) /\ c.queue = <<>> /\ c.posted = <<>>
        => EndsWith(dash[d].heard, c.wire, announced)

Delivery ==
    /\ \A n \in Conns :
          Subscribed(n) /\ ~conn[n].lost => ConnEnds(conn[n], announced)
    /\ \A d \in Dashboards : OwnStream(d) /\ WireEnds(d)

Messages == Events \union {Beat}

LEMMA EndsInState ==
    ASSUME NEW way \in Seq(Messages), way # <<>>, NEW heard, NEW w \in Int, NEW v \in Int,
           w >= v, Last(way) = State(w)
    PROVE  EndsWith(heard, way, v)
<1>1. Len(way) \in DOMAIN way /\ \A j \in DOMAIN way : j <= Len(way)
  OBVIOUS
<1>2. way[Len(way)].type = "scan_state" /\ way[Len(way)].version = w
  BY DEF Last, State, Event
<1>. QED BY <1>1, <1>2 DEF EndsWith

LEMMA EndsAfterBeat ==
    ASSUME NEW way \in Seq(Messages), NEW heard, NEW v, EndsWith(heard, way, v)
    PROVE  EndsWith(heard, Append(way, Beat), v)
<1>. DEFINE longer == Append(way, Beat)
<1>1. /\ Len(longer) = Len(way) + 1 /\ longer[Len(way) + 1] = Beat /\ Len(way) \in Nat
      /\ \A i \in 1..Len(way) : longer[i] = way[i]
      /\ DOMAIN way = 1..Len(way) /\ DOMAIN longer = 1..Len(longer)
  BY AppendProperties DEF Messages
<1>2. Beat.type # "scan_state"
  BY DEF Beat, Event
<1>3. \A i \in DOMAIN longer : longer[i].type = "scan_state"
         => i \in DOMAIN way /\ way[i].type = "scan_state"
  BY <1>1, <1>2
<1>4. \A i \in DOMAIN way : i \in DOMAIN longer /\ longer[i] = way[i]
  BY <1>1
<1>. HIDE DEF longer
<1>5. {i \in DOMAIN longer : longer[i].type = "scan_state"}
         = {i \in DOMAIN way : way[i].type = "scan_state"}
  BY <1>3, <1>4
<1>6. EndsWith(heard, longer, v)
  BY <1>4, <1>5 DEF EndsWith
<1>. QED BY <1>6 DEF longer

\* The page reads the first message; what follows ends as before.
LEMMA EndsAfterRead ==
    ASSUME NEW way \in Seq(Messages), way # <<>>, NEW heard, NEW v,
           EndsWith(heard, way, v)
    PROVE  EndsWith(IF Head(way).type = "scan_state" THEN Head(way).version ELSE heard,
                    Tail(way), v)
<1>. DEFINE rest == Tail(way)
            now == IF Head(way).type = "scan_state" THEN Head(way).version ELSE heard
<1>1. /\ Len(rest) = Len(way) - 1 /\ Len(way) \in Nat \ {0}
      /\ \A i \in 1..Len(rest) : rest[i] = way[i + 1]
      /\ DOMAIN way = 1..Len(way) /\ DOMAIN rest = 1..Len(rest)
      /\ Head(way) = way[1]
  BY HeadTailProperties
<1>2. \A i \in DOMAIN rest : i + 1 \in DOMAIN way /\ rest[i] = way[i + 1]
  BY <1>1
<1>3. \A i \in DOMAIN way : i = 1 \/ (i - 1 \in DOMAIN rest /\ rest[i - 1] = way[i])
  BY <1>1
<1>. HIDE DEF rest
<1>4. CASE \A i \in DOMAIN way : way[i].type # "scan_state"
  <2>1. heard >= v /\ 1 \in DOMAIN way
    BY <1>1, <1>4 DEF EndsWith
  <2>2. \A i \in DOMAIN rest : rest[i].type # "scan_state"
    BY <1>2, <1>4
  <2>. QED BY <1>1, <1>4, <2>1, <2>2 DEF EndsWith
<1>5. ASSUME NEW i \in DOMAIN way, way[i].type = "scan_state", way[i].version >= v,
             \A j \in DOMAIN way : way[j].type = "scan_state" => j <= i
      PROVE  EndsWith(now, rest, v)
  <2>1. CASE i = 1
    <3>1. \A j \in DOMAIN rest : rest[j].type # "scan_state"
      BY <1>1, <1>2, <1>5, <2>1
    <3>. QED BY <1>1, <1>5, <2>1, <3>1 DEF EndsWith
  <2>2. CASE i # 1
    <3>1. i - 1 \in DOMAIN rest /\ rest[i - 1] = way[i]
      BY <1>3, <2>2
    <3>2. \A j \in DOMAIN rest : rest[j].type = "scan_state" => j <= i - 1
      BY <1>1, <1>2, <1>5
    <3>. QED BY <1>5, <3>1, <3>2 DEF EndsWith
  <2>. QED BY <2>1, <2>2
<1>. QED BY <1>4, <1>5 DEF EndsWith, rest

LEMMA ConcatLast ==
    ASSUME NEW S, NEW s \in Seq(S), NEW t \in Seq(S), t # <<>>
    PROVE  s \o t \in Seq(S) /\ s \o t # <<>> /\ Last(s \o t) = Last(t)
<1>1. /\ s \o t \in Seq(S) /\ Len(s \o t) = Len(s) + Len(t)
      /\ Len(s) \in Nat /\ Len(t) \in Nat \ {0}
      /\ \A i \in Len(s) + 1 .. Len(s \o t) : (s \o t)[i] = t[i - Len(s)]
  BY ConcatProperties
<1>. QED BY <1>1 DEF Last

LEMMA DeliveryGivesNothingLost == TypeOK /\ Delivery => NothingLost
<1>. SUFFICES ASSUME TypeOK, Delivery, NEW d \in Dashboards, Live(d)
     PROVE  LET c == conn[dash[d].stream]
            IN  EndsWith(dash[d].heard, c.wire \o c.queue \o c.posted, announced)
  BY DEF NothingLost, Live
<1>. DEFINE n == dash[d].stream
            c == conn[n]
<1>1. n \in Conns /\ ConnOK(c) /\ announced \in Int
  BY TypeByConn DEF Live, Dash, Versions
<1>2. /\ c.wire \in Seq(Messages) /\ c.queue \in Seq(Messages)
      /\ c.posted \in Seq(Messages)
  <2>1. /\ c.wire \in Seq(Events \union {Beat}) /\ c.queue \in Seq(Events)
        /\ c.posted \in Seq(Events)
    BY <1>1 DEF ConnOK, Conn
  <2>2. \A s \in Seq(Events) : s \in Seq(Messages)
    BY DEF Messages
  <2>. QED BY <2>1, <2>2 DEF Messages
<1>3. ConnEnds(c, announced)
  BY <1>1 DEF Delivery, Live, Subscribed
<1>4. c.wire \o c.queue \in Seq(Messages)
  BY <1>2, ConcatProperties
<1>5. CASE c.posted # <<>>
  <2>. DEFINE way == (c.wire \o c.queue) \o c.posted
  <2>1. way \in Seq(Messages) /\ way # <<>> /\ Last(way) = State(announced)
    BY <1>2, <1>3, <1>4, <1>5, ConcatLast DEF ConnEnds
  <2>. HIDE DEF way
  <2>2. EndsWith(dash[d].heard, way, announced)
    BY <1>1, <2>1, EndsInState
  <2>. QED BY <2>2 DEF way
<1>6. CASE c.posted = <<>> /\ c.queue # <<>>
  <2>. DEFINE way == c.wire \o c.queue
  <2>1. way \in Seq(Messages) /\ way # <<>> /\ Last(way) = State(announced)
    BY <1>2, <1>3, <1>6, ConcatLast DEF ConnEnds
  <2>. HIDE DEF way
  <2>2. EndsWith(dash[d].heard, way, announced)
    BY <1>1, <2>1, EndsInState
  <2>3. way \o <<>> = way
    BY <2>1, ConcatEmptySeq
  <2>. QED BY <1>6, <2>2, <2>3 DEF way
<1>7. CASE c.posted = <<>> /\ c.queue = <<>>
  <2>1. EndsWith(dash[d].heard, c.wire, announced)
    BY <1>7 DEF Delivery, WireEnds
  <2>2. (c.wire \o <<>>) \o <<>> = c.wire
    BY <1>2, ConcatEmptySeq
  <2>. QED BY <1>7, <2>1, <2>2
<1>. QED BY <1>5, <1>6, <1>7

\* A step of the server that gives one connection another value.
LEMMA ConnDelivery ==
    ASSUME TypeOK, Delivery, NEW n \in Conns, NEW c,
           conn' = [conn EXCEPT ![n] = c], UNCHANGED <<dash, announced>>,
           c.link = conn[n].link, Subscribed(n) => c.pc \in {"subscribed", "streaming"},
           c.pc \in {"subscribed", "streaming"} /\ ~c.lost => ConnEnds(c, announced),
           \A d \in Dashboards :
              /\ dash[d].stream = n /\ conn[n].link /\ c.pc = "streaming" /\ ~c.lost
              /\ c.queue = <<>> /\ c.posted = <<>>
              => EndsWith(dash[d].heard, c.wire, announced)
    PROVE  Delivery'
<1>1. \A k \in Conns : conn'[k] = IF k = n THEN c ELSE conn[k]
  BY TypeByConn
<1>2. \A d \in Dashboards : dash[d].stream # NoConn => dash[d].stream \in Conns
  BY TypeByConn DEF Dash
<1>3. \A k \in Conns : (Subscribed(k) /\ ~conn[k].lost)' => ConnEnds(conn'[k], announced)
  BY <1>1 DEF Delivery, Subscribed
<1>4. ASSUME NEW d \in Dashboards PROVE OwnStream(d)' /\ WireEnds(d)'
  <2>1. OwnStream(d) /\ WireEnds(d)
    BY DEF Delivery
  <2>2. OwnStream(d)'
    BY <1>1, <1>2, <2>1 DEF OwnStream, Subscribed
  <2>3. dash' = dash /\ announced' = announced
    OBVIOUS
  <2>4. CASE dash[d].stream = n
    <3>1. conn'[n] = c /\ n # NoConn
      BY <1>1, NoConnAssumption
    <3>2. conn[n].link
      BY <2>1, <2>4, <3>1 DEF OwnStream
    <3>3. c.pc = "streaming" /\ ~c.lost /\ c.queue = <<>> /\ c.posted = <<>>
             => EndsWith(dash[d].heard, c.wire, announced)
      BY <2>4, <3>2
    <3>. QED BY <2>2, <2>3, <2>4, <3>1, <3>3 DEF WireEnds, Live
  <2>5. CASE dash[d].stream # n
    <3>1. dash[d].stream # NoConn => conn'[dash[d].stream] = conn[dash[d].stream]
      BY <1>1, <1>2, <2>5
    <3>. QED BY <2>1, <2>2, <2>3, <3>1 DEF WireEnds, Live
  <2>. QED BY <2>4, <2>5
<1>. QED BY <1>3, <1>4 DEF Delivery

\* A change comes last on the list of every stream.
LEMMA BroadcastDelivery ==
    ASSUME TypeOK, Delivery, NEW events \in Seq(Events), events # <<>>,
           Last(events) = State(announced'), Broadcast(events), UNCHANGED dash
    PROVE  Delivery'
<1>1. \A k \in Conns : ConnOK(conn[k])
  BY TypeByConn
<1>2. \A k \in Conns :
         /\ conn'[k].pc = conn[k].pc /\ conn'[k].link = conn[k].link
         /\ Subscribed(k) => conn'[k].posted = conn[k].posted \o events
  BY <1>1 DEF Broadcast, ConnOK, Conn
<1>3. ASSUME NEW k \in Conns, Subscribed(k)
      PROVE  conn'[k].posted # <<>> /\ Last(conn'[k].posted) = State(announced')
  <2>1. conn[k].posted \in Seq(Events)
    BY <1>1 DEF ConnOK, Conn
  <2>2. /\ conn[k].posted \o events # <<>>
        /\ Last(conn[k].posted \o events) = State(announced')
    BY <2>1, ConcatLast
  <2>. QED BY <1>2, <1>3, <2>2
<1>4. \A k \in Conns : Subscribed(k)' => ConnEnds(conn'[k], announced')
  BY <1>2, <1>3 DEF ConnEnds, Subscribed
<1>5. ASSUME NEW d \in Dashboards PROVE OwnStream(d)' /\ WireEnds(d)'
  <2>1. OwnStream(d) /\ (dash[d].stream # NoConn => dash[d].stream \in Conns)
    BY TypeByConn DEF Delivery, Dash
  <2>2. OwnStream(d)'
    BY <1>2, <2>1 DEF OwnStream, Subscribed
  <2>3. WireEnds(d)'
    BY <1>3, <2>1 DEF WireEnds, Live, OwnStream
  <2>. QED BY <2>2, <2>3
<1>. QED BY <1>4, <1>5 DEF Delivery

LEMMA ChangeDelivery ==
    ASSUME TypeOK, Delivery, UpdateScanState \/ AppendScanStep \/ ClaimSilently
    PROVE  Delivery'
<1>1. CASE UpdateScanState
  <2>. DEFINE v == version'
              one == <<State(v)>>
  <2>1. v \in Versions /\ announced' = v
    BY <1>1, BoundsAssumption DEF TypeOK, Versions, UpdateScanState
  <2>2. one \in Seq(Events) /\ one # <<>> /\ Last(one) = State(v)
    BY <2>1, EventTypes DEF Last
  <2>. QED BY <1>1, <2>1, <2>2, BroadcastDelivery DEF UpdateScanState
<1>2. CASE AppendScanStep
  <2>. DEFINE v == version'
              two == <<Step(v), State(v)>>
  <2>1. v \in Versions /\ announced' = v
    BY <1>2, BoundsAssumption DEF TypeOK, Versions, AppendScanStep
  <2>2. two \in Seq(Events) /\ two # <<>> /\ Last(two) = State(v)
    BY <2>1, EventTypes DEF Last
  <2>. QED BY <1>2, <2>1, <2>2, BroadcastDelivery DEF AppendScanStep
<1>3. CASE ClaimSilently
  BY <1>3 DEF ClaimSilently, Delivery, OwnStream, WireEnds, Live, Subscribed
<1>. QED BY <1>1, <1>2, <1>3

LEMMA LastProperties ==
    ASSUME NEW S, NEW s \in Seq(S), s # <<>>
    PROVE  /\ Last(s) \in S
           /\ Tail(s) # <<>> => Last(Tail(s)) = Last(s)
           /\ Tail(s) = <<>> => Last(s) = Head(s)
           /\ \A e \in S : Append(s, e) # <<>> /\ Last(Append(s, e)) = e
<1>1. /\ Len(Tail(s)) = Len(s) - 1 /\ Len(s) \in Nat \ {0} /\ Head(s) = s[1]
      /\ Tail(s) \in Seq(S)
      /\ \A i \in 1..Len(Tail(s)) : Tail(s)[i] = s[i + 1]
  BY HeadTailProperties
<1>2. \A e \in S : Append(s, e) # <<>> /\ Last(Append(s, e)) = e
  BY <1>1, AppendProperties DEF Last
<1>. QED BY <1>1, <1>2 DEF Last

LEMMA SafePutDelivery ==
    ASSUME TypeOK, Delivery, NEW n \in Conns, SafePut(n)
    PROVE  Delivery'
<1>. DEFINE c == conn[n]
<1>1. /\ ConnOK(c) /\ c.posted \in Seq(Events) /\ c.posted # <<>>
      /\ c.queue \in Seq(Events) /\ Head(c.posted) \in Events
  BY TypeByConn, HeadTailProperties DEF SafePut, ConnOK, Conn
<1>2. /\ Put(c).pc = c.pc /\ Put(c).link = c.link /\ Put(c).wire = c.wire
      /\ Put(c).posted = Tail(c.posted) /\ Put(c).lost = (c.lost \/ Full(c))
      /\ Put(c).queue = IF Full(c) THEN c.queue ELSE Append(c.queue, Head(c.posted))
  BY <1>1 DEF ConnOK, Conn, Put, Full
<1>3. /\ Append(c.queue, Head(c.posted)) # <<>>
      /\ Last(Append(c.queue, Head(c.posted))) = Head(c.posted)
  BY <1>1, AppendProperties DEF Last
<1>4. c.pc \in {"subscribed", "streaming"} /\ ~Put(c).lost => ConnEnds(Put(c), announced)
  BY <1>1, <1>2, <1>3, LastProperties DEF Delivery, Subscribed, ConnEnds
<1>5. Put(c).queue = <<>> => Put(c).lost
  BY <1>2, <1>3
<1>6. conn' = [conn EXCEPT ![n] = Put(c)] /\ UNCHANGED <<dash, announced>>
  BY DEF SafePut
<1>. QED BY <1>2, <1>4, <1>5, <1>6, ConnDelivery DEF Subscribed

LEMMA SnapshotDelivery ==
    ASSUME TypeOK, Delivery, NEW n \in Conns, Snapshot(n)
    PROVE  Delivery'
<1>. DEFINE c == conn[n]
            new == [c EXCEPT !.pc = "streaming", !.wire = Sent(c, State(version))]
<1>1. /\ ConnOK(c) /\ c.pc = "subscribed" /\ c.wire = <<>> /\ State(version) \in Messages
      /\ version \in Int /\ announced \in Int /\ version >= announced
  BY TypeByConn, EventTypes DEF Snapshot, ConnOK, Messages, Versions
<1>2. /\ new.pc = "streaming" /\ new.link = c.link /\ new.lost = c.lost
      /\ new.queue = c.queue /\ new.posted = c.posted
      /\ new.wire = Sent(c, State(version))
  BY <1>1 DEF ConnOK, Conn
<1>3. ~c.lost => ConnEnds(new, announced)
  BY <1>1, <1>2 DEF Delivery, Subscribed, ConnEnds
<1>4. ASSUME NEW d \in Dashboards, c.link
      PROVE  EndsWith(dash[d].heard, new.wire, announced)
  <2>1. new.wire = <<State(version)>>
    BY <1>1, <1>2, <1>4 DEF Sent
  <2>2. <<State(version)>> \in Seq(Messages) /\ <<State(version)>> # <<>>
    BY <1>1
  <2>3. Last(<<State(version)>>) = State(version)
    BY <1>1 DEF Last
  <2>. QED BY <1>1, <2>1, <2>2, <2>3, EndsInState
<1>5. conn' = [conn EXCEPT ![n] = new] /\ UNCHANGED <<dash, announced>>
  BY TypeByConn DEF Snapshot
<1>. HIDE DEF new
<1>. QED BY <1>2, <1>3, <1>4, <1>5, ConnDelivery

LEMMA ForwardDelivery ==
    ASSUME TypeOK, Delivery, NEW n \in Conns, Forward(n)
    PROVE  Delivery'
<1>. DEFINE c == conn[n]
            e == Head(c.queue)
            new == Taken(c, e)
<1>1. /\ ConnOK(c) /\ c.pc = "streaming" /\ c.queue \in Seq(Events) /\ c.queue # <<>>
      /\ c.wire \in Seq(Messages) /\ e \in Messages /\ announced \in Int
  BY TypeByConn, HeadTailProperties DEF Forward, ConnOK, Conn, Messages, Versions
<1>2. /\ new.pc = "streaming" /\ new.link = c.link /\ new.lost = c.lost
      /\ new.queue = Tail(c.queue) /\ new.posted = c.posted /\ new.wire = Sent(c, e)
  BY <1>1 DEF ConnOK, Conn, Taken
<1>3. ~c.lost => ConnEnds(c, announced)
  BY <1>1 DEF Delivery, Subscribed
<1>4. ~c.lost => ConnEnds(new, announced)
  BY <1>1, <1>2, <1>3, LastProperties DEF ConnEnds
<1>5. ASSUME NEW d \in Dashboards, c.link, ~c.lost, new.queue = <<>>, new.posted = <<>>
      PROVE  EndsWith(dash[d].heard, new.wire, announced)
  <2>1. e = State(announced)
    BY <1>1, <1>2, <1>3, <1>5, LastProperties DEF ConnEnds
  <2>2. new.wire = Append(c.wire, e)
    BY <1>2, <1>5 DEF Sent
  <2>3. /\ Append(c.wire, e) \in Seq(Messages) /\ Append(c.wire, e) # <<>>
        /\ Last(Append(c.wire, e)) = e
    BY <1>1, AppendProperties DEF Last
  <2>. HIDE DEF new, e
  <2>4. /\ new.wire \in Seq(Messages) /\ new.wire # <<>>
        /\ Last(new.wire) = State(announced)
    BY <2>1, <2>2, <2>3
  <2>5. announced >= announced
    BY <1>1
  <2>. QED BY <1>1, <2>4, <2>5, EndsInState
<1>6. conn' = [conn EXCEPT ![n] = new] /\ UNCHANGED <<dash, announced>>
  BY DEF Forward
<1>. HIDE DEF new
<1>. QED BY <1>2, <1>4, <1>5, <1>6, ConnDelivery

LEMMA HeartbeatDelivery ==
    ASSUME TypeOK, Delivery, NEW n \in Conns, Heartbeat(n)
    PROVE  Delivery'
<1>. DEFINE c == conn[n]
            new == [c EXCEPT !.wire = Append(c.wire, Beat)]
<1>1. ConnOK(c) /\ c.pc = "streaming" /\ c.queue = <<>> /\ c.wire \in Seq(Messages)
  BY TypeByConn DEF Heartbeat, ConnOK, Conn, Messages
<1>2. /\ new.pc = "streaming" /\ new.link = c.link /\ new.lost = c.lost
      /\ new.queue = c.queue /\ new.posted = c.posted /\ new.wire = Append(c.wire, Beat)
  BY <1>1 DEF ConnOK, Conn
<1>3. ~c.lost => ConnEnds(new, announced)
  BY <1>1, <1>2 DEF Delivery, Subscribed, ConnEnds
<1>4. ASSUME NEW d \in Dashboards, dash[d].stream = n, ~c.lost, c.posted = <<>>
      PROVE  EndsWith(dash[d].heard, new.wire, announced)
  <2>1. n # NoConn
    BY NoConnAssumption
  <2>2. EndsWith(dash[d].heard, c.wire, announced)
    BY <1>1, <1>4, <2>1 DEF Delivery, WireEnds, Live
  <2>. QED BY <1>1, <1>2, <2>2, EndsAfterBeat
<1>5. conn' = [conn EXCEPT ![n] = new] /\ UNCHANGED <<dash, announced>>
  BY TypeByConn DEF Heartbeat
<1>. HIDE DEF new
<1>6. \A d \in Dashboards :
         /\ dash[d].stream = n /\ conn[n].link /\ new.pc = "streaming" /\ ~new.lost
         /\ new.queue = <<>> /\ new.posted = <<>>
         => EndsWith(dash[d].heard, new.wire, announced)
  BY <1>2, <1>4
<1>. QED BY <1>2, <1>3, <1>5, <1>6, ConnDelivery

\* The server closes a connection only when no page has it any more.
LEMMA NoticesDelivery ==
    ASSUME TypeOK, Delivery, NEW n \in Conns, ServerNotices(n)
    PROVE  Delivery'
<1>1. \A k \in Conns : conn'[k] = IF k = n THEN ClosedConn ELSE conn[k]
  BY TypeByConn DEF ServerNotices
<1>2. ClosedConn.pc = "closed"
  BY DEF ClosedConn, EmptyConn
<1>3. \A k \in Conns :
         (Subscribed(k) /\ ~conn[k].lost)' => ConnEnds(conn'[k], announced')
  BY <1>1, <1>2 DEF Delivery, Subscribed, ServerNotices
<1>4. ASSUME NEW d \in Dashboards PROVE OwnStream(d)' /\ WireEnds(d)'
  <2>1. /\ OwnStream(d) /\ WireEnds(d)
        /\ dash[d].stream # NoConn => dash[d].stream \in Conns
    BY TypeByConn DEF Delivery, Dash
  <2>2. dash[d].stream # NoConn => conn'[dash[d].stream] = conn[dash[d].stream]
    BY <1>1, <2>1 DEF OwnStream, ServerNotices
  <2>3. dash' = dash /\ announced' = announced
    BY DEF ServerNotices
  <2>4. OwnStream(d)'
    BY <2>1, <2>2, <2>3 DEF OwnStream, Subscribed
  <2>5. WireEnds(d)'
    BY <2>1, <2>2, <2>3 DEF WireEnds, Live
  <2>. QED BY <2>4, <2>5
<1>. QED BY <1>3, <1>4 DEF Delivery

-----------------------------------------------------------------------------
(***************************************************************************)
(* The page's steps change the stream of no other page.                    *)
(***************************************************************************)
LEMMA ConnectDelivery ==
    ASSUME TypeOK, Delivery, NEW d \in Dashboards, NEW n \in Conns, Connect(d, n)
    PROVE  Delivery'
<1>. DEFINE new == [conn[n] EXCEPT !.pc = "subscribed", !.link = TRUE]
<1>1. /\ ConnOK(conn[n]) /\ conn[n].pc = "unused" /\ dash[d] \in Dash
      /\ n # NoConn /\ announced' = announced
  BY TypeByConn, NoConnAssumption DEF Connect
<1>2. /\ new.pc = "subscribed" /\ new.link /\ new.lost = conn[n].lost
      /\ new.queue = <<>> /\ new.posted = <<>>
  BY <1>1 DEF ConnOK, Conn
<1>3. conn' = [conn EXCEPT ![n] = new]
  BY TypeByConn DEF Connect
<1>. HIDE DEF new
<1>4. \A k \in Conns : conn'[k] = IF k = n THEN new ELSE conn[k]
  BY <1>3, TypeByConn
<1>5. \A e \in Dashboards : dash'[e].stream = IF e = d THEN n ELSE dash[e].stream
  BY <1>1, TypeByConn DEF Connect, Dash
<1>6. \A e \in Dashboards : dash'[e].heard = dash[e].heard
  BY <1>1, TypeByConn DEF Connect, Dash
<1>7. \A k \in Conns :
         (Subscribed(k) /\ ~conn[k].lost)' => ConnEnds(conn'[k], announced')
  BY <1>1, <1>2, <1>4 DEF Delivery, Subscribed, ConnEnds
<1>8. \A e \in Dashboards : dash[e].stream # NoConn =>
         dash[e].stream \in Conns /\ dash[e].stream # n
  BY <1>1, TypeByConn DEF Delivery, OwnStream, Subscribed, Dash
<1>9. ASSUME NEW e \in Dashboards PROVE OwnStream(e)' /\ WireEnds(e)'
  <2>1. CASE e = d
    <3>1. dash'[e].stream = n /\ conn'[n] = new
      BY <1>4, <1>5, <2>1
    <3>2. OwnStream(e)'
      BY <1>2, <1>5, <1>8, <2>1, <3>1 DEF OwnStream, Subscribed
    <3>3. WireEnds(e)'
      BY <1>2, <3>1 DEF WireEnds, Live
    <3>. QED BY <3>2, <3>3
  <2>2. CASE e # d
    <3>1. OwnStream(e) /\ WireEnds(e) /\ dash'[e].stream = dash[e].stream
      BY <1>5, <2>2 DEF Delivery
    <3>2. dash[e].stream # NoConn => conn'[dash[e].stream] = conn[dash[e].stream]
      BY <1>4, <1>8
    <3>3. OwnStream(e)'
      BY <1>5, <1>8, <3>1, <3>2 DEF OwnStream, Subscribed
    <3>4. WireEnds(e)'
      BY <1>1, <1>6, <3>1, <3>2 DEF WireEnds, Live
    <3>. QED BY <3>3, <3>4
  <2>. QED BY <2>1, <2>2
<1>. QED BY <1>7, <1>9 DEF Delivery

LEMMA ReceiveDelivery ==
    ASSUME TypeOK, Delivery, NEW d \in Dashboards, Receive(d)
    PROVE  Delivery'
<1>. DEFINE n == dash[d].stream
            c == conn[n]
            m == Head(c.wire)
            new == [c EXCEPT !.wire = Tail(c.wire)]
            heard == IF m.type = "scan_state" THEN m.version ELSE dash[d].heard
<1>1. /\ n \in Conns /\ n # NoConn /\ c \in Conn /\ dash[d] \in Dash
      /\ c.wire \in Seq(Messages) /\ c.wire # <<>> /\ announced' = announced
  BY TypeByConn DEF Receive, Dash, ConnOK, Conn, Messages
<1>2. /\ new.pc = c.pc /\ new.link = c.link /\ new.lost = c.lost
      /\ new.queue = c.queue /\ new.posted = c.posted /\ new.wire = Tail(c.wire)
  BY <1>1 DEF Conn
<1>3. conn' = [conn EXCEPT ![n] = new]
  BY <1>1, TypeByConn DEF Receive
<1>4. \A e \in Dashboards :
         /\ dash'[e].stream = dash[e].stream
         /\ dash'[e].heard = IF e = d THEN heard ELSE dash[e].heard
  BY <1>1, TypeByConn DEF Receive, Dash
<1>. HIDE DEF new
<1>5. \A k \in Conns : conn'[k] = IF k = n THEN new ELSE conn[k]
  BY <1>3, TypeByConn
<1>6. \A k \in Conns :
         (Subscribed(k) /\ ~conn[k].lost)' => ConnEnds(conn'[k], announced')
  BY <1>1, <1>2, <1>5 DEF Delivery, Subscribed, ConnEnds
<1>7. ASSUME NEW e \in Dashboards PROVE OwnStream(e)' /\ WireEnds(e)'
  <2>1. /\ OwnStream(e) /\ WireEnds(e)
        /\ dash[e].stream # NoConn => dash[e].stream \in Conns
    BY TypeByConn DEF Delivery, Dash
  <2>2. OwnStream(e)'
    BY <1>2, <1>4, <1>5, <2>1 DEF OwnStream, Subscribed
  <2>3. CASE e = d
    <3>1. dash'[e].stream = n /\ conn'[n] = new /\ dash'[e].heard = heard
      BY <1>1, <1>4, <1>5, <2>3
    <3>2. EndsWith(dash[d].heard, c.wire, announced)
             => EndsWith(heard, Tail(c.wire), announced)
      BY <1>1, EndsAfterRead
    <3>. HIDE DEF heard
    <3>3. WireEnds(e)'
      BY <1>1, <1>2, <2>1, <2>3, <3>1, <3>2 DEF WireEnds, Live
    <3>. QED BY <2>2, <3>3
  <2>4. CASE e # d
    <3>1. dash[e].stream # NoConn => dash[e].stream # n
      BY <1>1, <2>1, <2>4 DEF OwnStream
    <3>2. dash[e].stream # NoConn => conn'[dash[e].stream] = conn[dash[e].stream]
      BY <1>5, <2>1, <3>1
    <3>3. dash'[e].stream = dash[e].stream /\ dash'[e].heard = dash[e].heard
      BY <1>4, <2>4
    <3>4. WireEnds(e)'
      BY <1>1, <2>1, <3>2, <3>3 DEF WireEnds, Live
    <3>. QED BY <2>2, <3>4
  <2>. QED BY <2>3, <2>4
<1>. QED BY <1>6, <1>7 DEF Delivery

LEMMA BreaksDelivery ==
    ASSUME TypeOK, Delivery, NEW d \in Dashboards, StreamBreaks(d)
    PROVE  Delivery'
<1>. DEFINE n == dash[d].stream
            new == [conn[n] EXCEPT !.link = FALSE, !.wire = <<>>]
<1>1. /\ n \in Conns /\ n # NoConn /\ conn[n] \in Conn /\ dash[d] \in Dash
      /\ announced' = announced
  BY TypeByConn DEF StreamBreaks, Dash, ConnOK
<1>2. /\ new.pc = conn[n].pc /\ new.lost = conn[n].lost
      /\ new.queue = conn[n].queue /\ new.posted = conn[n].posted
  BY <1>1 DEF Conn
<1>3. conn' = [conn EXCEPT ![n] = new]
  BY <1>1, TypeByConn DEF StreamBreaks
<1>4. \A e \in Dashboards :
         /\ dash'[e].stream = IF e = d THEN NoConn ELSE dash[e].stream
         /\ dash'[e].heard = dash[e].heard
  BY <1>1, TypeByConn DEF StreamBreaks, Dash
<1>. HIDE DEF new
<1>5. \A k \in Conns : conn'[k] = IF k = n THEN new ELSE conn[k]
  BY <1>3, TypeByConn
<1>6. \A k \in Conns :
         (Subscribed(k) /\ ~conn[k].lost)' => ConnEnds(conn'[k], announced')
  BY <1>1, <1>2, <1>5 DEF Delivery, Subscribed, ConnEnds
<1>7. ASSUME NEW e \in Dashboards PROVE OwnStream(e)' /\ WireEnds(e)'
  <2>1. CASE e = d
    BY <1>4, <2>1 DEF OwnStream, WireEnds, Live
  <2>2. CASE e # d
    <3>1. /\ OwnStream(e) /\ WireEnds(e)
          /\ dash[e].stream # NoConn => dash[e].stream \in Conns
      BY TypeByConn DEF Delivery, Dash
    <3>2. dash[e].stream # NoConn => dash[e].stream # n
      BY <1>1, <2>2, <3>1 DEF OwnStream
    <3>3. dash[e].stream # NoConn => conn'[dash[e].stream] = conn[dash[e].stream]
      BY <1>5, <3>1, <3>2
    <3>4. dash'[e].stream = dash[e].stream /\ dash'[e].heard = dash[e].heard
      BY <1>4, <2>2
    <3>5. OwnStream(e)'
      BY <1>4, <3>1, <3>3, <3>4 DEF OwnStream, Subscribed
    <3>6. WireEnds(e)'
      BY <1>1, <3>1, <3>3, <3>4 DEF WireEnds, Live
    <3>. QED BY <3>5, <3>6
  <2>. QED BY <2>1, <2>2
<1>. QED BY <1>6, <1>7 DEF Delivery

LEMMA StatusDelivery ==
    ASSUME TypeOK, Delivery, NEW d \in Dashboards,
           StatusRead(d) \/ StatusShown(d) \/ StatusFails(d)
    PROVE  Delivery'
<1>1. conn' = conn /\ announced' = announced /\ dash[d] \in Dash
  BY TypeByConn DEF StatusRead, StatusShown, StatusFails
<1>2. \A e \in Dashboards :
         dash'[e].stream = dash[e].stream /\ dash'[e].heard = dash[e].heard
  <2>1. CASE StatusRead(d)
    BY <1>1, <2>1, TypeByConn DEF StatusRead, Dash
  <2>2. CASE StatusShown(d)
    BY <1>1, <2>2, TypeByConn DEF StatusShown, Dash
  <2>3. CASE StatusFails(d)
    BY <1>1, <2>3, TypeByConn DEF StatusFails, Dash
  <2>. QED BY <2>1, <2>2, <2>3
<1>3. ASSUME NEW e \in Dashboards PROVE OwnStream(e)' /\ WireEnds(e)'
  <2>1. OwnStream(e) /\ WireEnds(e)
    BY DEF Delivery
  <2>. QED BY <1>1, <1>2, <2>1 DEF OwnStream, WireEnds, Live, Subscribed
<1>. QED BY <1>1, <1>3 DEF Delivery, Subscribed

LEMMA StepDelivery ==
    ASSUME TypeOK, Delivery, [Next]_vars
    PROVE  Delivery'
<1>1. CASE UNCHANGED vars
  BY <1>1 DEF vars, Delivery, OwnStream, WireEnds, Live, Subscribed
<1>2. ASSUME NEW n \in Conns, StreamStep(n) PROVE Delivery'
  BY <1>2, SnapshotDelivery, ForwardDelivery, HeartbeatDelivery, NoticesDelivery
  DEF StreamStep
<1>3. ASSUME NEW d \in Dashboards, PageStep(d) PROVE Delivery'
  BY <1>3, ConnectDelivery, ReceiveDelivery, BreaksDelivery, StatusDelivery
  DEF PageStep
<1>. QED BY <1>1, <1>2, <1>3, ChangeDelivery, SafePutDelivery DEF Next

\* A stream whose queue was never full loses nothing, for any number of pages,
\* connections and changes and any sizes of the queue and of the socket: the
\* page has heard the newest announced state or it is on its way, though the
\* snapshot is read after the queue was subscribed (web_server.api_events,
\* scan_state._broadcast).
THEOREM EventsDelivered == Spec => []NothingLost
<1>1. Init => Delivery
  BY DEF Init, Delivery, OwnStream, WireEnds, Live, Subscribed, UnusedConn, EmptyConn
<1>2. TypeOK /\ Delivery /\ [Next]_vars => Delivery'
  BY StepDelivery
<1>. QED BY <1>1, <1>2, EventsTyped, DeliveryGivesNothingLost, PTL DEF Spec
=============================================================================
