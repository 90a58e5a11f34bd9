------------------------- MODULE EdgeTransport_proofs -------------------------
(***************************************************************************)
(* Proofs about EdgeTransport, for any number of segments, connections and *)
(* places in the queue, under both policies of a full queue: its types,    *)
(* and that all the harm a connection does it does by breaking.            *)
(***************************************************************************)
EXTENDS EdgeTransport, SequenceTheorems, FiniteSetTheorems, TLAPS

-----------------------------------------------------------------------------
(* Sequences in which segments stand in the order of their numbers.         *)

InOrder(s) ==
  \A i, j \in 1..Len(s) : i < j /\ s[i] \in Segs /\ s[j] \in Segs => s[i] < s[j]

LEMMA Numbers ==
  /\ Segs \subseteq Nat \ {0} /\ Stop \notin Segs /\ Nothing \notin Segs /\ Nothing # Stop
  /\ Conns \subseteq Nat \ {0}
  /\ NSegs \in Nat /\ MaxConnects \in Nat \ {0} /\ MaxQueue \in Nat
  BY EdgeTransportAssumption DEF EdgeTransportAssumption, Segs, Conns, Stop, Nothing

LEMMA AppendHas ==
  ASSUME NEW S, NEW s \in Seq(S), NEW e \in S
  PROVE  /\ Append(s, e) \in Seq(S)
         /\ Len(Append(s, e)) = Len(s) + 1
         /\ \A x : Contains(Append(s, e), x) <=> Contains(s, x) \/ x = e
  BY AppendProperties DEF Contains

LEMMA AppendInOrder ==
  ASSUME NEW S, NEW s \in Seq(S), NEW e \in S, InOrder(s),
         e \in Segs => \A x \in Segs : Contains(s, x) => x < e
  PROVE  InOrder(Append(s, e))
  BY AppendProperties, LenProperties DEF InOrder, Contains

LEMMA TailHas ==
  ASSUME NEW S, NEW s \in Seq(S), s # <<>>
  PROVE  /\ Tail(s) \in Seq(S) /\ Head(s) \in S
         /\ Len(Tail(s)) = Len(s) - 1
         /\ Contains(s, Head(s))
         /\ \A x : Contains(s, x) <=> Contains(Tail(s), x) \/ x = Head(s)
  <1>1. /\ Len(s) \in Nat \ {0} /\ Tail(s) \in Seq(S) /\ Head(s) = s[1] /\ s[1] \in S
        /\ Len(Tail(s)) = Len(s) - 1
        /\ \A i \in 1..(Len(s) - 1) : Tail(s)[i] = s[i + 1]
    BY HeadTailProperties, LenProperties, EmptySeq, ElementOfSeq
  <1>2. ASSUME NEW x, Contains(s, x) PROVE Contains(Tail(s), x) \/ x = Head(s)
    <2>1. PICK i \in 1..Len(s) : s[i] = x
      BY <1>2 DEF Contains
    <2>2. CASE i = 1
      BY <2>1, <2>2, <1>1
    <2>3. CASE i # 1
      <3>1. i - 1 \in 1..(Len(s) - 1) /\ Tail(s)[i - 1] = x
        BY <2>1, <2>3, <1>1
      <3>2. QED
        BY <3>1, <1>1 DEF Contains
    <2>4. QED
      BY <2>2, <2>3
  <1>3. ASSUME NEW x, Contains(Tail(s), x) PROVE Contains(s, x)
    <2>1. PICK i \in 1..(Len(s) - 1) : Tail(s)[i] = x
      BY <1>3, <1>1 DEF Contains
    <2>2. i + 1 \in 1..Len(s) /\ s[i + 1] = x
      BY <2>1, <1>1
    <2>3. QED
      BY <2>2 DEF Contains
  <1>4. Contains(s, Head(s))
    BY <1>1 DEF Contains
  <1>5. QED
    BY <1>1, <1>2, <1>3, <1>4

LEMMA TailInOrder ==
  ASSUME NEW S, NEW s \in Seq(S), s # <<>>, InOrder(s)
  PROVE  /\ InOrder(Tail(s))
         /\ Head(s) \in Segs => \A x \in Segs : Contains(Tail(s), x) => Head(s) < x
  <1>1. /\ Len(s) \in Nat \ {0} /\ Head(s) = s[1]
        /\ Len(Tail(s)) = Len(s) - 1
        /\ \A i \in 1..(Len(s) - 1) : Tail(s)[i] = s[i + 1]
    BY HeadTailProperties, LenProperties, EmptySeq
  <1>2. InOrder(Tail(s))
    <2> SUFFICES ASSUME NEW i \in 1..(Len(s) - 1), NEW j \in 1..(Len(s) - 1),
                        i < j, Tail(s)[i] \in Segs, Tail(s)[j] \in Segs
                 PROVE  Tail(s)[i] < Tail(s)[j]
      BY <1>1 DEF InOrder
    <2>1. i + 1 \in 1..Len(s) /\ j + 1 \in 1..Len(s) /\ i + 1 < j + 1
      BY <1>1
    <2>2. s[i + 1] \in Segs /\ s[j + 1] \in Segs
      BY <1>1
    <2>3. QED
      BY <2>1, <2>2, <1>1 DEF InOrder
  <1>3. ASSUME Head(s) \in Segs, NEW x \in Segs, Contains(Tail(s), x) PROVE Head(s) < x
    <2>1. PICK i \in 1..(Len(s) - 1) : Tail(s)[i] = x
      BY <1>3, <1>1 DEF Contains
    <2>2. 1 \in 1..Len(s) /\ i + 1 \in 1..Len(s) /\ 1 < i + 1 /\ s[i + 1] = x
      BY <2>1, <1>1
    <2>3. QED
      BY <2>2, <1>1, <1>3 DEF InOrder
  <1>4. QED
    BY <1>2, <1>3

(* What is left of a sequence of which the end was cut off.                 *)
LEMMA PrefixHas ==
  ASSUME NEW S, NEW s \in Seq(S), NEW n \in 0..Len(s)
  PROVE  /\ SubSeq(s, 1, n) \in Seq(S)
         /\ \A x : Contains(SubSeq(s, 1, n), x) => Contains(s, x)
         /\ InOrder(s) => InOrder(SubSeq(s, 1, n))
  <1>1. Len(s) \in Nat
    BY LenProperties
  <1>2. /\ SubSeq(s, 1, n) \in Seq(S) /\ Len(SubSeq(s, 1, n)) = n
        /\ \A i \in 1..n : SubSeq(s, 1, n)[i] = s[i]
    BY <1>1, SubSeqProperties, ElementOfSeq
  <1>3. QED
    BY <1>1, <1>2 DEF Contains, InOrder

-----------------------------------------------------------------------------
(* Type correctness.                                                        *)

LEMMA InitTypes == Init => TypeOK
  <1> SUFFICES ASSUME Init PROVE TypeOK
    OBVIOUS
  <1>1. outbox \in Seq(Segs \cup {Stop}) /\ Len(outbox) <= MaxQueue /\ received \in Seq(Segs)
    BY Numbers DEF Init
  <1>2. wire \in [Conns -> Seq(Segs)] /\ alive \in [Conns -> BOOLEAN]
    BY DEF Init
  <1>3. emitted \in 0..NSegs /\ conn \in 0..MaxConnects
    BY Numbers DEF Init
  <1>4. QED
    BY <1>1, <1>2, <1>3 DEF Init, TypeOK

(* Steps that move no segment and no connection.                            *)
Still ==
  /\ UNCHANGED <<emitted, outbox, dropped, item, sent, via, conn, alive, wire, received>>
  /\ thread' = "pumping" <=> thread = "pumping"
  /\ thread' \in {"connecting", "sleeping"} => thread \in {"connecting", "sleeping"}

StillStep ==
  WaitReady \/ WaitReadyRaises \/ StartClose \/ Join \/ ConnectFails \/ Wake

LEMMA StillTypes ==
  ASSUME TypeOK, StillStep
  PROVE  TypeOK' /\ Still
  <1>1. Still
    BY DEF StillStep, WaitReady, WaitReadyRaises, StartClose, Join, ConnectFails, Wake,
           Still, queueVars, threadVars, netVars
  <1>2. /\ main' \in {"waiting", "emitting", "closing", "joining", "returned", "aborted"}
        /\ thread' \in {"connecting", "pumping", "sleeping", "ended"}
    BY DEF TypeOK, StillStep, WaitReady, WaitReadyRaises, StartClose, Join, ConnectFails, Wake,
           queueVars, threadVars, netVars
  <1>3. closed' \in BOOLEAN /\ ready' \in BOOLEAN /\ error' \in BOOLEAN
    BY DEF TypeOK, StillStep, WaitReady, WaitReadyRaises, StartClose, Join, ConnectFails, Wake,
           queueVars, threadVars, netVars
  <1>4. QED
    BY <1>1, <1>2, <1>3 DEF TypeOK, Still

LEMMA QueueTypes ==
  ASSUME TypeOK, Put \/ DropPartial \/ PutStop \/ Get \/ PumpEnds
  PROVE  TypeOK'
  <1>1. CASE Put
    <2>1. emitted + 1 \in Segs
      BY <1>1, Numbers DEF Put, TypeOK, Segs
    <2>2. outbox' \in Seq(Segs \cup {Stop}) /\ Len(outbox') <= MaxQueue
      BY <1>1, <2>1, AppendHas, Numbers, LenProperties DEF Put, HasRoom, TypeOK
    <2>3. QED
      BY <1>1, <2>1, <2>2, Numbers DEF Put, TypeOK, threadVars, netVars
  <1>2. CASE DropPartial
    <2>1. emitted + 1 \in Segs
      BY <1>2, Numbers DEF DropPartial, TypeOK, Segs
    <2>2. QED
      BY <1>2, <2>1, Numbers DEF DropPartial, TypeOK, threadVars, netVars
  <1>3. CASE PutStop
    <2>1. outbox' \in Seq(Segs \cup {Stop}) /\ Len(outbox') <= MaxQueue
      BY <1>3, AppendHas, Numbers, LenProperties DEF PutStop, HasRoom, TypeOK
    <2>2. QED
      BY <1>3, <2>1 DEF PutStop, TypeOK, threadVars, netVars
  <1>4. CASE Get
    <2>1. /\ outbox' \in Seq(Segs \cup {Stop}) /\ Len(outbox') <= MaxQueue
          /\ item' \in Segs \cup {Stop}
      BY <1>4, TailHas, Numbers, LenProperties DEF Get, TypeOK
    <2>2. QED
      BY <1>4, <2>1 DEF Get, TypeOK, netVars
  <1>5. CASE PumpEnds
    BY <1>5 DEF PumpEnds, TypeOK, queueVars, netVars
  <1>6. QED
    BY <1>1, <1>2, <1>3, <1>4, <1>5

LEMMA ConnectionTypes ==
  ASSUME TypeOK, NEW c \in Conns, Connect \/ SendOk \/ SendFails \/ Break(c) \/ Receive(c)
  PROVE  TypeOK'
  <1>1. CASE Connect
    BY <1>1, Numbers DEF Connect, TypeOK, queueVars, Conns
  <1>2. CASE SendOk
    <2>1. wire' \in [Conns -> Seq(Segs)]
      <3>1. \A d \in Conns : Append(wire[d], item) \in Seq(Segs)
        BY <1>2, AppendHas DEF SendOk, TypeOK
      <3>2. QED
        BY <1>2, <3>1 DEF SendOk, TypeOK
    <2>2. QED
      BY <1>2, <2>1 DEF SendOk, TypeOK, queueVars
  <1>3. CASE SendFails
    BY <1>3 DEF SendFails, TypeOK, queueVars, netVars
  <1>4. CASE Break(c)
    <2>1. wire' \in [Conns -> Seq(Segs)]
      BY <1>4, PrefixHas DEF Break, TypeOK
    <2>2. alive' \in [Conns -> BOOLEAN]
      BY <1>4 DEF Break, TypeOK
    <2>3. QED
      BY <1>4, <2>1, <2>2 DEF Break, TypeOK, queueVars, threadVars
  <1>5. CASE Receive(c)
    <2>1. wire[c] \in Seq(Segs) /\ wire[c] # <<>>
      BY <1>5 DEF Receive, TypeOK
    <2>2. Tail(wire[c]) \in Seq(Segs) /\ Head(wire[c]) \in Segs
      BY <2>1, TailHas
    <2>3. received' \in Seq(Segs) /\ wire' \in [Conns -> Seq(Segs)]
      BY <1>5, <2>2, AppendHas DEF Receive, TypeOK
    <2>4. QED
      BY <1>5, <2>3 DEF Receive, TypeOK, queueVars, threadVars
  <1>6. QED
    BY <1>1, <1>2, <1>3, <1>4, <1>5

LEMMA NextCases ==
  ASSUME Next
  PROVE  \/ StillStep
         \/ Put \/ DropPartial \/ PutStop \/ Get \/ PumpEnds
         \/ Connect \/ SendOk \/ SendFails
         \/ \E c \in Conns : Break(c) \/ Receive(c)
  BY DEF Next, MainStep, ThreadStep, StillStep

LEMMA NextTypes == TypeOK /\ [Next]_vars => TypeOK'
  <1> SUFFICES ASSUME TypeOK, [Next]_vars PROVE TypeOK'
    OBVIOUS
  <1>1. CASE UNCHANGED vars
    BY <1>1 DEF vars, queueVars, threadVars, netVars, TypeOK
  <1>2. 1 \in Conns
    BY Numbers DEF Conns
  <1>3. CASE Next
    BY <1>2, <1>3, NextCases, StillTypes, QueueTypes, ConnectionTypes
  <1>4. QED
    BY <1>1, <1>3

(* transport.py:57-148: the fields of the transport keep their types and    *)
(* the queue its bound, whatever the threads and the network do.            *)
THEOREM TypeCorrect == Spec => []TypeOK
  BY InitTypes, NextTypes, PTL DEF Spec

-----------------------------------------------------------------------------
(* The invariant behind OnlyBreaksHarm.  Everything moves from the queue    *)
(* over the pump's hand to a wire and on to ingest in the order of its      *)
(* number, so nothing behind a segment is ahead of it and nothing is twice  *)
(* anywhere; what was handed to a connection stays in order there, and what *)
(* is still in flight of it comes before what is not.                       *)

InFlight(x) == OnWire(x) \/ Contains(received, x)

QueueIsAhead ==
  /\ InOrder(outbox)
  /\ \A x \in Segs : Contains(outbox, x) => x <= emitted
  /\ item \in Segs => item <= emitted /\ \A y \in Segs : Contains(outbox, y) => item < y

HandedAreBehind ==
  \A x \in Segs : via[x] # 0 =>
    /\ x <= emitted
    /\ item \in Segs => x < item
    /\ \A y \in Segs : Contains(outbox, y) => x < y

Accounted ==
  /\ \A x \in 1..emitted : via[x] # 0 \/ Contains(outbox, x) \/ item = x \/ x \in dropped
  /\ \A x \in dropped : x <= emitted /\ via[x] = 0 /\ item # x /\ ~Contains(outbox, x)

WiresInOrder == \A c \in Conns : InOrder(wire[c])

ViaTells ==
  /\ \A c \in Conns, x \in Segs : Contains(wire[c], x) => via[x] = c /\ x \in sent
  /\ \A x \in Segs : Contains(received, x) => x \in sent
  /\ \A x \in sent : via[x] # 0
  /\ \A x \in Segs : via[x] <= conn

LaterGoLater == \A x, y \in Segs : x < y /\ via[x] # 0 /\ via[y] # 0 => via[x] <= via[y]

ReadOnce ==
  /\ \A c \in Conns, x \in Segs : Contains(wire[c], x) => ~Contains(received, x)
  /\ \A i, j \in 1..Len(received) : received[i] = received[j] => i = j

ReadInOrder ==
  /\ \A i, j \in 1..Len(received) :
       i < j /\ via[received[i]] = via[received[j]] => received[i] < received[j]
  /\ \A c \in Conns, x, y \in Segs :
       Contains(received, x) /\ via[x] = c /\ Contains(wire[c], y) => x < y

AliveLosesNothing == \A x \in Segs : via[x] # 0 /\ alive[via[x]] => InFlight(x)

Tails ==
  \A x, y \in Segs : via[x] # 0 /\ via[y] = via[x] /\ x < y /\ InFlight(y) => InFlight(x)

RaisedIsLast ==
  \A x \in Segs : via[x] # 0 /\ x \notin sent =>
    /\ \A y \in Segs : via[y] = via[x] => y <= x
    /\ via[x] = conn => thread # "pumping"

OldConnectionsDead ==
  /\ \A c \in Conns : c > conn => wire[c] = <<>> /\ ~alive[c]
  /\ \A c \in Conns : c < conn => ~alive[c]
  /\ thread \in {"connecting", "sleeping"} /\ conn > 0 => ~alive[conn]
  /\ thread = "pumping" => conn > 0
  /\ thread # "pumping" => item = Nothing

(* What concerns the segments that were handed to a connection.             *)
Handed ==
  /\ WiresInOrder /\ ViaTells /\ LaterGoLater /\ ReadOnce /\ ReadInOrder
  /\ AliveLosesNothing /\ Tails /\ RaisedIsLast

Order == QueueIsAhead /\ HandedAreBehind /\ Accounted /\ Handed /\ OldConnectionsDead

LEMMA EmptyHas ==
  /\ \A x : ~Contains(<<>>, x)
  /\ InOrder(<<>>)
  BY DEF Contains, InOrder

LEMMA InitOrder == Init => Order
  <1> SUFFICES ASSUME Init PROVE Order
    OBVIOUS
  <1>1. /\ outbox = <<>> /\ received = <<>> /\ item = Nothing /\ conn = 0 /\ emitted = 0
        /\ thread = "connecting" /\ sent = {} /\ dropped = {}
        /\ \A x \in Segs : via[x] = 0
        /\ \A c \in Conns : wire[c] = <<>> /\ ~alive[c]
    BY DEF Init
  <1>2. QueueIsAhead /\ HandedAreBehind
    BY <1>1, EmptyHas, Numbers DEF QueueIsAhead, HandedAreBehind
  <1>7. Accounted
    <2>1. 1..emitted = {}
      BY <1>1
    <2>2. QED
      BY <1>1, <2>1 DEF Accounted
  <1>3. WiresInOrder /\ ViaTells /\ LaterGoLater /\ ReadOnce /\ ReadInOrder
    BY <1>1, EmptyHas DEF WiresInOrder, ViaTells, LaterGoLater, ReadOnce, ReadInOrder
  <1>4. AliveLosesNothing /\ Tails /\ RaisedIsLast
    BY <1>1 DEF AliveLosesNothing, Tails, RaisedIsLast
  <1>5. OldConnectionsDead
    BY <1>1, Numbers DEF OldConnectionsDead
  <1>6. QED
    BY <1>2, <1>3, <1>4, <1>5, <1>7 DEF Order, Handed

LEMMA ViaTypes ==
  ASSUME TypeOK
  PROVE  /\ \A x \in Segs : via[x] \in Nat /\ (via[x] # 0 => via[x] \in Conns)
         /\ conn \in Nat /\ emitted \in Nat
  <1>1. \A x \in Segs : via[x] \in 0..MaxConnects
    BY DEF TypeOK
  <1>2. QED
    BY <1>1, Numbers DEF TypeOK, Conns

(* Steps that leave wires, what ingest read and what was handed over alone. *)
LEMMA QuietNet ==
  ASSUME TypeOK, Order, UNCHANGED <<wire, received, via, sent, conn, alive>>,
         thread' = "pumping" => thread = "pumping"
  PROVE  Handed'
  <1>1. \A x : InFlight(x)' <=> InFlight(x)
    BY DEF InFlight, OnWire
  <1>2. WiresInOrder' /\ ViaTells' /\ LaterGoLater' /\ ReadOnce' /\ ReadInOrder'
    BY DEF Order, Handed, WiresInOrder, ViaTells, LaterGoLater, ReadOnce, ReadInOrder
  <1>3. AliveLosesNothing' /\ Tails' /\ RaisedIsLast'
    BY <1>1 DEF Order, Handed, AliveLosesNothing, Tails, RaisedIsLast
  <1>4. QED
    BY <1>2, <1>3 DEF Handed

LEMMA StillOrder ==
  ASSUME TypeOK, Order, Still
  PROVE  Order'
  <1>1. Handed'
    BY QuietNet DEF Still
  <1>2. QueueIsAhead' /\ HandedAreBehind' /\ Accounted'
    BY DEF Still, Order, QueueIsAhead, HandedAreBehind, Accounted
  <1>3. OldConnectionsDead'
    BY DEF Still, Order, OldConnectionsDead
  <1>4. QED
    BY <1>1, <1>2, <1>3 DEF Order

LEMMA PutOrder ==
  ASSUME TypeOK, Order, Put \/ DropPartial \/ PutStop
  PROVE  Order'
  <1>1. /\ UNCHANGED <<item, wire, received, via, sent, conn, alive, thread>>
        /\ emitted \in Nat /\ emitted' \in {emitted, emitted + 1}
    BY Numbers DEF Put, DropPartial, PutStop, threadVars, netVars, TypeOK
  <1>2. outbox \in Seq(Segs \cup {Stop}) /\ dropped \subseteq Segs
    BY DEF TypeOK
  <1>3. PICK e \in Segs \cup {Stop} :
          /\ \/ outbox' = Append(outbox, e) /\ dropped' = dropped
                /\ (e \in Segs \/ emitted' = emitted)
             \/ outbox' = outbox /\ dropped' = dropped \cup {e} /\ e \in Segs
          /\ e \in Segs => e = emitted + 1 /\ emitted' = e
    <2>1. CASE Put
      <3>1. emitted + 1 \in Segs
        BY <2>1, Numbers DEF Put, TypeOK, Segs
      <3>2. QED
        BY <2>1, <3>1 DEF Put
    <2>2. CASE DropPartial
      <3>1. emitted + 1 \in Segs
        BY <2>2, Numbers DEF DropPartial, TypeOK, Segs
      <3>2. QED
        BY <2>2, <3>1 DEF DropPartial
    <2>3. CASE PutStop
      BY <2>3, Numbers DEF PutStop
    <2>4. QED
      BY <2>1, <2>2, <2>3
  <1>4. \A x : Contains(Append(outbox, e), x) <=> Contains(outbox, x) \/ x = e
    BY <1>2, AppendHas
  <1>5. \A x : Contains(outbox', x) => Contains(outbox, x) \/ x = e
    BY <1>3, <1>4
  <1>6. e \in Segs => \A x \in Segs : Contains(outbox, x) => x < e
    BY <1>1, <1>3, Numbers DEF Order, QueueIsAhead
  <1>7. InOrder(outbox')
    BY <1>3, <1>6, <1>2, AppendInOrder DEF Order, QueueIsAhead
  <1>8. QueueIsAhead'
    <2>1. \A x \in Segs : Contains(outbox', x) => x <= emitted'
      BY <1>1, <1>3, <1>5, Numbers DEF Order, QueueIsAhead
    <2>2. item' \in Segs =>
            item' <= emitted' /\ \A y \in Segs : Contains(outbox', y) => item' < y
      BY <1>1, <1>3, <1>5, Numbers DEF Order, QueueIsAhead
    <2>3. QED
      BY <1>7, <2>1, <2>2 DEF QueueIsAhead
  <1>9. HandedAreBehind'
    <2> SUFFICES ASSUME NEW x \in Segs, via[x] # 0
                 PROVE  /\ x <= emitted'
                        /\ item' \in Segs => x < item'
                        /\ \A y \in Segs : Contains(outbox', y) => x < y
      BY <1>1 DEF HandedAreBehind
    <2>1. x <= emitted /\ (item \in Segs => x < item)
          /\ \A y \in Segs : Contains(outbox, y) => x < y
      BY DEF Order, HandedAreBehind
    <2>2. QED
      BY <2>1, <1>1, <1>3, <1>5, Numbers
  <1>10. Accounted'
    <2>1. \A x \in 1..emitted' :
            via'[x] # 0 \/ Contains(outbox', x) \/ item' = x \/ x \in dropped'
      <3> SUFFICES ASSUME NEW x \in 1..emitted'
                   PROVE  via[x] # 0 \/ Contains(outbox', x) \/ item = x \/ x \in dropped'
        BY <1>1
      <3>1. CASE x \in 1..emitted
        BY <1>3, <1>4, <3>1 DEF Order, Accounted
      <3>2. CASE x \notin 1..emitted
        <4>1. emitted' = emitted + 1 /\ x = emitted + 1
          BY <1>1, <3>2
        <4>2. e = x
          BY <1>1, <1>3, <4>1
        <4>3. QED
          BY <1>3, <1>4, <4>2
      <3>3. QED
        BY <3>1, <3>2
    <2>2. ASSUME e \in Segs
          PROVE  via[e] = 0 /\ item # e /\ ~Contains(outbox, e) /\ e \notin dropped
      <3>1. e > emitted
        BY <2>2, <1>1, <1>3
      <3>2. via[e] = 0
        BY <2>2, <3>1, <1>1, Numbers DEF Order, HandedAreBehind
      <3>3. item # e
        BY <2>2, <3>1, <1>1, Numbers DEF Order, QueueIsAhead
      <3>4. e \notin dropped
        BY <2>2, <3>1, <1>1, Numbers DEF Order, Accounted
      <3>5. QED
        BY <2>2, <1>6, <3>2, <3>3, <3>4, Numbers
    <2>3. \A x \in dropped' :
            x <= emitted' /\ via'[x] = 0 /\ item' # x /\ ~Contains(outbox', x)
      <3> SUFFICES ASSUME NEW x \in dropped'
                   PROVE  x <= emitted' /\ via[x] = 0 /\ item # x /\ ~Contains(outbox', x)
        BY <1>1
      <3>1. CASE x \in dropped
        <4>1. x \in Segs /\ x <= emitted /\ via[x] = 0 /\ item # x /\ ~Contains(outbox, x)
          BY <3>1, <1>2 DEF Order, Accounted
        <4>2. x # e
          BY <2>2, <3>1, <4>1
        <4>3. QED
          BY <1>1, <1>5, <4>1, <4>2, Numbers
      <3>2. CASE x \notin dropped
        <4>1. x = e /\ e \in Segs /\ outbox' = outbox /\ emitted' = e
          BY <3>2, <1>3
        <4>2. QED
          BY <2>2, <4>1, Numbers
      <3>3. QED
        BY <3>1, <3>2
    <2>4. QED
      BY <2>1, <2>3 DEF Accounted
  <1>11. Handed'
    BY <1>1, QuietNet
  <1>12. OldConnectionsDead'
    BY <1>1 DEF Order, OldConnectionsDead
  <1>13. QED
    BY <1>8, <1>9, <1>10, <1>11, <1>12 DEF Order

LEMMA GetOrder ==
  ASSUME TypeOK, Order, Get
  PROVE  Order'
  <1>1. /\ UNCHANGED <<emitted, dropped, wire, received, via, sent, conn, alive, thread>>
        /\ outbox \in Seq(Segs \cup {Stop}) /\ outbox # <<>>
        /\ item' = Head(outbox) /\ outbox' = Tail(outbox) /\ thread = "pumping"
        /\ item = Nothing /\ emitted \in Nat /\ dropped \subseteq Segs
    BY Numbers DEF Get, netVars, TypeOK
  <1>2. \A x : Contains(outbox, x) <=> Contains(outbox', x) \/ x = item'
    BY <1>1, TailHas
  <1>3. /\ InOrder(outbox')
        /\ item' \in Segs => \A x \in Segs : Contains(outbox', x) => item' < x
    BY <1>1, TailInOrder DEF Order, QueueIsAhead
  <1>4. Handed'
    BY <1>1, QuietNet
  <1>5. QueueIsAhead'
    BY <1>1, <1>2, <1>3 DEF Order, QueueIsAhead
  <1>6. HandedAreBehind'
    BY <1>1, <1>2 DEF Order, HandedAreBehind
  <1>7. Accounted'
    <2>1. \A x \in 1..emitted : x # Nothing
      BY <1>1 DEF Nothing
    <2>2. QED
      BY <1>1, <1>2, <2>1 DEF Order, Accounted
  <1>8. OldConnectionsDead'
    BY <1>1 DEF Order, OldConnectionsDead
  <1>9. QED
    BY <1>4, <1>5, <1>6, <1>7, <1>8 DEF Order

LEMMA PumpEndsOrder ==
  ASSUME TypeOK, Order, PumpEnds
  PROVE  Order'
  <1>1. /\ UNCHANGED <<emitted, outbox, dropped, wire, received, via, sent, conn, alive>>
        /\ item = Stop /\ item' = Nothing /\ thread' = "ended" /\ emitted \in Nat
        /\ dropped \subseteq Segs
    BY Numbers DEF PumpEnds, queueVars, netVars, TypeOK
  <1>2. Handed'
    BY <1>1, QuietNet
  <1>3. QueueIsAhead' /\ HandedAreBehind'
    BY <1>1, Numbers DEF Order, QueueIsAhead, HandedAreBehind
  <1>4. Accounted'
    <2>1. (\A x \in 1..emitted : x # Stop) /\ \A x \in Segs : x # Nothing
      BY <1>1, Numbers DEF Stop
    <2>2. QED
      BY <1>1, <2>1 DEF Order, Accounted
  <1>5. OldConnectionsDead'
    BY <1>1 DEF Order, OldConnectionsDead
  <1>6. QED
    BY <1>2, <1>3, <1>4, <1>5 DEF Order

LEMMA ConnectOrder ==
  ASSUME TypeOK, Order, Connect
  PROVE  Order'
  <1>1. /\ UNCHANGED <<emitted, outbox, dropped, item, wire, received, via, sent>>
        /\ conn' = conn + 1 /\ conn + 1 \in Conns /\ conn \in Nat
        /\ alive' = [alive EXCEPT ![conn + 1] = TRUE] /\ alive \in [Conns -> BOOLEAN]
        /\ thread = "connecting" /\ thread' = "pumping"
    BY Numbers DEF Connect, queueVars, TypeOK, Conns
  <1>2. QueueIsAhead' /\ HandedAreBehind' /\ Accounted'
    BY <1>1 DEF Order, QueueIsAhead, HandedAreBehind, Accounted
  <1>3. \A x \in Segs : via[x] \in Nat /\ via[x] <= conn /\ (via[x] # 0 => via[x] \in Conns)
    BY ViaTypes DEF Order, Handed, ViaTells
  <1>4. \A x : InFlight(x)' <=> InFlight(x)
    BY <1>1 DEF InFlight, OnWire
  <1>5. WiresInOrder' /\ LaterGoLater' /\ ReadOnce' /\ ReadInOrder' /\ Tails'
    BY <1>1, <1>4 DEF Order, Handed, WiresInOrder, LaterGoLater, ReadOnce, ReadInOrder, Tails
  <1>6. ViaTells'
    BY <1>1, <1>3 DEF Order, Handed, ViaTells
  <1>7. AliveLosesNothing'
    BY <1>1, <1>3, <1>4 DEF Order, Handed, AliveLosesNothing
  <1>8. RaisedIsLast'
    BY <1>1, <1>3 DEF Order, Handed, RaisedIsLast
  <1>9. OldConnectionsDead'
    <2>1. \A c \in Conns : c > conn' => wire'[c] = <<>> /\ ~alive'[c]
      BY <1>1, Numbers DEF Order, OldConnectionsDead
    <2>2. \A c \in Conns : c < conn' => ~alive'[c]
      BY <1>1, Numbers DEF Order, OldConnectionsDead
    <2>3. QED
      BY <1>1, <2>1, <2>2 DEF OldConnectionsDead
  <1>10. QED
    BY <1>2, <1>5, <1>6, <1>7, <1>8, <1>9 DEF Order, Handed

(* The item in hand goes to the connection, which is a first for it.        *)
HandOver ==
  /\ UNCHANGED <<emitted, outbox, dropped, received, conn, alive>>
  /\ item \in Segs /\ item' = Nothing
  /\ thread = "pumping"
  /\ via' = [via EXCEPT ![item] = conn]

LEMMA HandOverFacts ==
  ASSUME TypeOK, Order, HandOver
  PROVE  /\ via[item] = 0 /\ ~InFlight(item) /\ item \notin sent
         /\ item \in Nat /\ conn \in Nat /\ conn \in Conns
         /\ \A x \in Segs : via[x] # 0 => x < item /\ via[x] <= conn
         /\ \A x \in Segs : x # item => via'[x] = via[x]
         /\ via'[item] = conn
  <1>1. via \in [Segs -> 0..MaxConnects] /\ item \in Segs /\ item \in Nat
    BY Numbers DEF HandOver, TypeOK
  <1>2. \A x \in Segs : via[x] # 0 => x < item /\ via[x] <= conn
    BY <1>1 DEF Order, HandedAreBehind, Handed, ViaTells
  <1>3. via[item] = 0
    BY <1>1, <1>2
  <1>4. item \notin sent
    BY <1>3 DEF Order, Handed, ViaTells
  <1>5. ~InFlight(item)
    BY <1>1, <1>4 DEF InFlight, OnWire, Order, Handed, ViaTells
  <1>6. conn \in Nat /\ conn \in Conns
    BY Numbers DEF TypeOK, HandOver, Order, OldConnectionsDead, Conns
  <1>7. QED
    BY <1>1, <1>2, <1>3, <1>4, <1>5, <1>6 DEF HandOver

LEMMA HandOverQueue ==
  ASSUME TypeOK, Order, HandOver
  PROVE  QueueIsAhead' /\ HandedAreBehind' /\ Accounted' /\ LaterGoLater'
  <1>1. /\ via[item] = 0 /\ item \in Nat /\ conn \in Nat /\ conn \in Conns
        /\ \A x \in Segs : via[x] # 0 => x < item /\ via[x] <= conn
        /\ \A x \in Segs : x # item => via'[x] = via[x]
        /\ via'[item] = conn
    BY HandOverFacts
  <1>2. /\ UNCHANGED <<emitted, outbox, dropped>> /\ item \in Segs /\ item' = Nothing
        /\ dropped \subseteq Segs /\ emitted \in 0..NSegs
    BY DEF HandOver, TypeOK
  <1>3. QueueIsAhead'
    BY <1>2, Numbers DEF Order, QueueIsAhead
  <1>4. HandedAreBehind'
    <2>1. item <= emitted /\ \A y \in Segs : Contains(outbox, y) => item < y
      BY <1>2 DEF Order, QueueIsAhead
    <2>2. QED
      BY <1>1, <1>2, <2>1, Numbers DEF Order, HandedAreBehind
  <1>5. Accounted'
    <2>1. conn # 0 /\ 1..emitted \subseteq Segs
      BY <1>1, <1>2, Numbers DEF Segs
    <2>2. \A x \in 1..emitted : via'[x] # 0 \/ Contains(outbox, x) \/ x \in dropped
      BY <1>1, <2>1 DEF Order, Accounted
    <2>3. \A x \in dropped : x <= emitted /\ x # item /\ via[x] = 0 /\ ~Contains(outbox, x)
      BY DEF Order, Accounted
    <2>4. \A x \in dropped : via'[x] = 0 /\ x # Nothing
      BY <1>1, <1>2, <2>3, Numbers
    <2>5. QED
      BY <1>2, <2>2, <2>3, <2>4 DEF Accounted
  <1>6. LaterGoLater'
    <2> SUFFICES ASSUME NEW x \in Segs, NEW y \in Segs, x < y, via'[x] # 0, via'[y] # 0
                 PROVE  via'[x] <= via'[y]
      BY DEF LaterGoLater
    <2>1. CASE y = item
      BY <1>1, <2>1, Numbers
    <2>2. CASE y # item
      <3>1. via[y] # 0 /\ y < item
        BY <1>1, <2>2
      <3>2. x # item
        BY <3>1, <1>1, Numbers
      <3>3. QED
        BY <1>1, <2>2, <3>1, <3>2 DEF Order, Handed, LaterGoLater
    <2>3. QED
      BY <2>1, <2>2
  <1>7. QED
    BY <1>3, <1>4, <1>5, <1>6

(* It is nowhere afterwards if the connection is dead.                      *)
LEMMA HandOverLost ==
  ASSUME TypeOK, Order, HandOver, wire' = wire, ~alive[conn],
         \/ sent' = sent /\ thread' # "pumping"
         \/ sent' = sent \cup {item} /\ thread' = thread
  PROVE  Handed'
  <1>1. /\ via[item] = 0 /\ ~InFlight(item) /\ item \notin sent
        /\ item \in Nat /\ conn \in Nat /\ conn \in Conns
        /\ \A x \in Segs : via[x] # 0 => x < item /\ via[x] <= conn
        /\ \A x \in Segs : x # item => via'[x] = via[x]
        /\ via'[item] = conn
    BY HandOverFacts
  <1>2. /\ UNCHANGED <<received, conn, alive>> /\ item \in Segs /\ thread = "pumping"
        /\ received \in Seq(Segs)
    BY DEF HandOver, TypeOK
  <1>3. \A x : InFlight(x)' <=> InFlight(x)
    BY <1>2 DEF InFlight, OnWire
  <1>4. \A c \in Conns : ~Contains(wire[c], item)
    BY <1>1 DEF InFlight, OnWire
  <1>5. ~Contains(received, item)
    BY <1>1 DEF InFlight
  <1>6. \A i \in 1..Len(received) : received[i] \in Segs /\ received[i] # item
    BY <1>2, <1>5, ElementOfSeq DEF Contains
  <1>7. WiresInOrder' /\ ReadOnce'
    BY <1>2 DEF Order, Handed, WiresInOrder, ReadOnce
  <1>8. ViaTells'
    <2>1. \A c \in Conns, x \in Segs : Contains(wire'[c], x) => via'[x] = c /\ x \in sent'
      BY <1>1, <1>4 DEF Order, Handed, ViaTells
    <2>2. \A x \in Segs : Contains(received', x) => x \in sent'
      BY <1>2 DEF Order, Handed, ViaTells
    <2>3. sent \subseteq Segs /\ conn # 0
      BY <1>1, Numbers DEF TypeOK
    <2>4. \A x \in sent' : via'[x] # 0
      BY <1>1, <2>3 DEF Order, Handed, ViaTells
    <2>5. \A x \in Segs : via'[x] <= conn'
      BY <1>1, <1>2 DEF Order, Handed, ViaTells
    <2>6. QED
      BY <2>1, <2>2, <2>4, <2>5 DEF ViaTells
  <1>9. LaterGoLater'
    BY HandOverQueue
  <1>10. ReadInOrder'
    <2>1. \A i, j \in 1..Len(received) :
            i < j /\ via'[received[i]] = via'[received[j]] => received[i] < received[j]
      BY <1>1, <1>6 DEF Order, Handed, ReadInOrder
    <2>2. \A c \in Conns, x, y \in Segs :
            Contains(received, x) /\ via'[x] = c /\ Contains(wire[c], y) => x < y
      BY <1>1, <1>5 DEF Order, Handed, ReadInOrder
    <2>3. QED
      BY <1>2, <2>1, <2>2 DEF ReadInOrder
  <1>11. AliveLosesNothing'
    BY <1>1, <1>2, <1>3 DEF Order, Handed, AliveLosesNothing
  <1>12. Tails'
    <2> SUFFICES ASSUME NEW x \in Segs, NEW y \in Segs,
                        via'[x] # 0, via'[y] = via'[x], x < y, InFlight(y)
                 PROVE  InFlight(x)
      BY <1>3 DEF Tails
    <2>1. y # item /\ via[y] # 0 /\ y < item
      BY <1>1
    <2>2. x # item
      BY <2>1, <1>1, Numbers
    <2>3. QED
      BY <2>1, <2>2, <1>1 DEF Order, Handed, Tails
  <1>13. RaisedIsLast'
    <2> SUFFICES ASSUME NEW x \in Segs, via'[x] # 0, x \notin sent'
                 PROVE  /\ \A y \in Segs : via'[y] = via'[x] => y <= x
                        /\ via'[x] = conn' => thread' # "pumping"
      BY DEF RaisedIsLast
    <2>1. CASE x = item
      <3>1. thread' # "pumping" /\ conn # 0
        BY <2>1, <1>1, Numbers
      <3>2. \A y \in Segs : via'[y] = conn => y <= item
        BY <1>1, <3>1, Numbers
      <3>3. QED
        BY <2>1, <3>1, <3>2, <1>1
    <2>2. CASE x # item
      <3>1. via[x] # 0 /\ x \notin sent /\ via'[x] = via[x]
        BY <2>2, <1>1
      <3>2. via[x] # conn /\ \A y \in Segs : via[y] = via[x] => y <= x
        BY <3>1, <1>2 DEF Order, Handed, RaisedIsLast
      <3>3. QED
        BY <3>1, <3>2, <1>1, <1>2
    <2>3. QED
      BY <2>1, <2>2
  <1>14. QED
    BY <1>7, <1>8, <1>9, <1>10, <1>11, <1>12, <1>13 DEF Handed

(* It is the last on the wire if the connection is alive.                   *)
LEMMA HandOverSent ==
  ASSUME TypeOK, Order, HandOver, alive[conn], thread' = thread, sent' = sent \cup {item},
         wire' = [wire EXCEPT ![conn] = Append(@, item)]
  PROVE  Handed'
  <1>1. /\ via[item] = 0 /\ ~InFlight(item) /\ item \notin sent
        /\ item \in Nat /\ conn \in Nat /\ conn \in Conns
        /\ \A x \in Segs : via[x] # 0 => x < item /\ via[x] <= conn
        /\ \A x \in Segs : x # item => via'[x] = via[x]
        /\ via'[item] = conn
    BY HandOverFacts
  <1>2. /\ UNCHANGED <<received, conn, alive>> /\ item \in Segs /\ thread = "pumping"
        /\ received \in Seq(Segs) /\ wire \in [Conns -> Seq(Segs)] /\ sent \subseteq Segs
    BY DEF HandOver, TypeOK
  <1>3. /\ \A c \in Conns \ {conn} : wire'[c] = wire[c]
        /\ wire'[conn] = Append(wire[conn], item)
    BY <1>1, <1>2
  <1>4. \A c \in Conns : \A x : Contains(wire'[c], x) <=>
          Contains(wire[c], x) \/ (c = conn /\ x = item)
    <2>1. \A x : Contains(Append(wire[conn], item), x) <=> Contains(wire[conn], x) \/ x = item
      BY <1>1, <1>2, AppendHas
    <2>2. QED
      BY <1>3, <2>1
  <1>5. \A x : InFlight(x)' <=> InFlight(x) \/ x = item
    BY <1>1, <1>2, <1>4 DEF InFlight, OnWire
  <1>6. (\A c \in Conns : ~Contains(wire[c], item)) /\ ~Contains(received, item)
    BY <1>1 DEF InFlight, OnWire
  <1>7. \A i \in 1..Len(received) : received[i] \in Segs /\ received[i] # item
    BY <1>2, <1>6, ElementOfSeq DEF Contains
  <1>8. WiresInOrder'
    <2>1. \A x \in Segs : Contains(wire[conn], x) => x < item
      BY <1>1, Numbers DEF Order, Handed, ViaTells
    <2>2. InOrder(Append(wire[conn], item))
      BY <1>1, <1>2, <2>1, AppendInOrder DEF Order, Handed, WiresInOrder
    <2>3. QED
      BY <1>3, <2>2 DEF Order, Handed, WiresInOrder
  <1>9. ReadOnce'
    BY <1>2, <1>4, <1>6 DEF Order, Handed, ReadOnce
  <1>10. ViaTells'
    <2>1. \A c \in Conns, x \in Segs : Contains(wire'[c], x) => via'[x] = c /\ x \in sent'
      <3> SUFFICES ASSUME NEW c \in Conns, NEW x \in Segs, Contains(wire'[c], x)
                   PROVE  via'[x] = c /\ x \in sent'
        OBVIOUS
      <3>1. CASE x = item
        BY <3>1, <1>1, <1>4, <1>6
      <3>2. CASE x # item
        BY <3>2, <1>1, <1>4 DEF Order, Handed, ViaTells
      <3>3. QED
        BY <3>1, <3>2
    <2>2. \A x \in Segs : Contains(received', x) => x \in sent'
      BY <1>2 DEF Order, Handed, ViaTells
    <2>3. conn # 0
      BY <1>1, Numbers
    <2>4. \A x \in sent' : via'[x] # 0
      BY <1>1, <1>2, <2>3 DEF Order, Handed, ViaTells
    <2>5. \A x \in Segs : via'[x] <= conn'
      BY <1>1, <1>2 DEF Order, Handed, ViaTells
    <2>6. QED
      BY <2>1, <2>2, <2>4, <2>5 DEF ViaTells
  <1>11. LaterGoLater'
    BY HandOverQueue
  <1>12. ReadInOrder'
    <2>1. \A i, j \in 1..Len(received) :
            i < j /\ via'[received[i]] = via'[received[j]] => received[i] < received[j]
      BY <1>1, <1>7 DEF Order, Handed, ReadInOrder
    <2>2. ASSUME NEW c \in Conns, NEW x \in Segs, NEW y \in Segs,
                 Contains(received, x), via'[x] = c, Contains(wire'[c], y)
          PROVE  x < y
      <3>1. x # item /\ via[x] = c /\ via[x] # 0
        BY <2>2, <1>1, <1>6, Numbers
      <3>2. CASE y = item
        BY <3>1, <3>2, <1>1
      <3>3. CASE y # item
        BY <3>1, <3>3, <2>2, <1>4 DEF Order, Handed, ReadInOrder
      <3>4. QED
        BY <3>2, <3>3
    <2>3. QED
      BY <1>2, <2>1, <2>2 DEF ReadInOrder
  <1>13. AliveLosesNothing'
    BY <1>1, <1>2, <1>5 DEF Order, Handed, AliveLosesNothing
  <1>14. Tails'
    <2> SUFFICES ASSUME NEW x \in Segs, NEW y \in Segs,
                        via'[x] # 0, via'[y] = via'[x], x < y, InFlight(y) \/ y = item
                 PROVE  InFlight(x) \/ x = item
      BY <1>5 DEF Tails
    <2>1. CASE x = item
      BY <2>1
    <2>2. CASE x # item /\ y # item
      BY <2>2, <1>1 DEF Order, Handed, Tails
    <2>3. CASE x # item /\ y = item
      BY <2>3, <1>1 DEF Order, Handed, AliveLosesNothing
    <2>4. QED
      BY <2>1, <2>2, <2>3
  <1>15. RaisedIsLast'
    <2> SUFFICES ASSUME NEW x \in Segs, via'[x] # 0, x \notin sent'
                 PROVE  /\ \A y \in Segs : via'[y] = via'[x] => y <= x
                        /\ via'[x] = conn' => thread' # "pumping"
      BY DEF RaisedIsLast
    <2>1. x # item /\ via[x] # 0 /\ x \notin sent /\ via'[x] = via[x]
      BY <1>1
    <2>2. via[x] # conn /\ \A y \in Segs : via[y] = via[x] => y <= x
      BY <2>1, <1>2 DEF Order, Handed, RaisedIsLast
    <2>3. QED
      BY <2>1, <2>2, <1>1, <1>2
  <1>16. QED
    BY <1>8, <1>9, <1>10, <1>11, <1>12, <1>13, <1>14, <1>15 DEF Handed

LEMMA SendOrder ==
  ASSUME TypeOK, Order, SendOk \/ SendFails
  PROVE  Order'
  <1>1. HandOver
    BY DEF SendOk, SendFails, HandOver, queueVars, netVars
  <1>2. QueueIsAhead' /\ HandedAreBehind' /\ Accounted'
    BY <1>1, HandOverQueue
  <1>3. Handed'
    <2>1. CASE SendFails
      BY <1>1, <2>1, HandOverLost DEF SendFails, netVars
    <2>2. CASE SendOk /\ ~alive[conn]
      BY <1>1, <2>2, HandOverLost DEF SendOk
    <2>3. CASE SendOk /\ alive[conn]
      BY <1>1, <2>3, HandOverSent DEF SendOk
    <2>4. QED
      BY <2>1, <2>2, <2>3
  <1>4. OldConnectionsDead'
    <2>1. /\ UNCHANGED <<conn, alive>> /\ item' = Nothing /\ conn \in Nat
          /\ wire \in [Conns -> Seq(Segs)]
          /\ \A c \in Conns : c # conn => wire'[c] = wire[c]
          /\ thread' = thread \/ (thread' = "sleeping" /\ ~alive[conn])
      BY Numbers DEF SendOk, SendFails, netVars, TypeOK
    <2>2. QED
      BY <1>1, <2>1, Numbers DEF HandOver, Order, OldConnectionsDead
  <1>5. QED
    BY <1>2, <1>3, <1>4 DEF Order

LEMMA BreakOrder ==
  ASSUME TypeOK, Order, NEW c \in Conns, Break(c)
  PROVE  Order'
  <1>1. /\ UNCHANGED <<emitted, outbox, dropped, item, received, via, sent, conn, thread>>
        /\ alive' = [alive EXCEPT ![c] = FALSE]
        /\ alive \in [Conns -> BOOLEAN] /\ wire \in [Conns -> Seq(Segs)]
        /\ alive[c]
    BY DEF Break, queueVars, threadVars, TypeOK
  <1>2. PICK n \in 0..Len(wire[c]) : wire' = [wire EXCEPT ![c] = SubSeq(@, 1, n)]
    BY DEF Break
  <1>3. /\ \A d \in Conns \ {c} : wire'[d] = wire[d]
        /\ wire'[c] = SubSeq(wire[c], 1, n)
    BY <1>1, <1>2
  <1>4. /\ \A x : Contains(SubSeq(wire[c], 1, n), x) => Contains(wire[c], x)
        /\ InOrder(wire[c]) => InOrder(SubSeq(wire[c], 1, n))
    BY <1>1, PrefixHas
  <1>5. \A d \in Conns : \A x : Contains(wire'[d], x) => Contains(wire[d], x)
    BY <1>3, <1>4
  <1>6. \A x : InFlight(x)' => InFlight(x)
    BY <1>1, <1>5 DEF InFlight, OnWire
  <1>7. QueueIsAhead' /\ HandedAreBehind' /\ Accounted'
    BY <1>1 DEF Order, QueueIsAhead, HandedAreBehind, Accounted
  <1>8. WiresInOrder'
    BY <1>3, <1>4 DEF Order, Handed, WiresInOrder
  <1>9. ViaTells' /\ LaterGoLater' /\ ReadOnce' /\ ReadInOrder' /\ RaisedIsLast'
    BY <1>1, <1>5 DEF Order, Handed, ViaTells, LaterGoLater, ReadOnce, ReadInOrder, RaisedIsLast
  <1>10. \A x \in Segs : via[x] # c /\ InFlight(x) => InFlight(x)'
    <2> SUFFICES ASSUME NEW x \in Segs, via[x] # c, OnWire(x) PROVE OnWire(x)'
      BY <1>1 DEF InFlight
    <2>1. PICK d \in Conns : Contains(wire[d], x)
      BY DEF OnWire
    <2>2. d # c
      BY <2>1 DEF Order, Handed, ViaTells
    <2>3. QED
      BY <2>1, <2>2, <1>3 DEF OnWire
  <1>11. AliveLosesNothing'
    <2> SUFFICES ASSUME NEW x \in Segs, via[x] # 0, alive'[via[x]] PROVE InFlight(x)'
      BY <1>1 DEF AliveLosesNothing
    <2>1. via[x] \in Conns /\ via[x] # c /\ alive[via[x]]
      BY <1>1, ViaTypes
    <2>2. QED
      BY <2>1, <1>10 DEF Order, Handed, AliveLosesNothing
  <1>12. Tails'
    <2> SUFFICES ASSUME NEW x \in Segs, NEW y \in Segs,
                        via[x] # 0, via[y] = via[x], x < y, InFlight(y)'
                 PROVE  InFlight(x)'
      BY <1>1 DEF Tails
    <2>1. InFlight(x)
      BY <1>6 DEF Order, Handed, Tails
    <2>2. CASE via[x] # c
      BY <2>1, <2>2, <1>10
    <2>3. CASE via[x] = c
      <3>1. CASE Contains(received, x)
        BY <3>1, <1>1 DEF InFlight
      <3>2. CASE ~Contains(received, x)
        <4>1. Contains(wire[c], x)
          BY <2>1, <2>3, <3>2 DEF InFlight, OnWire, Order, Handed, ViaTells
        <4>2. ~Contains(received, y)
          <5>1. Contains(received, y) => y < x
            BY <2>3, <4>1 DEF Order, Handed, ReadInOrder
          <5>2. QED
            BY <5>1, Numbers
        <4>3. Contains(wire'[c], y)
          BY <2>3, <4>2, <1>1, <1>5 DEF InFlight, OnWire, Order, Handed, ViaTells
        <4>4. QED
          <5>1. /\ wire[c] \in Seq(Segs) /\ Len(wire[c]) \in Nat
                /\ Len(wire'[c]) = n /\ \A k \in 1..n : wire'[c][k] = wire[c][k]
            <6>1. wire[c] \in Seq(Segs) /\ Len(wire[c]) \in Nat
              BY <1>1, LenProperties
            <6>2. QED
              BY <6>1, <1>3, SubSeqProperties, ElementOfSeq
          <5>2. PICK k \in 1..n : wire[c][k] = y
            BY <4>3, <5>1 DEF Contains
          <5>3. PICK i \in 1..Len(wire[c]) : wire[c][i] = x
            BY <4>1 DEF Contains
          <5>4. i < k
            <6>1. InOrder(wire[c]) /\ k \in 1..Len(wire[c])
              BY <5>1 DEF Order, Handed, WiresInOrder
            <6>2. k < i => y < x
              BY <6>1, <5>2, <5>3 DEF InOrder
            <6>3. k # i
              BY <5>2, <5>3, Numbers
            <6>4. QED
              BY <6>2, <6>3, <5>1, Numbers
          <5>5. i \in 1..n
            BY <5>4, <5>1
          <5>6. Contains(wire'[c], x)
            BY <5>1, <5>3, <5>5 DEF Contains
          <5>7. QED
            BY <5>6 DEF InFlight, OnWire
      <3>3. QED
        BY <3>1, <3>2
    <2>4. QED
      BY <2>2, <2>3
  <1>13. OldConnectionsDead'
    <2>1. \A d \in Conns : d > conn => d # c
      BY <1>1 DEF Order, OldConnectionsDead
    <2>2. \A d \in Conns : ~alive[d] => ~alive'[d]
      BY <1>1
    <2>3. \A d \in Conns : d > conn => wire'[d] = <<>>
      BY <2>1, <1>3 DEF Order, OldConnectionsDead
    <2>4. conn > 0 => conn \in Conns
      BY Numbers DEF TypeOK, Conns
    <2>5. QED
      BY <1>1, <2>2, <2>3, <2>4 DEF Order, OldConnectionsDead
  <1>14. QED
    BY <1>7, <1>8, <1>9, <1>11, <1>12, <1>13 DEF Order, Handed

LEMMA ReceiveOrder ==
  ASSUME TypeOK, Order, NEW c \in Conns, Receive(c)
  PROVE  Order'
  <1> DEFINE h == Head(wire[c])
  <1>1. /\ UNCHANGED <<emitted, outbox, dropped, item, via, sent, conn, alive, thread>>
        /\ wire \in [Conns -> Seq(Segs)] /\ received \in Seq(Segs)
        /\ wire[c] \in Seq(Segs) /\ wire[c] # <<>>
        /\ received' = Append(received, h)
        /\ wire' = [wire EXCEPT ![c] = Tail(@)]
        /\ conn \in Nat
    BY Numbers DEF Receive, queueVars, threadVars, TypeOK
  <1>2. /\ \A d \in Conns \ {c} : wire'[d] = wire[d]
        /\ wire'[c] = Tail(wire[c])
    BY <1>1
  <1>3. /\ h \in Segs /\ Contains(wire[c], h)
        /\ \A x : Contains(wire[c], x) <=> Contains(Tail(wire[c]), x) \/ x = h
    BY <1>1, TailHas
  <1>4. /\ InOrder(Tail(wire[c]))
        /\ \A x \in Segs : Contains(Tail(wire[c]), x) => h < x
    BY <1>1, <1>3, TailInOrder DEF Order, Handed, WiresInOrder
  <1>5. /\ Len(received') = Len(received) + 1
        /\ \A x : Contains(received', x) <=> Contains(received, x) \/ x = h
    BY <1>1, <1>3, AppendHas
  <1> HIDE DEF h
  <1>6. \A d \in Conns : \A x : Contains(wire'[d], x) => Contains(wire[d], x)
    BY <1>2, <1>3
  <1>7. via[h] = c /\ h \in sent
    BY <1>3 DEF Order, Handed, ViaTells
  <1>8. \A d \in Conns, x \in Segs : Contains(wire'[d], x) => x # h
    <2>1. ~Contains(Tail(wire[c]), h)
      BY <1>3, <1>4, Numbers
    <2>2. \A d \in Conns : Contains(wire[d], h) => d = c
      BY <1>3, <1>7 DEF Order, Handed, ViaTells
    <2>3. QED
      BY <1>2, <2>1, <2>2
  <1>9. ~Contains(received, h)
    BY <1>3 DEF Order, Handed, ReadOnce
  <1>10. \A x : InFlight(x)' <=> InFlight(x)
    <2>1. \A d \in Conns : \A x : Contains(wire[d], x) => Contains(wire'[d], x) \/ x = h
      BY <1>2, <1>3
    <2>2. QED
      BY <1>3, <1>5, <1>6, <2>1 DEF InFlight, OnWire
  <1>11. QueueIsAhead' /\ HandedAreBehind' /\ Accounted'
    BY <1>1 DEF Order, QueueIsAhead, HandedAreBehind, Accounted
  <1>12. WiresInOrder'
    BY <1>2, <1>4 DEF Order, Handed, WiresInOrder
  <1>13. ViaTells'
    BY <1>1, <1>5, <1>6, <1>7 DEF Order, Handed, ViaTells
  <1>14. LaterGoLater' /\ RaisedIsLast'
    BY <1>1 DEF Order, Handed, LaterGoLater, RaisedIsLast
  <1>15. AliveLosesNothing' /\ Tails'
    BY <1>1, <1>10 DEF Order, Handed, AliveLosesNothing, Tails
  <1>16. /\ Len(received) \in Nat
         /\ \A i \in 1..Len(received) :
              received'[i] = received[i] /\ received[i] # h /\ received[i] \in Segs
                /\ Contains(received, received[i])
         /\ received'[Len(received) + 1] = h
    BY <1>1, <1>3, <1>9, AppendProperties, LenProperties, ElementOfSeq DEF Contains
  <1>17. ReadOnce'
    <2>1. \A d \in Conns, x \in Segs : Contains(wire'[d], x) => ~Contains(received', x)
      BY <1>5, <1>6, <1>8 DEF Order, Handed, ReadOnce
    <2>2. \A i, j \in 1..Len(received') : received'[i] = received'[j] => i = j
      BY <1>5, <1>16 DEF Order, Handed, ReadOnce
    <2>3. QED
      BY <2>1, <2>2 DEF ReadOnce
  <1>18. ReadInOrder'
    <2>1. \A i, j \in 1..Len(received') :
            i < j /\ via[received'[i]] = via[received'[j]] => received'[i] < received'[j]
      <3> SUFFICES ASSUME NEW i \in 1..Len(received'), NEW j \in 1..Len(received'), i < j,
                          via[received'[i]] = via[received'[j]]
                   PROVE  received'[i] < received'[j]
        OBVIOUS
      <3>1. i \in 1..Len(received)
        BY <1>5, <1>16
      <3>2. CASE j \in 1..Len(received)
        BY <3>1, <3>2, <1>16 DEF Order, Handed, ReadInOrder
      <3>3. CASE j \notin 1..Len(received)
        <4>1. j = Len(received) + 1
          BY <3>3, <1>5, <1>16
        <4>2. via[received[i]] = c /\ received[i] \in Segs /\ Contains(received, received[i])
          BY <3>1, <4>1, <1>7, <1>16
        <4>3. received[i] < h
          BY <4>2, <1>3 DEF Order, Handed, ReadInOrder
        <4>4. QED
          BY <3>1, <4>1, <4>3, <1>16
      <3>4. QED
        BY <3>2, <3>3
    <2>2. ASSUME NEW d \in Conns, NEW x \in Segs, NEW y \in Segs,
                 Contains(received', x), via[x] = d, Contains(wire'[d], y)
          PROVE  x < y
      <3>1. CASE x = h
        BY <2>2, <3>1, <1>2, <1>4, <1>7
      <3>2. CASE x # h
        BY <2>2, <3>2, <1>5, <1>6 DEF Order, Handed, ReadInOrder
      <3>3. QED
        BY <3>1, <3>2
    <2>3. QED
      BY <1>1, <2>1, <2>2 DEF ReadInOrder
  <1>19. OldConnectionsDead'
    <2>1. c <= conn
      BY <1>1, Numbers DEF Order, OldConnectionsDead
    <2>2. \A d \in Conns : d > conn => wire'[d] = <<>>
      BY <1>1, <1>2, <2>1, Numbers DEF Order, OldConnectionsDead
    <2>3. QED
      BY <1>1, <2>2 DEF Order, OldConnectionsDead
  <1>20. QED
    BY <1>11, <1>12, <1>13, <1>14, <1>15, <1>17, <1>18, <1>19 DEF Order, Handed

LEMMA NextOrder == TypeOK /\ Order /\ [Next]_vars => Order'
  <1> SUFFICES ASSUME TypeOK, Order, [Next]_vars PROVE Order'
    OBVIOUS
  <1>1. CASE UNCHANGED vars
    <2>1. Still
      BY <1>1 DEF vars, queueVars, threadVars, netVars, Still
    <2>2. QED
      BY <2>1, StillOrder
  <1>2. CASE Next
    BY <1>2, NextCases, StillTypes, StillOrder, PutOrder, GetOrder, PumpEndsOrder, ConnectOrder,
       SendOrder, BreakOrder, ReceiveOrder
  <1>3. QED
    BY <1>1, <1>2

-----------------------------------------------------------------------------
(* What the invariant says about OnlyBreaksHarm.                            *)

LEMMA AtMostOne ==
  ASSUME NEW S, \A x, y \in S : x = y
  PROVE  Cardinality(S) \in {0, 1} /\ (S = {} => Cardinality(S) = 0)
  <1>1. CASE S = {}
    BY <1>1, FS_EmptySet
  <1>2. CASE S # {}
    <2>1. PICK x : S = {x}
      BY <1>2
    <2>2. QED
      BY <2>1, FS_Singleton
  <1>3. QED
    BY <1>1, <1>2

LEMMA OrderOnce ==
  ASSUME TypeOK, Order
  PROVE  SentAtMostOnce
  <1> SUFFICES ASSUME NEW s \in Segs
               PROVE  Cardinality({i \in DOMAIN outbox : outbox[i] = s})
                      + (IF item = s THEN 1 ELSE 0)
                      + Cardinality({p \in Conns \X (1..NSegs) :
                           p[2] \in DOMAIN wire[p[1]] /\ wire[p[1]][p[2]] = s})
                      + Cardinality({i \in DOMAIN received : received[i] = s}) <= 1
    BY DEF SentAtMostOnce
  <1> DEFINE Q == {i \in DOMAIN outbox : outbox[i] = s}
             W == {p \in Conns \X (1..NSegs) :
                     p[2] \in DOMAIN wire[p[1]] /\ wire[p[1]][p[2]] = s}
             R == {i \in DOMAIN received : received[i] = s}
  <1>1. /\ DOMAIN outbox = 1..Len(outbox) /\ Len(outbox) \in Nat
        /\ DOMAIN received = 1..Len(received)
        /\ \A c \in Conns : DOMAIN wire[c] = 1..Len(wire[c]) /\ Len(wire[c]) \in Nat
    BY LenProperties DEF TypeOK
  <1>2. s \in Nat
    BY Numbers
  <1>3. (Q # {} <=> Contains(outbox, s)) /\ (R # {} <=> Contains(received, s))
    BY <1>1 DEF Contains
  <1>4. W # {} => OnWire(s)
    <2> SUFFICES ASSUME NEW p \in W PROVE OnWire(s)
      OBVIOUS
    <2>1. p[1] \in Conns /\ p[2] \in 1..Len(wire[p[1]]) /\ wire[p[1]][p[2]] = s
      BY <1>1
    <2>2. QED
      BY <2>1 DEF OnWire, Contains
  <1>5. \A i, j \in Q : i = j
    BY <1>1, <1>2 DEF Order, QueueIsAhead, InOrder
  <1>6. \A i, j \in R : i = j
    BY <1>1 DEF Order, Handed, ReadOnce
  <1>7. \A p, q \in W : p = q
    <2> SUFFICES ASSUME NEW p \in W, NEW q \in W PROVE p = q
      OBVIOUS
    <2>1. /\ p = <<p[1], p[2]>> /\ q = <<q[1], q[2]>> /\ p[1] \in Conns /\ q[1] \in Conns
          /\ p[2] \in 1..Len(wire[p[1]]) /\ q[2] \in 1..Len(wire[q[1]])
          /\ wire[p[1]][p[2]] = s /\ wire[q[1]][q[2]] = s
      BY <1>1
    <2>2. p[1] = q[1]
      BY <2>1 DEF Order, Handed, ViaTells, Contains
    <2>3. p[2] = q[2]
      BY <1>1, <1>2, <2>1, <2>2 DEF Order, Handed, WiresInOrder, InOrder
    <2>4. QED
      BY <2>1, <2>2, <2>3
  <1>8. /\ Cardinality(Q) \in {0, 1} /\ (Q = {} => Cardinality(Q) = 0)
        /\ Cardinality(W) \in {0, 1} /\ (W = {} => Cardinality(W) = 0)
        /\ Cardinality(R) \in {0, 1} /\ (R = {} => Cardinality(R) = 0)
    <2> HIDE DEF Q, W, R
    <2>1. QED
      BY <1>5, <1>6, <1>7, AtMostOne
  <1>9. /\ item = s => Q = {} /\ W = {} /\ R = {}
        /\ Q # {} => W = {} /\ R = {}
        /\ W # {} => R = {}
    <2>1. /\ item = s => ~Contains(outbox, s) /\ ~InFlight(s)
          /\ Contains(outbox, s) => ~InFlight(s)
      <3>1. InFlight(s) => via[s] # 0
        BY DEF InFlight, OnWire, Order, Handed, ViaTells
      <3>2. QED
        BY <1>2, <3>1 DEF Order, QueueIsAhead, HandedAreBehind
    <2>2. OnWire(s) => ~Contains(received, s)
      BY DEF Order, Handed, ReadOnce, OnWire
    <2> HIDE DEF Q, W, R
    <2>3. QED
      BY <1>3, <1>4, <2>1, <2>2 DEF InFlight
  <1> HIDE DEF Q, W, R
  <1>10. Cardinality(Q) + (IF item = s THEN 1 ELSE 0) + Cardinality(W) + Cardinality(R) <= 1
    BY <1>8, <1>9
  <1>11. QED
    BY <1>10 DEF Q, W, R

LEMMA OrderHarm ==
  ASSUME TypeOK, Order
  PROVE  OnlyBreaksHarm
  <1>1. /\ \A x \in Segs : via[x] \in Nat /\ (via[x] # 0 => via[x] \in Conns)
        /\ conn \in Nat /\ emitted \in 0..NSegs
    BY ViaTypes DEF TypeOK
  <1>2. ReorderedOnlyByBreaks
    <2> SUFFICES ASSUME NEW i \in DOMAIN received, NEW j \in DOMAIN received,
                        i < j, received[i] > received[j]
                 PROVE  via[received[j]] < via[received[i]] /\ ~alive[via[received[j]]]
      BY DEF ReorderedOnlyByBreaks
    <2>1. received \in Seq(Segs) /\ DOMAIN received = 1..Len(received)
      BY LenProperties DEF TypeOK
    <2>2. PICK x \in Segs, y \in Segs : x = received[i] /\ y = received[j]
      BY <2>1, ElementOfSeq
    <2>3. Contains(received, x) /\ Contains(received, y) /\ y < x
      BY <2>1, <2>2, Numbers DEF Contains
    <2>4. via[x] # 0 /\ via[y] # 0
      BY <2>3 DEF Order, Handed, ViaTells
    <2>5. via[y] <= via[x]
      BY <2>3, <2>4 DEF Order, Handed, LaterGoLater
    <2>6. via[y] # via[x]
      <3>1. via[x] = via[y] => x < y
        BY <2>1, <2>2 DEF Order, Handed, ReadInOrder
      <3>2. QED
        BY <2>3, <3>1, Numbers
    <2>7. via[y] < conn
      <3>1. via[x] <= conn
        BY DEF Order, Handed, ViaTells
      <3>2. QED
        BY <1>1, <2>5, <2>6, <3>1
    <2>8. ~alive[via[y]]
      BY <1>1, <2>4, <2>7 DEF Order, OldConnectionsDead
    <2>9. QED
      BY <1>1, <2>2, <2>5, <2>6, <2>8
  <1>3. \A x \in Segs : via[x] # 0 => (x \in Lost <=> ~InFlight(x))
    <2> SUFFICES ASSUME NEW x \in Segs, via[x] # 0 PROVE x \in Lost <=> ~InFlight(x)
      OBVIOUS
    <2>1. x \in 1..emitted /\ ~Contains(outbox, x) /\ item # x
      BY <1>1, Numbers DEF Order, HandedAreBehind
    <2>2. x \notin dropped
      BY DEF Order, Accounted
    <2>3. QED
      BY <2>1, <2>2 DEF Lost, InFlight
  <1>4. LossesAreTails
    <2> SUFFICES ASSUME NEW s \in Lost
                 PROVE  /\ via[s] # 0 /\ ~alive[via[s]]
                        /\ \A t \in Segs : via[t] = via[s] /\ t > s => t \in Lost
                        /\ s \notin sent => \A t \in Segs : via[t] = via[s] => t <= s
      BY DEF LossesAreTails
    <2>1. s \in 1..emitted /\ s \in Segs /\ ~InFlight(s)
      BY <1>1, Numbers DEF Lost, InFlight, Segs
    <2>2. via[s] # 0
      BY <2>1 DEF Lost, Order, Accounted
    <2>3. ~alive[via[s]]
      BY <2>1, <2>2 DEF Order, Handed, AliveLosesNothing
    <2>4. ASSUME NEW t \in Segs, via[t] = via[s], t > s PROVE t \in Lost
      <3>1. s < t
        BY <2>1, <2>4, Numbers
      <3>2. ~InFlight(t)
        BY <2>1, <2>2, <2>4, <3>1 DEF Order, Handed, Tails
      <3>3. QED
        BY <1>3, <2>2, <2>4, <3>2
    <2>5. s \notin sent => \A t \in Segs : via[t] = via[s] => t <= s
      BY <2>1, <2>2 DEF Order, Handed, RaisedIsLast
    <2>6. QED
      BY <2>2, <2>3, <2>4, <2>5
  <1>5. QED
    BY <1>2, <1>4, OrderOnce DEF OnlyBreaksHarm

(* transport.py:57-148: no segment reaches ingest twice; one is overtaken   *)
(* only when it was on a connection that died; and what a dead connection   *)
(* takes with it are the last segments it was handed, the one whose send    *)
(* raised after all others.                                                 *)
THEOREM BreaksAreTheOnlyHarm == Spec => []OnlyBreaksHarm
  <1>1. Init => Order
    BY InitOrder
  <1>2. TypeOK /\ Order /\ [Next]_vars => Order'
    BY NextOrder
  <1>3. TypeOK /\ Order => OnlyBreaksHarm
    BY OrderHarm
  <1>4. QED
    BY <1>1, <1>2, <1>3, TypeCorrect, PTL DEF Spec
=============================================================================
