--------------------------- MODULE CallView_proofs ----------------------------
(***************************************************************************)
(* Proof that useQuery never shows a late answer, for any feed, any tabs   *)
(* and any number of requests on their way; and that while it does the hub *)
(* serves its clients and a tab shows an event again only when it is       *)
(* replayed or read again.                                                 *)
(***************************************************************************)
EXTENDS CallView, SequenceTheorems, FiniteSetTheorems, WellFoundedInduction, TLAPS

-----------------------------------------------------------------------------
(* The hub and its clients: the inductive invariant.                        *)

Numbered == [type : {"event"}, number : Nat]
Hellos == [type : {"hello"}, kafka : BOOLEAN, replay : Seq(Nat)]

Types ==
  /\ position \in 0..Len(Feed)
  /\ group \in [committed : BOOLEAN, offset : 0..Len(Feed)]
  /\ bridge \in {"down", "running", "sending"} /\ kafka \in BOOLEAN
  /\ consumers \in Nat /\ pending \in Seq(Events) /\ events \in Seq(Events)
  /\ clients \subseteq Sockets /\ due \subseteq Sockets /\ dead \subseteq Sockets
  /\ handler \in [Sockets -> {"none", "reading", "abandoned", "ended"}]
  /\ broken \subseteq Sockets
  /\ log \in [Sockets -> Seq(Numbered \union Hellos)]
  /\ since \in [Sockets -> Nat]

(* A view has the fields of Blank, whatever it shows.                       *)
Whole(view) ==
  view = [mounted |-> view.mounted, connected |-> view.connected, kafka |-> view.kafka,
          socket |-> view.socket, timer |-> view.timer, segments |-> view.segments,
          signals |-> view.signals, hellos |-> view.hellos]
Views ==
  /\ DOMAIN tab = Tabs
  /\ \A t \in Tabs : Whole(tab[t]) /\ tab[t].socket \in Sockets \union {None}

(* The hub remembers the latest events, of which it has lost none.          *)
RecentIsLatest ==
  /\ recent \in Seq(Nat) /\ Len(recent) <= Len(events)
  /\ \A k \in 1..Len(recent) : recent[k] = Len(events) - Len(recent) + k

(* Between two broadcasts there is nothing to send.                         *)
NothingDue == bridge # "sending" => due = {}

OneTabEach ==
  \A t, u \in Tabs : tab[t].socket = tab[u].socket /\ tab[t].socket # None => t = u

(* A socket that live() has yet to accept is unknown to the hub.            *)
NewIsUnknown ==
  \A s \in Sockets :
    handler[s] = "none" /\ (Held(s) \/ s \in broken) => s \notin clients \union due \union dead

FeedInv ==
  /\ Types /\ Views
  /\ RecentIsLatest /\ NothingDue /\ OneTabEach /\ NewIsUnknown
  /\ ReplayMeetsTail /\ BrokenHelloIsSwept
-----------------------------------------------------------------------------
(* Lemmas about the operators.                                              *)

(* The last n entries of a sequence, or all of a shorter one.               *)
LEMMA LastOfFacts ==
  ASSUME NEW S, NEW s \in Seq(S), NEW n \in Nat
  PROVE  /\ LastOf(n, s) \in Seq(S)
         /\ Len(LastOf(n, s)) = IF Len(s) > n THEN n ELSE Len(s)
         /\ \A k \in 1..Len(LastOf(n, s)) :
              LastOf(n, s)[k] = s[Len(s) - Len(LastOf(n, s)) + k]
  <1> DEFINE from == IF Len(s) > n THEN Len(s) + 1 - n ELSE 1
  <1>1. Len(s) \in Nat /\ \A k \in 1..Len(s) : s[k] \in S
    BY LenProperties, ElementOfSeq
  <1>2. from \in Int /\ from >= 1
    BY <1>1
  <1>3. \A k \in from..Len(s) : s[k] \in S
    BY <1>1, <1>2
  <1>4. LastOf(n, s) = SubSeq(s, from, Len(s))
    BY DEF LastOf
  <1> HIDE DEF from
  <1>5. /\ SubSeq(s, from, Len(s)) \in Seq(S)
        /\ Len(SubSeq(s, from, Len(s))) = IF from <= Len(s) THEN Len(s) - from + 1 ELSE 0
        /\ \A i \in 1..(Len(s) - from + 1) : SubSeq(s, from, Len(s))[i] = s[from + i - 1]
    BY <1>1, <1>2, <1>3, SubSeqProperties
  <1>6. CASE Len(s) > n
    <2>1. from = Len(s) + 1 - n
      BY <1>6 DEF from
    <2>2. Len(LastOf(n, s)) = n
      BY <2>1, <1>1, <1>4, <1>5, <1>6
    <2>3. QED
      BY <2>1, <2>2, <1>1, <1>4, <1>5, <1>6
  <1>7. CASE ~(Len(s) > n)
    <2>1. from = 1
      BY <1>7 DEF from
    <2>2. Len(LastOf(n, s)) = Len(s)
      BY <2>1, <1>1, <1>4, <1>5
    <2>3. QED
      BY <2>1, <2>2, <1>1, <1>4, <1>5, <1>7
  <1>8. QED
    BY <1>6, <1>7

(* What a message does to a view leaves its connection alone.               *)
LEMMA ReceivedFacts ==
  ASSUME NEW view, NEW message, Whole(view)
  PROVE  /\ Whole(Received(view, message))
         /\ Received(view, message).socket = view.socket
  <1>1. ASSUME NEW number
        PROVE  Whole(Apply(view, number)) /\ Apply(view, number).socket = view.socket
    <2>1. CASE events[number].kind = "segment"
      BY <2>1 DEF Apply, Whole
    <2>2. CASE events[number].kind = "signal"
      BY <2>2 DEF Apply, Whole
    <2>3. CASE events[number].kind # "segment" /\ events[number].kind # "signal"
      BY <2>3 DEF Apply, Whole
    <2>4. QED
      BY <2>1, <2>2, <2>3
  <1>2. CASE message.type = "event"
    BY <1>1, <1>2 DEF Received
  <1>3. CASE message.type # "event"
    BY <1>3 DEF Received, Whole
  <1>4. QED
    BY <1>2, <1>3

-----------------------------------------------------------------------------
(* The initial states.                                                      *)

LEMMA InitFeedInv == FeedInit => FeedInv
  <1> SUFFICES ASSUME FeedInit PROVE FeedInv
    OBVIOUS
  <1>1. /\ DOMAIN tab = Tabs
        /\ \A t \in Tabs : tab[t].socket = None /\ \E open : tab[t] = Blank(open)
    <2>1. PICK course \in Courses : tab = [t \in Tabs |-> Blank(t \in course.open)]
      BY DEF FeedInit
    <2>2. QED
      BY <2>1 DEF Blank
  <1>2. Types
    <2>1. 0 \in 0..Len(Feed)
      BY FeedAssumption, LenProperties
    <2>2. \A S : <<>> \in Seq(S)
      BY EmptySeq
    <2>3. QED
      BY <2>1, <2>2 DEF FeedInit, Types
  <1>3. Views /\ OneTabEach
    BY <1>1 DEF Views, Whole, OneTabEach, Blank
  <1>4. RecentIsLatest /\ NothingDue
    BY DEF FeedInit, RecentIsLatest, NothingDue
  <1>5. NewIsUnknown /\ ReplayMeetsTail /\ BrokenHelloIsSwept
    BY DEF FeedInit, NewIsUnknown, ReplayMeetsTail, BrokenHelloIsSwept
  <1>6. QED
    BY <1>2, <1>3, <1>4, <1>5 DEF FeedInv

-----------------------------------------------------------------------------
(* consume_kafka.                                                           *)

(* What the hub has sent to a socket that nothing has happened to.          *)
LEMMA CarriesFrame ==
  ASSUME NEW s, NEW first, NEW last, Carries(s, first, last), log'[s] = log[s]
  PROVE  Carries(s, first, last)'
  BY DEF Carries

(* Of this socket, what it carries reaches the event it should.             *)
Meets(s) == \E first \in 1..(LastSent(s) + 1) : Carries(s, first, LastSent(s))
Reads(s) == handler[s] = "reading" /\ s \notin broken

LEMMA MeetsFrame ==
  ASSUME NEW s, Meets(s), log'[s] = log[s], LastSent(s)' = LastSent(s)
  PROVE  Meets(s)'
  <1>1. PICK last : last = LastSent(s)
    OBVIOUS
  <1>2. PICK first \in 1..(last + 1) : Carries(s, first, last)
    BY <1>1 DEF Meets
  <1>3. Carries(s, first, last)'
    BY <1>2, CarriesFrame
  <1>4. LastSent(s)' = last
    BY <1>1
  <1>5. QED
    BY <1>2, <1>3, <1>4 DEF Meets

LEMMA ReplayFrame ==
  ASSUME ReplayMeetsTail, log' = log,
         \A s \in clients' : Reads(s)' => s \in clients /\ Reads(s) /\ LastSent(s)' = LastSent(s)
  PROVE  ReplayMeetsTail'
  <1>1. ASSUME NEW s \in clients', Reads(s)'
        PROVE  Meets(s)'
    <2>1. Meets(s)
      BY <1>1 DEF ReplayMeetsTail, Meets, Reads
    <2>2. QED
      BY <2>1, <1>1, MeetsFrame
  <1>2. QED
    BY <1>1 DEF ReplayMeetsTail, Meets, Reads

LEMMA CommittedFacts ==
  ASSUME FeedInv, Committed
  PROVE  group' \in [committed : BOOLEAN, offset : 0..Len(Feed)]
  <1>1. \A offset \in group.offset..position : offset \in 0..Len(Feed)
    BY FeedAssumption, LenProperties DEF FeedInv, Types
  <1>2. group' = group
        \/ \E offset \in 0..Len(Feed) : group' = [committed |-> TRUE, offset |-> offset]
    BY <1>1 DEF Committed
  <1>3. group \in [committed : BOOLEAN, offset : 0..Len(Feed)]
    BY DEF FeedInv, Types
  <1>4. CASE group' = group
    BY <1>3, <1>4
  <1>5. ASSUME NEW offset \in 0..Len(Feed), group' = [committed |-> TRUE, offset |-> offset]
        PROVE  group' \in [committed : BOOLEAN, offset : 0..Len(Feed)]
    BY <1>5
  <1>6. QED
    BY <1>2, <1>4, <1>5

LEMMA ConsumerKeeps ==
  ASSUME FeedInv, StartConsumer \/ ConsumerFails \/ Take
  PROVE  FeedInv'
  <1>1. /\ UNCHANGED <<clients, recent, due, dead, events, socketVars, tab>>
        /\ bridge \in {"down", "running"} /\ bridge' \in {"down", "running"}
    BY DEF StartConsumer, ConsumerFails, Take, hubVars, FeedInv, Types
  <1>2. Types'
    <2>0. Len(Feed) \in Nat
      BY FeedAssumption, LenProperties
    <2>1. CASE StartConsumer
      <3>1. position' \in 0..Len(Feed)
        BY <2>0, <2>1 DEF StartConsumer, FeedInv, Types
      <3>2. group' \in [committed : BOOLEAN, offset : 0..Len(Feed)]
        BY <3>1, <2>1 DEF StartConsumer, FeedInv, Types
      <3>3. QED
        BY <3>1, <3>2, <2>1, <1>1 DEF StartConsumer, FeedInv, Types, socketVars
    <2>2. CASE ConsumerFails
      <3>1. group' \in [committed : BOOLEAN, offset : 0..Len(Feed)]
        BY <2>2, CommittedFacts DEF ConsumerFails
      <3>2. QED
        BY <3>1, <2>2, <1>1 DEF ConsumerFails, FeedInv, Types, socketVars
    <2>3. CASE Take
      <3>1. Len(Feed) \in Nat /\ position + 1 \in 1..Len(Feed)
        BY <2>3, FeedAssumption, LenProperties DEF Take, FeedInv, Types
      <3>2. Feed[position + 1] \in Seq(Events)
        BY <3>1, FeedAssumption, ElementOfSeq
      <3>3. QED
        BY <3>1, <3>2, <2>3, <1>1 DEF Take, FeedInv, Types, socketVars, hubVars
    <2>4. QED
      BY <2>1, <2>2, <2>3
  <1>3. Views' /\ RecentIsLatest' /\ NothingDue' /\ OneTabEach'
    BY <1>1 DEF FeedInv, Views, RecentIsLatest, NothingDue, OneTabEach
  <1>4. NewIsUnknown'
    BY <1>1 DEF FeedInv, NewIsUnknown, Held, socketVars
  <1>5. ReplayMeetsTail'
    BY <1>1, ReplayFrame DEF FeedInv, socketVars, Reads, LastSent
  <1>6. BrokenHelloIsSwept'
    BY <1>1 DEF FeedInv, BrokenHelloIsSwept, socketVars
  <1>7. QED
    BY <1>2, <1>3, <1>4, <1>5, <1>6 DEF FeedInv

(* The event is the latest that the hub remembers, and the clients of this  *)
(* moment lack nothing else.                                                *)
LEMMA BroadcastKeeps ==
  ASSUME FeedInv, Broadcast
  PROVE  FeedInv'
  <1>1. /\ UNCHANGED <<clients, dead, kafka, handler, broken, log, since, tab, position, group,
                       consumers>>
        /\ bridge = "running" /\ due = {} /\ due' = clients
        /\ bridge' = IF clients = {} THEN "running" ELSE "sending"
    BY DEF Broadcast, socketVars, FeedInv, NothingDue
  <1>2. /\ events' \in Seq(Events) /\ Len(events') = Len(events) + 1 /\ Len(events) \in Nat
        /\ pending' \in Seq(Events)
    <2>1. Head(pending) \in Events /\ Tail(pending) \in Seq(Events)
      BY HeadTailProperties DEF Broadcast, FeedInv, Types
    <2>2. QED
      BY <2>1, AppendProperties, LenProperties DEF Broadcast, FeedInv, Types
  <1>3. Types'
    BY <1>1, <1>2 DEF FeedInv, Types
  <1>4. RecentIsLatest'
    <2> DEFINE longer == Append(recent, Len(events) + 1)
    <2>1. /\ longer \in Seq(Nat) /\ Len(longer) = Len(recent) + 1 /\ Len(recent) \in Nat
          /\ \A k \in 1..Len(longer) : longer[k] = Len(events) + 1 - Len(longer) + k
      <3>1. recent \in Seq(Nat) /\ Len(recent) \in Nat /\ Len(events) + 1 \in Nat
            /\ \A k \in 1..Len(recent) : recent[k] = Len(events) - Len(recent) + k
        BY <1>2, LenProperties DEF FeedInv, RecentIsLatest
      <3>2. /\ longer \in Seq(Nat) /\ Len(longer) = Len(recent) + 1
            /\ \A k \in 1..Len(recent) : longer[k] = recent[k]
            /\ longer[Len(recent) + 1] = Len(events) + 1
        BY <3>1, AppendProperties
      <3> HIDE DEF longer
      <3>3. ASSUME NEW k \in 1..Len(longer)
            PROVE  longer[k] = Len(events) + 1 - Len(longer) + k
        <4>1. CASE k = Len(recent) + 1
          BY <4>1, <3>1, <3>2, <1>2
        <4>2. CASE k \in 1..Len(recent)
          BY <4>2, <3>1, <3>2, <1>2
        <4>3. QED
          BY <4>1, <4>2, <3>1, <3>2
      <3>4. QED
        BY <3>1, <3>2, <3>3
    <2>2. recent' = LastOf(ReplayBuffer, longer)
      BY DEF Broadcast
    <2> HIDE DEF longer
    <2>3. /\ recent' \in Seq(Nat) /\ Len(recent') <= Len(longer) /\ Len(recent') \in Nat
          /\ \A k \in 1..Len(recent') : recent'[k] = longer[Len(longer) - Len(recent') + k]
      <3>1. ReplayBuffer \in Nat
        BY FeedAssumption
      <3>2. /\ LastOf(ReplayBuffer, longer) \in Seq(Nat)
            /\ Len(LastOf(ReplayBuffer, longer)) =
                 IF Len(longer) > ReplayBuffer THEN ReplayBuffer ELSE Len(longer)
            /\ \A k \in 1..Len(LastOf(ReplayBuffer, longer)) :
                 LastOf(ReplayBuffer, longer)[k]
                   = longer[Len(longer) - Len(LastOf(ReplayBuffer, longer)) + k]
        BY <3>1, <2>1, LastOfFacts
      <3>3. Len(LastOf(ReplayBuffer, longer)) \in Nat
            /\ Len(LastOf(ReplayBuffer, longer)) <= Len(longer)
        BY <2>1, <3>1, <3>2
      <3>4. QED
        BY <3>2, <3>3, <2>2, Zenon
    <2>4. \A k \in 1..Len(recent') : recent'[k] = Len(events') - Len(recent') + k
      <3> TAKE k \in 1..Len(recent')
      <3>1. Len(longer) - Len(recent') + k \in 1..Len(longer)
        BY <2>1, <2>3
      <3>2. QED
        BY <3>1, <2>1, <2>3, <1>2
    <2>5. QED
      BY <2>1, <2>3, <2>4, <1>2 DEF FeedInv, RecentIsLatest
  <1>5. Views' /\ OneTabEach' /\ NothingDue'
    BY <1>1 DEF FeedInv, Views, OneTabEach, NothingDue
  <1>6. NewIsUnknown'
    BY <1>1 DEF FeedInv, NewIsUnknown, Held
  <1>7. ReplayMeetsTail'
    BY <1>1, <1>2, ReplayFrame DEF FeedInv, Reads, LastSent
  <1>8. BrokenHelloIsSwept'
    BY <1>1 DEF FeedInv, BrokenHelloIsSwept
  <1>9. QED
    BY <1>3, <1>4, <1>5, <1>6, <1>7, <1>8 DEF FeedInv

(* The event that is being sent follows what the socket carries.            *)
LEMMA CarriesOneMore ==
  ASSUME NEW s \in Sockets, NEW last \in Nat, NEW first \in 1..(last + 1), Types,
         Carries(s, first, last), Types',
         log'[s] = Append(log[s], [type |-> "event", number |-> last + 1])
  PROVE  Carries(s, first, last + 1)'
  <1> DEFINE old == log[s]
             new == log'[s]
             replay == old[1].replay
  <1>1. /\ old \in Seq(Numbered \union Hellos) /\ old # <<>> /\ old[1].type = "hello"
        /\ Len(replay) + Len(old) - 1 = last + 1 - first
        /\ \A k \in 1..Len(replay) : replay[k] = first + k - 1
        /\ \A k \in 2..Len(old) :
             old[k].type = "event" /\ old[k].number = first + Len(replay) + k - 2
    BY DEF Types, Carries
  <1>2. [type |-> "event", number |-> last + 1] \in Numbered \union Hellos
    BY DEF Numbered
  <1>3. /\ new \in Seq(Numbered \union Hellos) /\ Len(new) = Len(old) + 1
        /\ \A k \in 1..Len(old) : new[k] = old[k]
        /\ new[Len(old) + 1] = [type |-> "event", number |-> last + 1]
    BY <1>1, <1>2, AppendProperties
  <1>4. Len(old) \in Nat /\ Len(old) >= 1
    BY <1>1, LenProperties, EmptySeq
  <1>5. replay \in Seq(Nat) /\ Len(replay) \in Nat
    <2>1. old[1] \in Numbered \union Hellos
      BY <1>1, <1>4, ElementOfSeq
    <2>2. old[1] \in Hellos
      BY <2>1, <1>1 DEF Numbered
    <2>3. QED
      BY <2>2, LenProperties DEF Hellos
  <1>6. new # <<>> /\ new[1] = old[1]
    BY <1>3, <1>4
  <1> HIDE DEF old, new, replay
  <1>7. Len(replay) + Len(new) - 1 = last + 1 + 1 - first
    BY <1>1, <1>3, <1>4, <1>5
  <1>8. ASSUME NEW k \in 2..Len(new)
        PROVE  new[k].type = "event" /\ new[k].number = first + Len(replay) + k - 2
    <2>1. CASE k = Len(old) + 1
      BY <2>1, <1>1, <1>3, <1>4, <1>5
    <2>2. CASE k # Len(old) + 1
      <3>1. k \in 2..Len(old) /\ k \in 1..Len(old)
        BY <2>2, <1>3, <1>4
      <3>2. QED
        BY <3>1, <1>1, <1>3
    <2>3. QED
      BY <2>1, <2>2
  <1>9. new[1].replay = replay /\ new[1].type = "hello"
    BY <1>1, <1>6 DEF replay
  <1>10. QED
    BY <1>1, <1>6, <1>7, <1>8, <1>9 DEF Carries, new

LEMMA SendToKeeps ==
  ASSUME FeedInv, NEW s \in Sockets, SendTo(s)
  PROVE  FeedInv'
  <1>1. /\ UNCHANGED <<position, group, consumers, bridge, pending, clients, recent, events,
                       kafka, handler, broken, since, tab>>
        /\ bridge = "sending" /\ s \in due /\ due' = due \ {s}
        /\ dead' \in {dead, dead \union {s}} /\ dead' \subseteq dead \union {s}
    BY DEF SendTo, bridgeVars
  <1>2. Len(events) \in Nat
    BY LenProperties DEF FeedInv, Types
  <1>3. log' \in [Sockets -> Seq(Numbered \union Hellos)]
        /\ \A other \in Sockets \ {s} : log'[other] = log[other]
    <2>1. [type |-> "event", number |-> Len(events)] \in Numbered \union Hellos
      BY <1>2 DEF Numbered
    <2>2. Append(log[s], [type |-> "event", number |-> Len(events)]) \in Seq(Numbered \union Hellos)
      BY <2>1, AppendProperties DEF FeedInv, Types
    <2>3. CASE log' = log
      BY <2>3 DEF FeedInv, Types
    <2>4. CASE log' = [log EXCEPT ![s] = IF s \in broken THEN @
                        ELSE Append(@, [type |-> "event", number |-> Len(events)])]
      BY <2>4, <2>2 DEF FeedInv, Types
    <2>5. QED
      BY <2>3, <2>4 DEF SendTo
  <1>4. Types'
    BY <1>1, <1>3 DEF FeedInv, Types
  <1>5. Views' /\ RecentIsLatest' /\ NothingDue' /\ OneTabEach'
    BY <1>1 DEF FeedInv, Views, RecentIsLatest, NothingDue, OneTabEach
  <1>6. NewIsUnknown'
    BY <1>1 DEF FeedInv, NewIsUnknown, Held
  <1>7. ReplayMeetsTail'
    <2> SUFFICES ASSUME NEW other \in clients', Reads(other)'
                 PROVE  Meets(other)'
      BY DEF ReplayMeetsTail, Meets, Reads
    <2>1. Reads(other) /\ Meets(other) /\ other \in Sockets
      BY <1>1 DEF FeedInv, Types, ReplayMeetsTail, Meets, Reads
    <2>2. CASE other # s
      BY <2>1, <2>2, <1>1, <1>3, MeetsFrame DEF LastSent
    <2>3. CASE other = s
      <3>1. LastSent(s) = Len(events) - 1 /\ LastSent(s)' = Len(events)
        BY <1>1 DEF LastSent
      <3>2. PICK first \in 1..(Len(events) - 1 + 1) : Carries(s, first, Len(events) - 1)
        BY <2>1, <2>3, <3>1 DEF Meets
      <3>3. Len(events) - 1 \in Nat /\ Len(events) - 1 + 1 = Len(events)
        BY <3>2, <1>2
      <3>4. log'[s] = Append(log[s], [type |-> "event", number |-> Len(events)])
        BY <2>1, <2>3 DEF SendTo, Reads, FeedInv, Types
      <3>5. PICK before \in Nat : before = Len(events) - 1
        BY <3>3
      <3>6. Carries(s, first, before + 1)'
        <4>1. Carries(s, first, before)
          BY <3>2, <3>5
        <4>2. log'[s] = Append(log[s], [type |-> "event", number |-> before + 1])
          BY <3>3, <3>4, <3>5
        <4>3. first \in 1..(before + 1) /\ Types
          BY <3>2, <3>5 DEF FeedInv
        <4>4. QED
          BY <4>1, <4>2, <4>3, <1>4, CarriesOneMore
      <3>7. LastSent(s)' = before + 1 /\ first \in 1..(before + 1 + 1)
        BY <3>1, <3>2, <3>3, <3>5
      <3>8. QED
        BY <3>6, <3>7, <2>3 DEF Meets
    <2>4. QED
      BY <2>2, <2>3
  <1>8. BrokenHelloIsSwept'
    BY <1>1 DEF FeedInv, BrokenHelloIsSwept, SendTo
  <1>9. QED
    BY <1>4, <1>5, <1>6, <1>7, <1>8 DEF FeedInv

(* What End does; the sockets it ends were reading, abandoned or new.       *)
LEMMA EndFacts ==
  ASSUME NEW sockets \in SUBSET Sockets, Types, End(sockets)
  PROVE  /\ handler' \in [Sockets -> {"none", "reading", "abandoned", "ended"}]
         /\ since' \in [Sockets -> Nat] /\ broken' \subseteq broken
         /\ \A s \in Sockets \ sockets :
              /\ handler'[s] = handler[s] /\ since'[s] = since[s]
              /\ s \in broken' <=> s \in broken
         /\ \A s \in sockets :
              /\ handler'[s] \in {"none", "ended"}
              /\ handler'[s] = "none" => ~Held(s) /\ s \notin broken'
  BY DEF End, Types

LEMMA EndBroadcastKeeps ==
  ASSUME FeedInv, EndBroadcast
  PROVE  FeedInv'
  <1> DEFINE over == {s \in dead : handler[s] = "abandoned"}
  <1>1. /\ UNCHANGED <<position, group, consumers, pending, recent, due, events, kafka, log,
                       tab>>
        /\ due = {} /\ clients' = clients \ dead /\ dead' = {} /\ bridge' = "running"
        /\ End(over) /\ over \in SUBSET Sockets
    BY DEF EndBroadcast, FeedInv, Types
  <1> HIDE DEF over
  <1>2. Types'
    BY <1>1, EndFacts DEF FeedInv, Types
  <1>3. Views' /\ RecentIsLatest' /\ NothingDue' /\ OneTabEach'
    BY <1>1 DEF FeedInv, Views, RecentIsLatest, NothingDue, OneTabEach
  <1>4. \A s \in clients' : s \in clients /\ s \in Sockets /\ s \notin over
    BY <1>1 DEF over, FeedInv, Types
  <1>5. NewIsUnknown'
    <2> SUFFICES ASSUME NEW s \in Sockets, handler'[s] = "none", Held(s)' \/ s \in broken'
                 PROVE  s \notin clients' \union due' \union dead'
      BY DEF NewIsUnknown
    <2>1. CASE s \in over
      BY <1>1, <1>4, <2>1
    <2>2. CASE s \notin over
      <3>1. handler[s] = "none" /\ (Held(s) \/ s \in broken)
        BY <1>1, <2>2, EndFacts DEF FeedInv, Held
      <3>2. QED
        BY <3>1, <1>1 DEF FeedInv, NewIsUnknown
    <2>3. QED
      BY <2>1, <2>2
  <1>6. ReplayMeetsTail'
    <2>1. \A s \in clients' : Reads(s)' => s \in clients /\ Reads(s) /\ LastSent(s)' = LastSent(s)
      BY <1>1, <1>4, EndFacts DEF FeedInv, Reads, LastSent
    <2>2. QED
      BY <2>1, <1>1, ReplayFrame DEF FeedInv
  <1>7. BrokenHelloIsSwept'
    <2>1. \A s \in clients' : handler'[s] = handler[s] /\ since'[s] = since[s]
      BY <1>1, <1>4, EndFacts DEF FeedInv
    <2>2. QED
      BY <2>1, <1>1, <1>4 DEF FeedInv, BrokenHelloIsSwept
  <1>8. QED
    BY <1>2, <1>3, <1>5, <1>6, <1>7 DEF FeedInv

-----------------------------------------------------------------------------
(* live and Hub.register.                                                   *)

(* What the hub remembers is a replay that ends with the last event.        *)
LEMMA RegisterKeeps ==
  ASSUME FeedInv, NEW s \in Sockets, Register(s)
  PROVE  FeedInv'
  <1> DEFINE hello == [type |-> "hello", kafka |-> kafka, replay |-> recent]
  <1>1. /\ UNCHANGED <<position, group, consumers, bridge, pending, recent, due, dead, events,
                       kafka, broken, since, tab>>
        /\ handler[s] = "none" /\ Held(s) /\ s \notin broken
        /\ clients' = clients \union {s}
        /\ handler' = [handler EXCEPT ![s] = "reading"]
        /\ log' = [log EXCEPT ![s] = <<hello>>]
    BY DEF Register, Asked, bridgeVars
  <1>2. hello \in Numbered \union Hellos
    BY DEF FeedInv, Types, RecentIsLatest, Hellos
  <1>3. <<hello>> \in Seq(Numbered \union Hellos) /\ Len(<<hello>>) = 1 /\ <<hello>>[1] = hello
    BY <1>2
  <1>4. hello.replay = recent /\ hello.type = "hello"
    OBVIOUS
  <1> HIDE DEF hello
  <1>5. Types'
    BY <1>1, <1>3 DEF FeedInv, Types
  <1>6. /\ handler'[s] = "reading" /\ \A other \in Sockets \ {s} : handler'[other] = handler[other]
        /\ log'[s] = <<hello>> /\ \A other \in Sockets \ {s} : log'[other] = log[other]
    BY <1>1 DEF FeedInv, Types
  <1>7. Views' /\ RecentIsLatest' /\ NothingDue' /\ OneTabEach'
    BY <1>1 DEF FeedInv, Views, RecentIsLatest, NothingDue, OneTabEach
  <1>8. NewIsUnknown'
    BY <1>1, <1>6 DEF FeedInv, NewIsUnknown, Held
  <1>9. ReplayMeetsTail'
    <2> SUFFICES ASSUME NEW other \in clients', Reads(other)'
                 PROVE  Meets(other)'
      BY DEF ReplayMeetsTail, Meets, Reads
    <2>1. CASE other # s
      <3>1. other \in Sockets /\ other \in clients /\ Reads(other)
        BY <2>1, <1>1, <1>6 DEF Reads, FeedInv, Types
      <3>2. Meets(other)
        BY <3>1 DEF FeedInv, ReplayMeetsTail, Reads, Meets
      <3>3. QED
        BY <3>1, <3>2, <2>1, <1>1, <1>6, MeetsFrame DEF LastSent
    <2>2. CASE other = s
      <3>1. PICK last \in Nat : last = Len(events)
        BY LenProperties DEF FeedInv, Types
      <3>2. LastSent(s)' = last
        BY <1>1, <3>1 DEF LastSent, FeedInv, NewIsUnknown
      <3>3. Len(recent) \in Nat /\ Len(recent) <= last
        BY <3>1, LenProperties DEF FeedInv, RecentIsLatest
      <3>4. PICK first \in 1..(last + 1) : first = last + 1 - Len(recent)
        BY <3>1, <3>3
      <3>5. \A k \in 1..Len(recent) : recent[k] = first + k - 1
        BY <3>1, <3>3, <3>4 DEF FeedInv, RecentIsLatest
      <3>6. Carries(s, first, last)'
        <4>1. log'[s] # <<>> /\ log'[s][1] = hello /\ Len(log'[s]) = 1
          BY <1>3, <1>6
        <4>2. Len(recent) + 1 - 1 = last + 1 - first
          BY <3>1, <3>3, <3>4
        <4>3. \A k \in 2..1 : FALSE
          OBVIOUS
        <4>4. QED
          BY <4>1, <4>2, <4>3, <3>5, <1>4 DEF Carries
      <3>7. QED
        BY <3>2, <3>6, <2>2 DEF Meets
    <2>3. QED
      BY <2>1, <2>2
  <1>10. BrokenHelloIsSwept'
    BY <1>1, <1>6 DEF FeedInv, BrokenHelloIsSwept, Types
  <1>11. QED
    BY <1>5, <1>7, <1>8, <1>9, <1>10 DEF FeedInv

LEMMA HelloFailsKeeps ==
  ASSUME FeedInv, NEW s \in Sockets, HelloFails(s)
  PROVE  FeedInv'
  <1>1. /\ UNCHANGED <<position, group, consumers, bridge, pending, recent, due, dead, events,
                       kafka, broken, log, tab>>
        /\ clients' = clients \union {s}
        /\ handler' = [handler EXCEPT ![s] = "abandoned"]
        /\ since' = [since EXCEPT ![s] = Len(events)]
    BY DEF HelloFails, bridgeVars
  <1>2. Types'
    BY <1>1, LenProperties DEF FeedInv, Types
  <1>3. /\ handler'[s] = "abandoned" /\ since'[s] = Len(events)
        /\ \A other \in Sockets \ {s} : handler'[other] = handler[other] /\ since'[other] = since[other]
    BY <1>1 DEF FeedInv, Types
  <1>4. Views' /\ RecentIsLatest' /\ NothingDue' /\ OneTabEach'
    BY <1>1 DEF FeedInv, Views, RecentIsLatest, NothingDue, OneTabEach
  <1>5. NewIsUnknown'
    BY <1>1, <1>3 DEF FeedInv, NewIsUnknown, Held
  <1>6. ReplayMeetsTail'
    <2>1. ASSUME NEW other \in clients', Reads(other)'
          PROVE  other \in clients /\ Reads(other) /\ LastSent(other)' = LastSent(other)
      <3>1. other # s /\ other \in Sockets
        BY <2>1, <1>1, <1>3 DEF Reads, FeedInv, Types
      <3>2. QED
        BY <2>1, <3>1, <1>1, <1>3 DEF Reads, LastSent
    <2>2. QED
      BY <2>1, <1>1, ReplayFrame DEF FeedInv
  <1>7. BrokenHelloIsSwept'
    BY <1>1, <1>3 DEF FeedInv, BrokenHelloIsSwept, Types
  <1>8. QED
    BY <1>2, <1>4, <1>5, <1>6, <1>7 DEF FeedInv

(* A socket that live() is done with has left the clients, or never joined. *)
LEMMA LiveEndsKeeps ==
  ASSUME FeedInv, NEW s \in Sockets, AcceptFails(s) \/ Disconnected(s)
  PROVE  FeedInv'
  <1>1. /\ UNCHANGED <<position, group, consumers, bridge, pending, recent, due, dead, events,
                       kafka, log, tab>>
        /\ clients' \subseteq clients /\ s \notin clients'
        /\ End({s}) /\ {s} \in SUBSET Sockets /\ s \in broken
    BY DEF AcceptFails, Disconnected, bridgeVars, hubVars, FeedInv, NewIsUnknown
  <1>2. Types'
    BY <1>1, EndFacts DEF FeedInv, Types
  <1>3. Views' /\ RecentIsLatest' /\ NothingDue' /\ OneTabEach'
    BY <1>1 DEF FeedInv, Views, RecentIsLatest, NothingDue, OneTabEach
  <1>4. /\ \A other \in Sockets \ {s} :
             /\ handler'[other] = handler[other] /\ since'[other] = since[other]
             /\ other \in broken' <=> other \in broken
        /\ handler'[s] = "none" => ~Held(s) /\ s \notin broken'
        /\ \A other \in clients' : other \in Sockets \ {s}
    BY <1>1, EndFacts DEF FeedInv, Types
  <1>5. NewIsUnknown'
    BY <1>1, <1>4 DEF FeedInv, NewIsUnknown, Held
  <1>6. ReplayMeetsTail'
    <2>1. \A other \in clients' :
            Reads(other)' => other \in clients /\ Reads(other) /\ LastSent(other)' = LastSent(other)
      BY <1>1, <1>4 DEF Reads, LastSent
    <2>2. QED
      BY <2>1, <1>1, ReplayFrame DEF FeedInv
  <1>7. BrokenHelloIsSwept'
    BY <1>1, <1>4 DEF FeedInv, BrokenHelloIsSwept
  <1>8. QED
    BY <1>2, <1>3, <1>5, <1>6, <1>7 DEF FeedInv

LEMMA RestartKeeps ==
  ASSUME FeedInv, Restart
  PROVE  FeedInv'
  <1>1. /\ UNCHANGED <<position, consumers, events, tab>>
        /\ bridge' = "down" /\ kafka' = FALSE /\ pending' = <<>>
        /\ clients' = {} /\ recent' = <<>> /\ due' = {} /\ dead' = {}
    BY DEF Restart
  <1>2. Types'
    <2>1. \A S : <<>> \in Seq(S)
      BY EmptySeq
    <2>2. group' \in [committed : BOOLEAN, offset : 0..Len(Feed)]
      BY CommittedFacts DEF Restart, FeedInv, Types
    <2>3. QED
      BY <2>1, <2>2, <1>1 DEF Restart, FeedInv, Types
  <1>3. Views' /\ NothingDue' /\ OneTabEach'
    BY <1>1 DEF FeedInv, Views, NothingDue, OneTabEach
  <1>4. RecentIsLatest'
    BY <1>1, EmptySeq, LenProperties DEF FeedInv, Types, RecentIsLatest
  <1>5. NewIsUnknown' /\ ReplayMeetsTail' /\ BrokenHelloIsSwept'
    BY <1>1 DEF NewIsUnknown, ReplayMeetsTail, BrokenHelloIsSwept
  <1>6. QED
    BY <1>2, <1>3, <1>4, <1>5 DEF FeedInv

-----------------------------------------------------------------------------
(* useLiveFeed.                                                             *)

(* A tab takes a socket that nobody knows.                                  *)
LEMMA ConnectKeeps ==
  ASSUME FeedInv, NEW t \in Tabs, Connect(t)
  PROVE  FeedInv'
  <1>1. PICK s \in Free : tab' = [tab EXCEPT ![t].socket = s, ![t].timer = FALSE]
    BY DEF Connect
  <1>2. UNCHANGED <<bridgeVars, hubVars, socketVars>>
    BY DEF Connect
  <1>3. /\ DOMAIN tab' = Tabs /\ \A u \in Tabs \ {t} : tab'[u] = tab[u]
        /\ Whole(tab'[t]) /\ tab'[t].socket = s
    <2>1. /\ DOMAIN tab' = Tabs /\ \A u \in Tabs \ {t} : tab'[u] = tab[u]
          /\ tab'[t] = [tab[t] EXCEPT !.socket = s, !.timer = FALSE]
      BY <1>1 DEF FeedInv, Views
    <2>2. Whole(tab[t])
      BY DEF FeedInv, Views
    <2>3. QED
      BY <2>1, <2>2 DEF Whole
  <1>4. s \in Sockets /\ ~Held(s) /\ s \notin clients \union due \union dead
    BY <1>1 DEF Free
  <1>5. Types' /\ RecentIsLatest' /\ NothingDue'
    BY <1>2 DEF FeedInv, Types, RecentIsLatest, NothingDue, bridgeVars, hubVars, socketVars
  <1>6. Views' /\ OneTabEach'
    BY <1>3, <1>4 DEF FeedInv, Views, OneTabEach, Held
  <1>7. NewIsUnknown'
    <2>1. \A other \in Sockets \ {s} : Held(other)' => Held(other)
      BY <1>3 DEF Held
    <2>2. QED
      BY <2>1, <1>2, <1>4 DEF FeedInv, NewIsUnknown, hubVars, socketVars
  <1>8. ReplayMeetsTail' /\ BrokenHelloIsSwept'
    BY <1>2, ReplayFrame
       DEF FeedInv, Reads, LastSent, BrokenHelloIsSwept, bridgeVars, hubVars, socketVars
  <1>9. QED
    BY <1>5, <1>6, <1>7, <1>8 DEF FeedInv

(* The tab goes on with its socket.                                         *)
LEMMA ShowKeeps ==
  ASSUME FeedInv, NEW t \in Tabs, Opened(t) \/ Receive(t)
  PROVE  FeedInv'
  <1>1. UNCHANGED <<bridgeVars, hubVars, handler, broken, log, since>>
    BY DEF Opened, Receive, socketVars
  <1>2. /\ DOMAIN tab' = Tabs
        /\ \A u \in Tabs : Whole(tab'[u]) /\ tab'[u].socket = tab[u].socket
    <2>1. CASE Opened(t)
      <3>1. /\ DOMAIN tab' = Tabs /\ \A u \in Tabs \ {t} : tab'[u] = tab[u]
            /\ tab'[t] = [tab[t] EXCEPT !.connected = TRUE]
        BY <2>1 DEF Opened, FeedInv, Views
      <3>2. \A u \in Tabs : Whole(tab[u])
        BY DEF FeedInv, Views
      <3>3. Whole(tab'[t]) /\ tab'[t].socket = tab[t].socket
        BY <3>1, <3>2 DEF Whole
      <3>4. QED
        BY <3>1, <3>2, <3>3
    <2>2. CASE Receive(t)
      <3>1. PICK message : tab' = [tab EXCEPT ![t] = Received(tab[t], message)]
        BY <2>2 DEF Receive
      <3>2. Whole(Received(tab[t], message)) /\ Received(tab[t], message).socket = tab[t].socket
        BY ReceivedFacts DEF FeedInv, Views
      <3>3. QED
        BY <3>1, <3>2 DEF FeedInv, Views
    <2>3. QED
      BY <2>1, <2>2
  <1>3. Types' /\ RecentIsLatest' /\ NothingDue'
    BY <1>1 DEF FeedInv, Types, RecentIsLatest, NothingDue, bridgeVars, hubVars
  <1>4. Views' /\ OneTabEach' /\ NewIsUnknown'
    BY <1>1, <1>2 DEF FeedInv, Views, OneTabEach, NewIsUnknown, Held, hubVars
  <1>5. ReplayMeetsTail' /\ BrokenHelloIsSwept'
    BY <1>1, ReplayFrame
       DEF FeedInv, Reads, LastSent, BrokenHelloIsSwept, bridgeVars, hubVars
  <1>6. QED
    BY <1>3, <1>4, <1>5 DEF FeedInv

(* What breaks is the socket of a tab; what was sent on it is lost.         *)
LEMMA BreakKeeps ==
  ASSUME FeedInv, NEW t \in Tabs, SocketBreaks(t) \/ Unmount(t)
  PROVE  FeedInv'
  <1> DEFINE lost == {tab[t].socket} \ {None}
  <1>1. UNCHANGED <<bridgeVars, hubVars, handler, since>> /\ Break(lost)
    BY DEF SocketBreaks, Unmount
  <1>2. /\ DOMAIN tab' = Tabs
        /\ \A u \in Tabs : Whole(tab'[u]) /\ tab'[u].socket = tab[u].socket
    <2>1. DOMAIN tab = Tabs /\ \A u \in Tabs : Whole(tab[u])
      BY DEF FeedInv, Views
    <2>2. CASE SocketBreaks(t)
      BY <2>1, <2>2 DEF SocketBreaks
    <2>3. CASE Unmount(t)
      <3>1. /\ DOMAIN tab' = Tabs /\ \A u \in Tabs \ {t} : tab'[u] = tab[u]
            /\ tab'[t] = [tab[t] EXCEPT !.mounted = FALSE, !.timer = FALSE]
        BY <2>1, <2>3 DEF Unmount
      <3>2. Whole(tab'[t]) /\ tab'[t].socket = tab[t].socket
        BY <2>1, <3>1 DEF Whole
      <3>3. QED
        BY <2>1, <3>1, <3>2
    <2>4. QED
      BY <2>2, <2>3
  <1>3. \A s \in lost : Held(s) /\ s \in Sockets
    BY DEF Held, FeedInv, Views
  <1> HIDE DEF lost
  <1>4. /\ broken' = broken \union lost
        /\ log' = [s \in Sockets |-> IF s \in lost THEN <<>> ELSE log[s]]
    BY <1>1 DEF Break
  <1>5. Types'
    <2>1. \A S : <<>> \in Seq(S)
      BY EmptySeq
    <2>2. log' \in [Sockets -> Seq(Numbered \union Hellos)] /\ broken' \subseteq Sockets
      BY <2>1, <1>3, <1>4 DEF FeedInv, Types
    <2>3. QED
      BY <2>2, <1>1 DEF FeedInv, Types, bridgeVars, hubVars
  <1>6. RecentIsLatest' /\ NothingDue'
    BY <1>1 DEF FeedInv, RecentIsLatest, NothingDue, bridgeVars, hubVars
  <1>7. Views' /\ OneTabEach'
    BY <1>2 DEF FeedInv, Views, OneTabEach
  <1>8. NewIsUnknown'
    BY <1>1, <1>2, <1>3, <1>4 DEF FeedInv, NewIsUnknown, Held, hubVars
  <1>9. ReplayMeetsTail'
    <2> SUFFICES ASSUME NEW s \in clients', Reads(s)'
                 PROVE  Meets(s)'
      BY DEF ReplayMeetsTail, Meets, Reads
    <2>1. s \in clients /\ s \in Sockets /\ Reads(s) /\ s \notin lost
      BY <1>1, <1>4 DEF Reads, FeedInv, Types, hubVars
    <2>2. Meets(s) /\ log'[s] = log[s]
      BY <2>1, <1>4 DEF FeedInv, ReplayMeetsTail, Reads, Meets
    <2>3. QED
      BY <2>2, <1>1, MeetsFrame DEF LastSent, hubVars
  <1>10. BrokenHelloIsSwept'
    BY <1>1 DEF FeedInv, BrokenHelloIsSwept, bridgeVars, hubVars
  <1>11. QED
    BY <1>5, <1>6, <1>7, <1>8, <1>9, <1>10 DEF FeedInv

(* The socket was this tab's alone.                                         *)
LEMMA ClosedKeeps ==
  ASSUME FeedInv, NEW t \in Tabs, Closed(t)
  PROVE  FeedInv'
  <1> DEFINE s == tab[t].socket
             over == {r \in {s} : handler[r] = "ended"}
  <1>1. /\ UNCHANGED <<bridgeVars, hubVars, log, since>>
        /\ s \in broken /\ s # None
        /\ tab' = [tab EXCEPT ![t].connected = FALSE, ![t].socket = None,
                              ![t].timer = tab[t].mounted]
    BY DEF Closed
  <1>2. /\ over \subseteq {s}
        /\ handler' = [r \in Sockets |-> IF r \in over THEN "none" ELSE handler[r]]
        /\ broken' = broken \ over
        /\ \A r \in over : handler[r] = "ended"
    BY DEF Closed
  <1> HIDE DEF over
  <1>3. /\ DOMAIN tab' = Tabs /\ \A u \in Tabs \ {t} : tab'[u] = tab[u]
        /\ Whole(tab'[t]) /\ tab'[t].socket = None
    <2>1. /\ DOMAIN tab' = Tabs /\ \A u \in Tabs \ {t} : tab'[u] = tab[u]
          /\ tab'[t] = [tab[t] EXCEPT !.connected = FALSE, !.socket = None,
                                      !.timer = tab[t].mounted]
      BY <1>1 DEF FeedInv, Views
    <2>2. Whole(tab[t])
      BY DEF FeedInv, Views
    <2>3. QED
      BY <2>1, <2>2 DEF Whole
  <1>4. Types'
    BY <1>1, <1>2 DEF FeedInv, Types, bridgeVars, hubVars
  <1>5. RecentIsLatest' /\ NothingDue'
    BY <1>1 DEF FeedInv, RecentIsLatest, NothingDue, bridgeVars, hubVars
  <1>6. Views' /\ OneTabEach'
    BY <1>3 DEF FeedInv, Views, OneTabEach
  <1>7. NewIsUnknown'
    <2> SUFFICES ASSUME NEW r \in Sockets, handler'[r] = "none", Held(r)' \/ r \in broken'
                 PROVE  r \notin clients \union due \union dead
      BY <1>1 DEF NewIsUnknown, hubVars
    <2>1. \A u \in Tabs : tab'[u].socket = r => u # t /\ tab[u].socket = r
      BY <1>3 DEF None, Sockets
    <2>2. Held(r)' => Held(r) /\ r # s
      <3>1. ASSUME NEW u \in Tabs, tab'[u].socket = r
            PROVE  Held(r) /\ r # s
        BY <2>1, <3>1, <1>1 DEF Held, FeedInv, OneTabEach
      <3>2. QED
        BY <3>1 DEF Held
    <2>3. r \notin over
      BY <2>2, <1>2
    <2>4. handler[r] = "none" /\ (Held(r) \/ r \in broken)
      BY <2>2, <2>3, <1>2
    <2>5. QED
      BY <2>4 DEF FeedInv, NewIsUnknown
  <1>8. ReplayMeetsTail' /\ BrokenHelloIsSwept'
    <2>1. \A r \in clients : r \in Sockets /\ handler'[r] \in {handler[r], "none"}
                             /\ (handler'[r] = handler[r] => (r \in broken' <=> r \in broken))
      BY <1>2 DEF FeedInv, Types
    <2>2. \A r \in clients' : Reads(r)' => r \in clients /\ Reads(r) /\ LastSent(r)' = LastSent(r)
      BY <2>1, <1>1 DEF Reads, LastSent, hubVars
    <2>3. BrokenHelloIsSwept'
      BY <2>1, <1>1 DEF FeedInv, BrokenHelloIsSwept, bridgeVars, hubVars
    <2>4. QED
      BY <2>2, <2>3, <1>1, ReplayFrame DEF FeedInv
  <1>9. QED
    BY <1>4, <1>5, <1>6, <1>7, <1>8 DEF FeedInv

-----------------------------------------------------------------------------
(* Every step of the feed keeps the invariant, and so does every step that  *)
(* leaves the feed alone, whatever it takes of what is left.                *)

LEMMA FeedFrame ==
  ASSUME FeedInv, UNCHANGED <<bridgeVars, hubVars, socketVars, tab>>
  PROVE  FeedInv'
  <1>1. Types' /\ RecentIsLatest' /\ NothingDue'
    BY DEF FeedInv, Types, RecentIsLatest, NothingDue, bridgeVars, hubVars, socketVars
  <1>2. Views' /\ OneTabEach' /\ NewIsUnknown'
    BY DEF FeedInv, Views, OneTabEach, NewIsUnknown, Held, hubVars, socketVars
  <1>3. ReplayMeetsTail' /\ BrokenHelloIsSwept'
    BY ReplayFrame
       DEF FeedInv, Reads, LastSent, BrokenHelloIsSwept, bridgeVars, hubVars, socketVars
  <1>4. QED
    BY <1>1, <1>2, <1>3 DEF FeedInv

LEMMA NextFeedInv == FeedInv /\ [FeedNext]_feedVars => FeedInv'
  <1> SUFFICES ASSUME FeedInv, [FeedNext]_feedVars PROVE FeedInv'
    OBVIOUS
  <1>1. CASE StartConsumer \/ ConsumerFails \/ Take
    BY <1>1, ConsumerKeeps
  <1>2. CASE Broadcast \/ EndBroadcast \/ Restart
    BY <1>2, BroadcastKeeps, EndBroadcastKeeps, RestartKeeps
  <1>3. CASE \E s \in Sockets : SendTo(s)
    BY <1>3, SendToKeeps
  <1>4. CASE \E s \in Sockets : Serve(s)
    BY <1>4, RegisterKeeps, HelloFailsKeeps, LiveEndsKeeps DEF Serve
  <1>5. CASE \E t \in Tabs : Hook(t) \/ SocketBreaks(t) \/ Unmount(t)
    BY <1>5, ConnectKeeps, ShowKeeps, ClosedKeeps, BreakKeeps DEF Hook
  <1>6. CASE UNCHANGED feedVars
    BY <1>6, FeedFrame DEF feedVars
  <1>7. QED
    BY <1>1, <1>2, <1>3, <1>4, <1>5, <1>6 DEF FeedNext, Hub

-----------------------------------------------------------------------------
(* Induction over the natural numbers, for a set of them.                   *)

LEMMA LeastOf ==
  ASSUME NEW T \in SUBSET Nat, T # {}
  PROVE  \E m \in T : \A n \in T : m <= n
  <1> DEFINE C == {0..n : n \in T}
  <1>1. C \subseteq FiniteSubsetsOf(Nat)
    <2> SUFFICES ASSUME NEW n \in T PROVE 0..n \in FiniteSubsetsOf(Nat)
      OBVIOUS
    <2>1. n \in Int /\ 0 \in Int /\ 0..n \in SUBSET Nat
      OBVIOUS
    <2>2. QED
      BY <2>1, FS_Interval DEF FiniteSubsetsOf
  <1>2. C # {}
    OBVIOUS
  <1>3. PICK x \in C : \A y \in C : ~(<<y, x>> \in StrictSubsetOrdering(Nat))
    <2> HIDE DEF C
    <2>1. QED
      BY <1>1, <1>2, FS_StrictSubsetOrderingWellFounded, WFMin
  <1>4. PICK m \in T : x = 0..m
    BY <1>3
  <1>5. ASSUME NEW n \in T PROVE m <= n
    <2>1. 0..n \in C
      OBVIOUS
    <2>2. ~(<<0..n, 0..m>> \in StrictSubsetOrdering(Nat))
      BY <1>3, <1>4, <2>1
    <2>3. CASE n < m
      <3>1. 0..n \in SUBSET Nat /\ 0..m \in SUBSET Nat /\ 0..n \subseteq 0..m
        BY <2>3
      <3>2. m \in 0..m /\ m \notin 0..n
        BY <2>3
      <3>3. QED
        BY <3>1, <3>2, <2>2 DEF StrictSubsetOrdering
    <2>4. QED
      BY <2>3
  <1>6. QED
    BY <1>4, <1>5

LEMMA Induction ==
  ASSUME NEW T \in SUBSET Nat, 0 \in T, \A n \in T : n + 1 \in T
  PROVE  T = Nat
  <1> SUFFICES ASSUME Nat \ T # {} PROVE FALSE
    OBVIOUS
  <1>1. PICK m \in Nat \ T : \A n \in Nat \ T : m <= n
    BY LeastOf
  <1>2. m - 1 \in Nat /\ m - 1 \in T
    BY <1>1
  <1>3. QED
    BY <1>1, <1>2

-----------------------------------------------------------------------------
(* How often a number is in a list.                                         *)

(* How often an entry is in a list.                                         *)
Occurs(m, entries) == Cardinality({k \in DOMAIN entries : entries[k] = m})

LEMMA OccursFacts ==
  ASSUME NEW S, NEW entries \in Seq(S), NEW m
  PROVE  /\ IsFiniteSet({k \in 1..Len(entries) : entries[k] = m})
         /\ Occurs(m, entries) = Cardinality({k \in 1..Len(entries) : entries[k] = m})
         /\ Occurs(m, entries) \in Nat
  <1>1. Len(entries) \in Nat /\ DOMAIN entries = 1..Len(entries)
    BY LenProperties
  <1> DEFINE P == {k \in 1..Len(entries) : entries[k] = m}
  <1>2. IsFiniteSet(1..Len(entries)) /\ P \in SUBSET (1..Len(entries))
    BY <1>1, FS_Interval
  <1>3. IsFiniteSet(P) /\ Cardinality(P) \in Nat
    BY <1>2, FS_Subset, FS_CardinalityType
  <1>4. QED
    BY <1>1, <1>3 DEF Occurs

LEMMA OccursEmpty == ASSUME NEW m PROVE Occurs(m, <<>>) = 0
  <1>1. {k \in DOMAIN <<>> : <<>>[k] = m} = {}
    OBVIOUS
  <1>2. QED
    BY <1>1, FS_EmptySet DEF Occurs

LEMMA OccursAppend ==
  ASSUME NEW S, NEW entries \in Seq(S), NEW n \in S, NEW m
  PROVE  /\ Append(entries, n) \in Seq(S)
         /\ Occurs(m, Append(entries, n)) = Occurs(m, entries) + IF m = n THEN 1 ELSE 0
  <1> DEFINE more == Append(entries, n)
             P == {k \in 1..Len(entries) : entries[k] = m}
             Q == {k \in 1..Len(more) : more[k] = m}
  <1>1. /\ more \in Seq(S) /\ Len(more) = Len(entries) + 1 /\ Len(entries) \in Nat
        /\ \A k \in 1..Len(entries) : more[k] = entries[k]
        /\ more[Len(entries) + 1] = n
    BY AppendProperties, LenProperties
  <1> HIDE DEF more
  <1>2. /\ Occurs(m, entries) = Cardinality(P) /\ Occurs(m, more) = Cardinality(Q)
        /\ IsFiniteSet(P) /\ Occurs(m, entries) \in Nat
    <2>1. IsFiniteSet(P) /\ Occurs(m, entries) = Cardinality(P) /\ Occurs(m, entries) \in Nat
      BY OccursFacts
    <2>2. Occurs(m, more) = Cardinality(Q)
      BY <1>1, OccursFacts
    <2>3. QED
      BY <2>1, <2>2
  <1>3. CASE m = n
    <2>1. Q = P \union {Len(entries) + 1} /\ Len(entries) + 1 \notin P
      BY <1>1, <1>3
    <2>2. Cardinality(Q) = Cardinality(P) + 1
      BY <1>2, <2>1, FS_AddElement
    <2>3. QED
      BY <1>1, <1>2, <1>3, <2>2 DEF more
  <1>4. CASE m # n
    <2>1. Q = P
      BY <1>1, <1>4
    <2> HIDE DEF P, Q
    <2>2. Occurs(m, more) = Occurs(m, entries) + 0
      BY <1>2, <2>1
    <2>3. QED
      BY <1>1, <1>4, <2>2 DEF more
  <1>5. QED
    BY <1>3, <1>4

LEMMA OccursLastOf ==
  ASSUME NEW S, NEW entries \in Seq(S), NEW n \in Nat, NEW m
  PROVE  Occurs(m, LastOf(n, entries)) <= Occurs(m, entries)
  <1> DEFINE latest == LastOf(n, entries)
             P == {k \in 1..Len(latest) : latest[k] = m}
             Q == {k \in 1..Len(entries) : entries[k] = m}
             off == Len(entries) - Len(latest)
             f == [k \in P |-> off + k]
  <1>1. /\ latest \in Seq(S) /\ Len(latest) = (IF Len(entries) > n THEN n ELSE Len(entries))
        /\ \A k \in 1..Len(latest) : latest[k] = entries[Len(entries) - Len(latest) + k]
    BY LastOfFacts
  <1>2. Len(entries) \in Nat /\ Len(latest) \in Nat /\ Len(latest) <= Len(entries)
    BY <1>1, LenProperties
  <1> HIDE DEF latest
  <1>3. /\ Occurs(m, latest) = Cardinality(P) /\ Occurs(m, entries) = Cardinality(Q)
        /\ IsFiniteSet(Q)
    BY <1>1, OccursFacts
  <1>4. off \in Nat /\ \A k \in P : off + k \in Q
    <2>1. off \in Nat /\ \A k \in 1..Len(latest) : off + k \in 1..Len(entries)
      BY <1>2
    <2>2. QED
      BY <2>1, <1>1
  <1>5. f \in [P -> Q] /\ \A j, k \in P : f[j] = f[k] => j = k
    <2>1. \A k \in P : k \in Nat
      OBVIOUS
    <2> HIDE DEF P, Q, off
    <2>2. QED
      BY <1>4, <2>1
  <1>6. f \in Injection(P, Q)
    <2> HIDE DEF P, Q, f
    <2>1. QED
      BY <1>5 DEF Injection, IsInjective
  <1>7. Cardinality(P) <= Cardinality(Q)
    <2> HIDE DEF P, Q, f
    <2>1. QED
      BY <1>3, <1>6, FS_Injection
  <1>8. QED
    BY <1>3, <1>7 DEF latest

-----------------------------------------------------------------------------
(* What a message adds to a page.                                           *)

(* A page shows numbers of S, in lists that do not outgrow their bound.     *)
Page(view, S) ==
  /\ view.segments \in Seq(S) /\ view.signals \in Seq(S)
  /\ Len(view.segments) <= MaxShown /\ Len(view.signals) <= MaxShown

Showings(m, view) == Occurs(m, view.segments) + Occurs(m, view.signals)

(* The lists of "after" show m no more often than those of "before", and    *)
(* "more" times.                                                            *)
Gains(m, before, after, more) == Showings(m, after) <= Showings(m, before) + more

LEMMA LastOfAppend ==
  ASSUME NEW S \in SUBSET Nat, NEW entries \in Seq(S), NEW n \in S, NEW m
  PROVE  /\ LastOf(MaxShown, Append(entries, n)) \in Seq(S)
         /\ Len(LastOf(MaxShown, Append(entries, n))) <= MaxShown
         /\ Occurs(m, LastOf(MaxShown, Append(entries, n))) \in Nat
         /\ Occurs(m, LastOf(MaxShown, Append(entries, n)))
              <= Occurs(m, entries) + IF m = n THEN 1 ELSE 0
  <1>1. MaxShown \in Nat
    BY FeedAssumption
  <1> DEFINE more == Append(entries, n)
  <1>2. more \in Seq(S) /\ Occurs(m, more) = Occurs(m, entries) + IF m = n THEN 1 ELSE 0
    BY OccursAppend
  <1> HIDE DEF more
  <1>3. /\ LastOf(MaxShown, more) \in Seq(S)
        /\ Len(LastOf(MaxShown, more)) = IF Len(more) > MaxShown THEN MaxShown ELSE Len(more)
    BY <1>1, <1>2, LastOfFacts
  <1>4. Len(LastOf(MaxShown, more)) <= MaxShown
    BY <1>1, <1>2, <1>3, LenProperties
  <1>5. Occurs(m, LastOf(MaxShown, more)) <= Occurs(m, more)
    BY <1>1, <1>2, OccursLastOf
  <1>6. Occurs(m, LastOf(MaxShown, more)) \in Nat
    BY <1>3, OccursFacts
  <1>7. QED
    BY <1>2, <1>3, <1>4, <1>5, <1>6 DEF more

LEMMA ApplyFacts ==
  ASSUME NEW S \in SUBSET Nat, NEW view, Whole(view), Page(view, S), NEW n \in S
  PROVE  /\ Whole(Apply(view, n)) /\ Page(Apply(view, n), S)
         /\ Apply(view, n).hellos = view.hellos
         /\ \A m : Gains(m, view, Apply(view, n), IF m = n THEN 1 ELSE 0)
  <1>1. ASSUME NEW m
        PROVE  Occurs(m, view.segments) \in Nat /\ Occurs(m, view.signals) \in Nat
    BY OccursFacts DEF Page
  <1>2. CASE events[n].kind = "segment"
    <2> DEFINE entries == LastOf(MaxShown, Append(view.segments, n))
    <2>1. entries \in Seq(S) /\ Len(entries) <= MaxShown
      BY LastOfAppend DEF Page
    <2>2. ASSUME NEW m
          PROVE  /\ Occurs(m, entries) \in Nat
                 /\ Occurs(m, entries) <= Occurs(m, view.segments) + IF m = n THEN 1 ELSE 0
      BY LastOfAppend DEF Page
    <2> HIDE DEF entries
    <2>3. Apply(view, n) = [view EXCEPT !.segments = entries]
      BY <1>2 DEF Apply, entries
    <2>4. /\ Apply(view, n).segments = entries /\ Apply(view, n).signals = view.signals
          /\ Whole(Apply(view, n)) /\ Apply(view, n).hellos = view.hellos
      BY <2>3 DEF Whole
    <2>5. \A m : Gains(m, view, Apply(view, n), IF m = n THEN 1 ELSE 0)
      BY <2>2, <2>4, <1>1 DEF Gains, Showings
    <2>6. QED
      BY <2>1, <2>4, <2>5 DEF Page
  <1>3. CASE events[n].kind = "signal"
    <2> DEFINE entries == LastOf(MaxShown, Append(view.signals, n))
    <2>1. entries \in Seq(S) /\ Len(entries) <= MaxShown
      BY LastOfAppend DEF Page
    <2>2. ASSUME NEW m
          PROVE  /\ Occurs(m, entries) \in Nat
                 /\ Occurs(m, entries) <= Occurs(m, view.signals) + IF m = n THEN 1 ELSE 0
      BY LastOfAppend DEF Page
    <2> HIDE DEF entries
    <2>3. Apply(view, n) = [view EXCEPT !.signals = entries]
      BY <1>3 DEF Apply, entries
    <2>4. /\ Apply(view, n).signals = entries /\ Apply(view, n).segments = view.segments
          /\ Whole(Apply(view, n)) /\ Apply(view, n).hellos = view.hellos
      BY <2>3 DEF Whole
    <2>5. \A m : Gains(m, view, Apply(view, n), IF m = n THEN 1 ELSE 0)
      BY <2>2, <2>4, <1>1 DEF Gains, Showings
    <2>6. QED
      BY <2>1, <2>4, <2>5 DEF Page
  <1>4. CASE events[n].kind # "segment" /\ events[n].kind # "signal"
    <2>1. Apply(view, n) = view
      BY <1>4 DEF Apply
    <2>2. \A m : Gains(m, view, view, IF m = n THEN 1 ELSE 0)
      BY <1>1 DEF Gains, Showings
    <2>3. QED
      BY <2>1, <2>2
  <1>5. QED
    BY <1>2, <1>3, <1>4

(* The views that a replay goes through.                                    *)
Steps(after, n, view, replay) ==
  after = [k \in 0..n |-> IF k = 0 THEN view ELSE Apply(after[k - 1], replay[k])]

LEMMA StepsExist ==
  ASSUME NEW n \in Nat, NEW view, NEW replay
  PROVE  \E after : Steps(after, n, view, replay)
  <1> DEFINE T == {m \in Nat : \E after : Steps(after, m, view, replay)}
  <1>1. 0 \in T
    <2>1. Steps([k \in 0..0 |-> view], 0, view, replay)
      BY DEF Steps
    <2>2. QED
      BY <2>1
  <1>2. ASSUME NEW m \in T PROVE m + 1 \in T
    <2>1. PICK after : Steps(after, m, view, replay)
      BY <1>2
    <2> DEFINE more == [k \in 0..(m + 1) |-> IF k = m + 1 THEN Apply(after[m], replay[m + 1])
                                             ELSE after[k]]
    <2>2. Steps(more, m + 1, view, replay)
      BY <2>1 DEF Steps
    <2>3. QED
      BY <2>2
  <1>3. T = Nat
    <2> HIDE DEF T
    <2>1. T \in SUBSET Nat
      BY DEF T
    <2>2. QED
      BY <1>1, <1>2, <2>1, Induction
  <1>4. QED
    BY <1>3

LEMMA ReplayedFacts ==
  ASSUME NEW view, NEW replay, Len(replay) \in Nat
  PROVE  \E after : /\ Steps(after, Len(replay), view, replay)
                    /\ Replayed(view, replay) = after[Len(replay)]
  <1>1. \E after : Steps(after, Len(replay), view, replay)
    BY StepsExist
  <1>2. QED
    BY <1>1 DEF Replayed, Steps

(* A replay of consecutive numbers shows each of them once more, and no     *)
(* other.                                                                   *)
LEMMA ReplayGains ==
  ASSUME NEW S \in SUBSET Nat, NEW view, Whole(view), Page(view, S),
         NEW replay, Len(replay) \in Nat, NEW first \in Nat,
         \A k \in 1..Len(replay) : replay[k] \in S /\ replay[k] = first + k - 1
  PROVE  /\ Page(Replayed(view, replay), S)
         /\ \A m \in Nat : Gains(m, view, Replayed(view, replay),
                                 IF m < first + Len(replay) THEN 1 ELSE 0)
  <1>1. PICK after : /\ Steps(after, Len(replay), view, replay)
                     /\ Replayed(view, replay) = after[Len(replay)]
    BY ReplayedFacts
  <1> DEFINE Good(k) ==
               /\ Whole(after[k]) /\ Page(after[k], S)
               /\ \A m \in Nat : Gains(m, view, after[k],
                                       IF first <= m /\ m < first + k THEN 1 ELSE 0)
             T == {k \in Nat : k <= Len(replay) => Good(k)}
  <1>2. ASSUME NEW m, NEW v, Page(v, S) PROVE Showings(m, v) \in Nat
    <2>1. Occurs(m, v.segments) \in Nat /\ Occurs(m, v.signals) \in Nat
      BY <1>2, OccursFacts DEF Page
    <2>2. QED
      BY <2>1 DEF Showings
  <1>3. 0 \in T
    <2>1. after[0] = view
      BY <1>1 DEF Steps
    <2>2. \A m \in Nat : Gains(m, view, view, IF first <= m /\ m < first + 0 THEN 1 ELSE 0)
      BY <1>2 DEF Gains
    <2>3. QED
      BY <2>1, <2>2
  <1>4. ASSUME NEW k \in T PROVE k + 1 \in T
    <2> SUFFICES ASSUME k + 1 <= Len(replay) PROVE Good(k + 1)
      OBVIOUS
    <2>1. k \in Nat /\ k <= Len(replay) /\ k + 1 \in 1..Len(replay)
      OBVIOUS
    <2>2. Good(k)
      BY <2>1
    <2>3. after[k + 1] = Apply(after[k], replay[k + 1])
      BY <1>1, <2>1 DEF Steps
    <2>4. replay[k + 1] \in S /\ replay[k + 1] = first + k
      BY <2>1
    <2> DEFINE n == replay[k + 1]
               old == after[k]
               new == after[k + 1]
    <2>5. Whole(old) /\ Page(old, S)
      BY <2>2
    <2>6. \A m \in Nat : Gains(m, view, old, IF first <= m /\ m < first + k THEN 1 ELSE 0)
      BY <2>2
    <2> HIDE DEF T, Good, n, old, new
    <2>7. /\ Whole(new) /\ Page(new, S)
          /\ \A m : Gains(m, old, new, IF m = n THEN 1 ELSE 0)
      <3>1. new = Apply(old, n) /\ n \in S
        BY <2>3, <2>4 DEF n, old, new
      <3>2. QED
        BY <3>1, <2>5, ApplyFacts
    <2>8. ASSUME NEW m \in Nat
          PROVE  Gains(m, view, new, IF first <= m /\ m < first + (k + 1) THEN 1 ELSE 0)
      <3>1. /\ Showings(m, view) \in Nat /\ Showings(m, old) \in Nat /\ Showings(m, new) \in Nat
        BY <1>2, <2>5, <2>7
      <3>2. /\ Showings(m, old) <= Showings(m, view)
                 + (IF first <= m /\ m < first + k THEN 1 ELSE 0)
            /\ Showings(m, new) <= Showings(m, old) + (IF m = n THEN 1 ELSE 0)
        BY <2>6, <2>7 DEF Gains
      <3>3. n = first + k
        BY <2>4 DEF n
      <3>4. QED
        BY <3>1, <3>2, <3>3, <2>1 DEF Gains
    <2>9. QED
      BY <2>7, <2>8 DEF Good, new
  <1>5. T = Nat
    <2> HIDE DEF T
    <2>1. T \in SUBSET Nat
      BY DEF T
    <2>2. QED
      BY <1>3, <1>4, <2>1, Induction
  <1>6. Good(Len(replay))
    BY <1>5
  <1>7. ASSUME NEW m \in Nat
        PROVE  Gains(m, view, after[Len(replay)], IF m < first + Len(replay) THEN 1 ELSE 0)
    <2>1. /\ Page(after[Len(replay)], S)
          /\ Gains(m, view, after[Len(replay)],
                   IF first <= m /\ m < first + Len(replay) THEN 1 ELSE 0)
      BY <1>6
    <2>2. Showings(m, view) \in Nat /\ Showings(m, after[Len(replay)]) \in Nat
      BY <2>1, <1>2
    <2>3. QED
      BY <2>1, <2>2 DEF Gains
  <1>8. QED
    BY <1>1, <1>6, <1>7

-----------------------------------------------------------------------------
(* The second invariant: what a tab has shown, and what may still come.     *)

(* A socket that works is a client, and no broadcast has given it up.       *)
WorkingIsServed == \A s \in Sockets : Reads(s) => s \in clients /\ s \notin dead

(* Nothing is on its way on any other.                                      *)
Underway ==
  /\ heard \in [Sockets -> Nat]
  /\ \A s \in Sockets : heard[s] <= Len(log[s]) /\ (~Reads(s) => log[s] = <<>>)

Pages == \A t \in Tabs : Page(tab[t], 1..Len(events)) /\ tab[t].hellos \in Nat

(* The tab has had the hello of this socket, and m is after what it heard.  *)
StillToCome(m, s) == heard[s] > 0 /\ m + Len(log[s]) > LastSent(s) + heard[s]

OncePerHello ==
  \A t \in Tabs : \A m \in Nat :
    /\ Showings(m, tab[t]) <= tab[t].hellos
    /\ \A s \in Sockets :
         tab[t].socket = s /\ StillToCome(m, s) => Showings(m, tab[t]) < tab[t].hellos

RecentIsBounded == Len(recent) <= ReplayBuffer

ShownInv == RecentIsBounded /\ WorkingIsServed /\ Underway /\ Pages /\ OncePerHello

LEMMA InitShownInv == FeedInit => ShownInv
  <1> SUFFICES ASSUME FeedInit PROVE ShownInv
    OBVIOUS
  <1>1. /\ ReplayBuffer \in Nat /\ MaxShown \in Nat /\ Len(<<>>) = 0
        /\ \A S : <<>> \in Seq(S)
    BY FeedAssumption, EmptySeq
  <1>2. RecentIsBounded /\ WorkingIsServed /\ Underway
    BY <1>1 DEF FeedInit, RecentIsBounded, WorkingIsServed, Underway, Reads
  <1>3. PICK course \in Courses : tab = [t \in Tabs |-> Blank(t \in course.open)]
    BY DEF FeedInit
  <1>4. ASSUME NEW t \in Tabs
        PROVE  tab[t].segments = <<>> /\ tab[t].signals = <<>> /\ tab[t].hellos = 0
    BY <1>3 DEF Blank
  <1>5. Pages
    <2>1. <<>> \in Seq(1..Len(events)) /\ Len(<<>>) <= MaxShown /\ 0 \in Nat
      BY <1>1
    <2>2. QED
      BY <1>4, <2>1 DEF Pages, Page
  <1>6. OncePerHello
    <2>1. ASSUME NEW t \in Tabs, NEW m \in Nat PROVE Showings(m, tab[t]) = 0
      BY <1>4, OccursEmpty DEF Showings
    <2>2. \A s \in Sockets, m \in Nat : ~StillToCome(m, s)
      BY DEF FeedInit, StillToCome
    <2>3. QED
      BY <2>1, <2>2, <1>4 DEF OncePerHello
  <1>7. QED
    BY <1>2, <1>5, <1>6 DEF ShownInv

LEMMA PageGrows ==
  ASSUME NEW view, NEW m \in Nat, NEW n \in Nat, m <= n, Page(view, 1..m)
  PROVE  Page(view, 1..n)
  <1>1. ASSUME NEW entries \in Seq(1..m) PROVE entries \in Seq(1..n)
    <2>1. entries \in [1..Len(entries) -> 1..m] /\ Len(entries) \in Nat
      BY LenProperties
    <2>2. entries \in [1..Len(entries) -> 1..n]
      BY <2>1
    <2>3. QED
      BY <2>1, <2>2
  <1>2. QED
    BY <1>1 DEF Page

(* A page that shows what it showed keeps to the invariant, unless          *)
(* something is on its way again.                                           *)
LEMMA PagesRest ==
  ASSUME FeedInv, ShownInv, Len(events') \in Nat, Len(events) <= Len(events'),
         \A t \in Tabs : /\ tab'[t].segments = tab[t].segments
                         /\ tab'[t].signals = tab[t].signals
                         /\ tab'[t].hellos = tab[t].hellos,
         \A t \in Tabs : \A s \in Sockets : \A m \in Nat :
           tab'[t].socket = s /\ StillToCome(m, s)' => tab[t].socket = s /\ StillToCome(m, s)
  PROVE  Pages' /\ OncePerHello'
  <1>1. Len(events) \in Nat
    BY LenProperties DEF FeedInv, Types
  <1>2. Pages'
    <2>1. ASSUME NEW t \in Tabs
          PROVE  Page(tab[t], 1..Len(events')) /\ tab[t].hellos \in Nat
      BY <1>1, PageGrows DEF ShownInv, Pages
    <2>2. QED
      BY <2>1 DEF Pages, Page
  <1>3. \A t \in Tabs, m \in Nat : Showings(m, tab'[t]) = Showings(m, tab[t])
    BY DEF Showings
  <1>4. OncePerHello'
    <2> SUFFICES ASSUME NEW t \in Tabs, NEW m \in Nat
                 PROVE  /\ Showings(m, tab'[t]) <= tab'[t].hellos
                        /\ \A s \in Sockets :
                             tab'[t].socket = s /\ StillToCome(m, s)'
                               => Showings(m, tab'[t]) < tab'[t].hellos
      BY DEF OncePerHello, Showings, Occurs
    <2>1. QED
      BY <1>3 DEF ShownInv, OncePerHello
  <1>5. QED
    BY <1>2, <1>4

LEMMA SocketFacts ==
  ASSUME FeedInv, ShownInv
  PROVE  /\ Len(events) \in Nat
         /\ \A s \in Sockets :
              /\ Len(log[s]) \in Nat /\ heard[s] \in Nat /\ LastSent(s) \in Int
              /\ ~Reads(s) => log[s] = <<>> /\ Len(log[s]) = 0 /\ heard[s] = 0
  <1>1. Len(events) \in Nat /\ \A s \in Sockets : Len(log[s]) \in Nat /\ heard[s] \in Nat
    BY LenProperties DEF FeedInv, Types, ShownInv, Underway
  <1>2. \A s \in Sockets : LastSent(s) \in Int
    BY <1>1 DEF LastSent
  <1>3. ASSUME NEW s \in Sockets, ~Reads(s)
        PROVE  log[s] = <<>> /\ Len(log[s]) = 0 /\ heard[s] = 0
    <2>1. log[s] = <<>> /\ heard[s] <= Len(log[s])
      BY <1>3 DEF ShownInv, Underway
    <2>2. Len(log[s]) = 0
      BY <2>1, EmptySeq
    <2>3. QED
      BY <2>1, <2>2, <1>1
  <1>4. QED
    BY <1>1, <1>2, <1>3

(* Steps that touch neither socket nor tab.                                 *)
LEMMA ConsumerShows ==
  ASSUME FeedInv, ShownInv, UNCHANGED <<clients, recent, due, dead, events, socketVars, tab>>
  PROVE  ShownInv'
  <1>1. RecentIsBounded' /\ WorkingIsServed' /\ Underway'
    BY DEF ShownInv, RecentIsBounded, WorkingIsServed, Underway, Reads, socketVars
  <1>2. \A s, m : StillToCome(m, s)' = StillToCome(m, s)
    BY DEF StillToCome, LastSent, socketVars
  <1>3. Pages' /\ OncePerHello'
    BY <1>2, SocketFacts, PagesRest
  <1>4. QED
    BY <1>1, <1>3 DEF ShownInv

LEMMA BroadcastShows ==
  ASSUME FeedInv, ShownInv, Broadcast
  PROVE  ShownInv'
  <1>1. /\ UNCHANGED <<clients, dead, socketVars, tab>>
        /\ due = {} /\ due' = clients
        /\ events' = Append(events, Head(pending)) /\ pending # <<>>
        /\ recent' = LastOf(ReplayBuffer, Append(recent, Len(events) + 1))
    BY DEF Broadcast, FeedInv, NothingDue
  <1>2. Len(events') \in Nat /\ Len(events') = Len(events) + 1
    <2>1. Head(pending) \in Events /\ events \in Seq(Events)
      BY <1>1, HeadTailProperties DEF FeedInv, Types
    <2>2. QED
      BY <2>1, <1>1, AppendProperties, LenProperties
  <1>3. RecentIsBounded'
    <2>1. recent \in Seq(Nat) /\ Len(events) + 1 \in Nat /\ ReplayBuffer \in Nat
      BY SocketFacts, FeedAssumption DEF FeedInv, RecentIsLatest
    <2> DEFINE more == Append(recent, Len(events) + 1)
    <2>2. more \in Seq(Nat)
      BY <2>1, AppendProperties
    <2> HIDE DEF more
    <2>3. /\ Len(LastOf(ReplayBuffer, more))
               = IF Len(more) > ReplayBuffer THEN ReplayBuffer ELSE Len(more)
          /\ Len(more) \in Nat
      BY <2>1, <2>2, LastOfFacts, LenProperties
    <2>4. recent' = LastOf(ReplayBuffer, more)
      BY <1>1 DEF more
    <2>5. QED
      BY <2>1, <2>3, <2>4 DEF RecentIsBounded
  <1>4. WorkingIsServed' /\ Underway'
    BY <1>1 DEF ShownInv, WorkingIsServed, Underway, Reads, socketVars
  <1>5. ASSUME NEW s \in Sockets, NEW m \in Nat, StillToCome(m, s)' PROVE StillToCome(m, s)
    <2>1. LastSent(s) = Len(events) /\ LastSent(s)' \in {Len(events), Len(events) + 1}
      BY <1>1, <1>2, SocketFacts DEF LastSent
    <2>2. heard[s] > 0 /\ m + Len(log[s]) > LastSent(s)' + heard[s]
      BY <1>1, <1>5 DEF StillToCome, socketVars
    <2>3. QED
      BY <2>1, <2>2, SocketFacts DEF StillToCome
  <1>6. Pages' /\ OncePerHello'
    <2>1. Len(events) <= Len(events')
      BY <1>2, SocketFacts
    <2>2. QED
      BY <1>1, <1>2, <1>5, <2>1, PagesRest
  <1>7. QED
    BY <1>3, <1>4, <1>6 DEF ShownInv

LEMMA SendToShows ==
  ASSUME FeedInv, ShownInv, NEW s \in Sockets, SendTo(s)
  PROVE  ShownInv'
  <1> DEFINE frame == [type |-> "event", number |-> Len(events)]
  <1>1. /\ UNCHANGED <<clients, recent, events, handler, broken, heard, tab>>
        /\ s \in due /\ due' = due \ {s}
    BY DEF SendTo
  <1>2. \/ Reads(s) /\ log' = [log EXCEPT ![s] = Append(@, frame)] /\ dead' = dead
        \/ log' = log /\ (dead' = dead \/ (dead' = dead \union {s} /\ ~Reads(s)))
    <2>1. log \in [Sockets -> Seq(Numbered \union Hellos)]
      BY DEF FeedInv, Types
    <2>2. CASE handler[s] = "reading" /\ s \in broken /\ dead' = dead
      BY <2>1, <2>2 DEF SendTo, Reads
    <2>3. CASE handler[s] = "reading" /\ s \notin broken /\ dead' = dead
      BY <2>1, <2>3 DEF SendTo, Reads
    <2>4. CASE (s \in broken \/ handler[s] # "reading") /\ dead' = dead \union {s} /\ log' = log
      BY <2>4 DEF Reads
    <2>5. QED
      BY <2>2, <2>3, <2>4 DEF SendTo
  <1> HIDE DEF frame
  <1>3. /\ \A r \in Sockets \ {s} : log'[r] = log[r]
        /\ \/ log'[s] = log[s]
           \/ Reads(s) /\ Len(log'[s]) = Len(log[s]) + 1
    <2>1. /\ log \in [Sockets -> Seq(Numbered \union Hellos)] /\ frame \in Numbered \union Hellos
      BY SocketFacts DEF FeedInv, Types, frame, Numbered
    <2>2. Len(Append(log[s], frame)) = Len(log[s]) + 1
      BY <2>1, AppendProperties
    <2>3. QED
      BY <1>2, <2>1, <2>2
  <1>4. RecentIsBounded' /\ WorkingIsServed'
    BY <1>1, <1>2 DEF ShownInv, RecentIsBounded, WorkingIsServed, Reads
  <1>5. Underway'
    <2>1. \A r \in Sockets : Reads(r)' = Reads(r)
      BY <1>1 DEF Reads
    <2>2. \A r \in Sockets : heard[r] <= Len(log'[r])
      BY <1>3, SocketFacts DEF ShownInv, Underway
    <2>3. \A r \in Sockets : ~Reads(r) => log'[r] = <<>>
      BY <1>3 DEF ShownInv, Underway
    <2>4. QED
      BY <1>1, <2>1, <2>2, <2>3 DEF ShownInv, Underway
  <1>6. ASSUME NEW r \in Sockets, NEW m \in Nat, StillToCome(m, r)' PROVE StillToCome(m, r)
    <2>1. heard[r] > 0 /\ m + Len(log'[r]) > LastSent(r)' + heard[r]
      BY <1>1, <1>6 DEF StillToCome
    <2>2. LastSent(r)' = LastSent(r) + IF r = s THEN 1 ELSE 0
      <3>1. Len(events) \in Nat
        BY SocketFacts
      <3>2. CASE r = s
        BY <1>1, <3>1, <3>2 DEF LastSent
      <3>3. CASE r # s
        BY <1>1, <3>1, <3>3 DEF LastSent
      <3>4. QED
        BY <3>2, <3>3
    <2>3. QED
      BY <2>1, <2>2, <1>3, SocketFacts DEF StillToCome
  <1>7. Pages' /\ OncePerHello'
    <2>1. Len(events') \in Nat /\ Len(events) <= Len(events')
      BY <1>1, SocketFacts
    <2>2. QED
      BY <1>1, <1>6, <2>1, PagesRest
  <1>8. QED
    BY <1>4, <1>5, <1>7 DEF ShownInv

(* The steps that end live() of sockets which do not work any more.         *)
LEMMA EndShows ==
  ASSUME FeedInv, ShownInv, NEW sockets \in SUBSET Sockets, End(sockets),
         UNCHANGED <<recent, due, events, log, heard, tab>>,
         \A s \in sockets : ~Reads(s),
         \A s \in Sockets \ sockets : Reads(s) => s \in clients' /\ s \notin dead'
  PROVE  ShownInv'
  <1>1. /\ \A s \in Sockets \ sockets : Reads(s)' = Reads(s)
        /\ \A s \in sockets : ~Reads(s)'
    BY EndFacts DEF FeedInv, Reads
  <1>2. RecentIsBounded' /\ WorkingIsServed' /\ Underway'
    BY <1>1 DEF ShownInv, RecentIsBounded, WorkingIsServed, Underway
  <1>3. \A s, m : StillToCome(m, s)' = StillToCome(m, s)
    BY DEF StillToCome, LastSent
  <1>4. Pages' /\ OncePerHello'
    BY <1>3, SocketFacts, PagesRest
  <1>5. QED
    BY <1>2, <1>4 DEF ShownInv

LEMMA EndBroadcastShows ==
  ASSUME FeedInv, ShownInv, EndBroadcast
  PROVE  ShownInv'
  <1> DEFINE over == {s \in dead : handler[s] = "abandoned"}
  <1>1. /\ UNCHANGED <<recent, due, events, log, heard, tab>>
        /\ clients' = clients \ dead /\ dead' = {} /\ End(over)
        /\ over \in SUBSET Sockets
    BY DEF EndBroadcast, FeedInv, Types
  <1>2. \A s \in over : ~Reads(s)
    BY DEF Reads
  <1> HIDE DEF over
  <1>3. \A s \in Sockets \ over : Reads(s) => s \in clients' /\ s \notin dead'
    BY <1>1 DEF ShownInv, WorkingIsServed
  <1>4. QED
    BY <1>1, <1>2, <1>3, EndShows

LEMMA LiveEndsShows ==
  ASSUME FeedInv, ShownInv, NEW s \in Sockets, AcceptFails(s) \/ Disconnected(s)
  PROVE  ShownInv'
  <1>1. /\ UNCHANGED <<recent, due, dead, events, log, heard, tab>>
        /\ clients \ {s} \subseteq clients' /\ End({s}) /\ {s} \in SUBSET Sockets
        /\ s \in broken
    BY DEF AcceptFails, Disconnected, hubVars
  <1>2. \A r \in {s} : ~Reads(r)
    BY <1>1 DEF Reads
  <1>3. \A r \in Sockets \ {s} : Reads(r) => r \in clients' /\ r \notin dead'
    BY <1>1 DEF ShownInv, WorkingIsServed
  <1>4. QED
    BY <1>1, <1>2, <1>3, EndShows

LEMMA RegisterShows ==
  ASSUME FeedInv, ShownInv, NEW s \in Sockets, Register(s)
  PROVE  ShownInv'
  <1> DEFINE hello == [type |-> "hello", kafka |-> kafka, replay |-> recent]
  <1>1. /\ UNCHANGED <<recent, due, dead, events, broken, heard, tab>>
        /\ handler[s] = "none" /\ Held(s) /\ s \notin broken
        /\ clients' = clients \union {s}
        /\ handler' = [handler EXCEPT ![s] = "reading"]
        /\ log' = [log EXCEPT ![s] = <<hello>>]
    BY DEF Register, Asked
  <1> HIDE DEF hello
  <1>2. /\ \A r \in Sockets \ {s} : handler'[r] = handler[r] /\ log'[r] = log[r]
        /\ handler'[s] = "reading" /\ heard[s] = 0
    <2>1. heard[s] = 0
      BY <1>1, SocketFacts DEF Reads
    <2>2. QED
      BY <1>1, <2>1 DEF FeedInv, Types
  <1>3. s \notin dead
    BY <1>1 DEF FeedInv, NewIsUnknown
  <1>4. \A r \in Sockets \ {s} : Reads(r)' = Reads(r)
    BY <1>1, <1>2 DEF Reads
  <1>5. Reads(s)'
    BY <1>1, <1>2 DEF Reads
  <1>6. RecentIsBounded' /\ WorkingIsServed'
    BY <1>1, <1>3, <1>4 DEF ShownInv, RecentIsBounded, WorkingIsServed
  <1>7. Underway'
    <2>1. Len(log'[s]) \in Nat
      BY <1>1, LenProperties DEF FeedInv, Types
    <2>2. heard[s] <= Len(log'[s])
      <3>1. <<hello>> \in Seq({hello})
        OBVIOUS
      <3>2. log'[s] = <<hello>>
        BY <1>1 DEF FeedInv, Types
      <3>3. Len(log'[s]) \in Nat
        BY <3>1, <3>2, LenProperties
      <3>4. QED
        BY <3>3, <1>2
    <2>3. QED
      BY <1>1, <1>2, <1>4, <1>5, <2>2 DEF ShownInv, Underway
  <1>8. ASSUME NEW r \in Sockets, NEW m \in Nat, StillToCome(m, r)' PROVE StillToCome(m, r)
    <2>1. heard[r] > 0 /\ m + Len(log'[r]) > LastSent(r)' + heard[r]
      BY <1>1, <1>8 DEF StillToCome
    <2>2. r # s
      BY <2>1, <1>2
    <2>3. LastSent(r)' = LastSent(r)
      BY <1>1 DEF LastSent
    <2>4. QED
      BY <2>1, <2>2, <2>3, <1>2 DEF StillToCome
  <1>9. Pages' /\ OncePerHello'
    <2>1. Len(events') \in Nat /\ Len(events) <= Len(events')
      BY <1>1, SocketFacts
    <2>2. QED
      BY <1>1, <1>8, <2>1, PagesRest
  <1>10. QED
    BY <1>6, <1>7, <1>9 DEF ShownInv

LEMMA HelloFailsShows ==
  ASSUME FeedInv, ShownInv, NEW s \in Sockets, HelloFails(s)
  PROVE  ShownInv'
  <1>1. /\ UNCHANGED <<recent, due, dead, events, broken, log, heard, tab>>
        /\ handler[s] = "none" /\ clients' = clients \union {s}
        /\ handler' = [handler EXCEPT ![s] = "abandoned"]
    BY DEF HelloFails
  <1>2. \A r \in Sockets : Reads(r)' = Reads(r)
    BY <1>1 DEF FeedInv, Types, Reads
  <1>3. RecentIsBounded' /\ WorkingIsServed' /\ Underway'
    BY <1>1, <1>2 DEF ShownInv, RecentIsBounded, WorkingIsServed, Underway
  <1>4. \A r, m : StillToCome(m, r)' = StillToCome(m, r)
    BY <1>1 DEF StillToCome, LastSent
  <1>5. Pages' /\ OncePerHello'
    BY <1>1, <1>4, SocketFacts, PagesRest
  <1>6. QED
    BY <1>3, <1>5 DEF ShownInv

LEMMA RestartShows ==
  ASSUME FeedInv, ShownInv, Restart
  PROVE  ShownInv'
  <1>1. /\ UNCHANGED <<events, tab>> /\ recent' = <<>>
        /\ handler' = [s \in Sockets |-> IF Held(s) THEN "ended" ELSE "none"]
        /\ log' = [s \in Sockets |-> <<>>] /\ heard' = [s \in Sockets |-> 0]
    BY DEF Restart
  <1>2. \A s \in Sockets : ~Reads(s)'
    BY <1>1 DEF Reads
  <1>3. Len(<<>>) = 0 /\ ReplayBuffer \in Nat
    BY EmptySeq, FeedAssumption
  <1>4. RecentIsBounded' /\ WorkingIsServed' /\ Underway'
    BY <1>1, <1>2, <1>3 DEF RecentIsBounded, WorkingIsServed, Underway
  <1>5. \A s \in Sockets, m \in Nat : ~StillToCome(m, s)'
    BY <1>1 DEF StillToCome
  <1>6. Pages' /\ OncePerHello'
    BY <1>1, <1>5, SocketFacts, PagesRest
  <1>7. QED
    BY <1>4, <1>6 DEF ShownInv

LEMMA ConnectShows ==
  ASSUME FeedInv, ShownInv, NEW t \in Tabs, Connect(t)
  PROVE  ShownInv'
  <1>1. PICK s \in Free : tab' = [tab EXCEPT ![t].socket = s, ![t].timer = FALSE]
    BY DEF Connect
  <1>2. UNCHANGED <<bridgeVars, hubVars, socketVars>>
    BY DEF Connect
  <1>3. RecentIsBounded' /\ WorkingIsServed' /\ Underway'
    BY <1>2 DEF ShownInv, RecentIsBounded, WorkingIsServed, Underway, Reads, hubVars, socketVars
  <1>4. /\ DOMAIN tab' = Tabs /\ \A u \in Tabs \ {t} : tab'[u] = tab[u]
        /\ tab'[t].socket = s /\ tab'[t].segments = tab[t].segments
        /\ tab'[t].signals = tab[t].signals /\ tab'[t].hellos = tab[t].hellos
    <2>1. /\ tab'[t] = [tab[t] EXCEPT !.socket = s, !.timer = FALSE]
          /\ \A u \in Tabs \ {t} : tab'[u] = tab[u]
          /\ DOMAIN tab' = Tabs
      BY <1>1 DEF FeedInv, Views
    <2>2. Whole(tab[t])
      BY DEF FeedInv, Views
    <2>3. QED
      BY <2>1, <2>2 DEF Whole
  <1>5. s \in Sockets /\ handler[s] = "none"
    BY DEF Free
  <1>6. heard[s] = 0
    BY <1>5, SocketFacts DEF Reads
  <1>7. \A r, m : StillToCome(m, r)' = StillToCome(m, r)
    BY <1>2 DEF StillToCome, LastSent, hubVars, socketVars
  <1>8. \A m : ~StillToCome(m, s)
    BY <1>6 DEF StillToCome
  <1>9. Len(events') \in Nat /\ Len(events) <= Len(events')
    BY <1>2, SocketFacts DEF hubVars
  <1>10. ASSUME NEW u \in Tabs, NEW r \in Sockets, NEW m \in Nat,
                tab'[u].socket = r, StillToCome(m, r)'
         PROVE  tab[u].socket = r /\ StillToCome(m, r)
    BY <1>4, <1>7, <1>8, <1>10
  <1>11. Pages' /\ OncePerHello'
    <2>1. \A u \in Tabs : /\ tab'[u].segments = tab[u].segments
                          /\ tab'[u].signals = tab[u].signals
                          /\ tab'[u].hellos = tab[u].hellos
      BY <1>4
    <2>2. QED
      BY <1>9, <1>10, <2>1, PagesRest
  <1>12. QED
    BY <1>3, <1>11 DEF ShownInv

LEMMA OpenedShows ==
  ASSUME FeedInv, ShownInv, NEW t \in Tabs, Opened(t)
  PROVE  ShownInv'
  <1>1. /\ UNCHANGED <<bridgeVars, hubVars, socketVars>>
        /\ tab' = [tab EXCEPT ![t].connected = TRUE]
    BY DEF Opened
  <1>2. RecentIsBounded' /\ WorkingIsServed' /\ Underway'
    BY <1>1 DEF ShownInv, RecentIsBounded, WorkingIsServed, Underway, Reads, hubVars, socketVars
  <1>3. \A u \in Tabs : /\ tab'[u].segments = tab[u].segments
                        /\ tab'[u].signals = tab[u].signals
                        /\ tab'[u].hellos = tab[u].hellos
                        /\ tab'[u].socket = tab[u].socket
    <2>1. /\ tab'[t] = [tab[t] EXCEPT !.connected = TRUE]
          /\ \A u \in Tabs \ {t} : tab'[u] = tab[u]
      BY <1>1 DEF FeedInv, Views
    <2>2. Whole(tab[t])
      BY DEF FeedInv, Views
    <2>3. QED
      BY <2>1, <2>2 DEF Whole
  <1>4. \A r, m : StillToCome(m, r)' = StillToCome(m, r)
    BY <1>1 DEF StillToCome, LastSent, hubVars, socketVars
  <1>5. Len(events') \in Nat /\ Len(events) <= Len(events')
    BY <1>1, SocketFacts DEF hubVars
  <1>6. Pages' /\ OncePerHello'
    BY <1>3, <1>4, <1>5, PagesRest
  <1>7. QED
    BY <1>2, <1>6 DEF ShownInv

LEMMA BreakShows ==
  ASSUME FeedInv, ShownInv, NEW t \in Tabs, SocketBreaks(t) \/ Unmount(t)
  PROVE  ShownInv'
  <1> DEFINE lost == {tab[t].socket} \ {None}
  <1>1. UNCHANGED <<bridgeVars, hubVars, handler, since>> /\ Break(lost)
    BY DEF SocketBreaks, Unmount
  <1>2. \A u \in Tabs : /\ tab'[u].segments = tab[u].segments
                        /\ tab'[u].signals = tab[u].signals
                        /\ tab'[u].hellos = tab[u].hellos
                        /\ tab'[u].socket = tab[u].socket
    <2>1. DOMAIN tab = Tabs /\ \A u \in Tabs : Whole(tab[u])
      BY DEF FeedInv, Views
    <2>2. CASE SocketBreaks(t)
      BY <2>1, <2>2 DEF SocketBreaks
    <2>3. CASE Unmount(t)
      <3>1. /\ \A u \in Tabs \ {t} : tab'[u] = tab[u]
            /\ tab'[t] = [tab[t] EXCEPT !.mounted = FALSE, !.timer = FALSE]
        BY <2>1, <2>3 DEF Unmount
      <3>2. /\ tab'[t].segments = tab[t].segments /\ tab'[t].signals = tab[t].signals
            /\ tab'[t].hellos = tab[t].hellos /\ tab'[t].socket = tab[t].socket
        BY <2>1, <3>1 DEF Whole
      <3>3. QED
        BY <3>1, <3>2
    <2>4. QED
      BY <2>2, <2>3
  <1> HIDE DEF lost
  <1>3. /\ broken' = broken \union lost
        /\ log' = [s \in Sockets |-> IF s \in lost THEN <<>> ELSE log[s]]
        /\ heard' = [s \in Sockets |-> IF s \in lost THEN 0 ELSE heard[s]]
    BY <1>1 DEF Break
  <1>4. \A s \in Sockets : Reads(s)' <=> Reads(s) /\ s \notin lost
    BY <1>1, <1>3 DEF Reads
  <1>5. RecentIsBounded' /\ WorkingIsServed'
    BY <1>1, <1>4 DEF ShownInv, RecentIsBounded, WorkingIsServed, hubVars
  <1>6. Underway'
    <2>1. Len(<<>>) = 0
      BY EmptySeq
    <2>2. heard' \in [Sockets -> Nat]
      BY <1>3 DEF ShownInv, Underway
    <2>3. \A s \in Sockets : heard'[s] <= Len(log'[s])
      BY <1>3, <2>1 DEF ShownInv, Underway
    <2>4. \A s \in Sockets : ~Reads(s)' => log'[s] = <<>>
      BY <1>3, <1>4 DEF ShownInv, Underway
    <2>5. QED
      BY <2>2, <2>3, <2>4 DEF Underway
  <1>7. ASSUME NEW r \in Sockets, NEW m \in Nat, StillToCome(m, r)' PROVE StillToCome(m, r)
    <2>1. heard'[r] > 0 /\ m + Len(log'[r]) > LastSent(r)' + heard'[r]
      BY <1>7 DEF StillToCome
    <2>2. r \notin lost
      BY <2>1, <1>3
    <2>3. LastSent(r)' = LastSent(r)
      BY <1>1 DEF LastSent, hubVars
    <2>4. QED
      BY <2>1, <2>2, <2>3, <1>3 DEF StillToCome
  <1>8. Pages' /\ OncePerHello'
    <2>1. Len(events') \in Nat /\ Len(events) <= Len(events')
      BY <1>1, SocketFacts DEF hubVars
    <2>2. QED
      BY <1>2, <1>7, <2>1, PagesRest
  <1>9. QED
    BY <1>5, <1>6, <1>8 DEF ShownInv

LEMMA ClosedShows ==
  ASSUME FeedInv, ShownInv, NEW t \in Tabs, Closed(t)
  PROVE  ShownInv'
  <1> DEFINE s == tab[t].socket
             over == {r \in {s} : handler[r] = "ended"}
  <1>1. /\ UNCHANGED <<bridgeVars, hubVars, log, heard, since>>
        /\ tab' = [tab EXCEPT ![t].connected = FALSE, ![t].socket = None,
                              ![t].timer = tab[t].mounted]
    BY DEF Closed
  <1>2. /\ handler' = [r \in Sockets |-> IF r \in over THEN "none" ELSE handler[r]]
        /\ broken' = broken \ over
        /\ \A r \in over : handler[r] = "ended"
    BY DEF Closed
  <1>3. /\ tab'[t].socket = None
        /\ \A u \in Tabs \ {t} : tab'[u].socket = tab[u].socket
        /\ \A u \in Tabs : /\ tab'[u].segments = tab[u].segments
                           /\ tab'[u].signals = tab[u].signals
                           /\ tab'[u].hellos = tab[u].hellos
    <2>1. /\ \A u \in Tabs \ {t} : tab'[u] = tab[u]
          /\ tab'[t] = [tab[t] EXCEPT !.connected = FALSE, !.socket = None,
                                      !.timer = tab[t].mounted]
      BY <1>1 DEF FeedInv, Views
    <2>2. Whole(tab[t])
      BY DEF FeedInv, Views
    <2>3. QED
      BY <2>1, <2>2 DEF Whole
  <1> HIDE DEF over
  <1>4. \A r \in Sockets : Reads(r)' <=> Reads(r)
    BY <1>2 DEF Reads
  <1>5. RecentIsBounded' /\ WorkingIsServed' /\ Underway'
    BY <1>1, <1>4 DEF ShownInv, RecentIsBounded, WorkingIsServed, Underway, hubVars
  <1>6. \A r, m : StillToCome(m, r)' = StillToCome(m, r)
    BY <1>1 DEF StillToCome, LastSent, hubVars
  <1>7. \A u \in Tabs : \A r \in Sockets : tab'[u].socket = r => tab[u].socket = r
    BY <1>3 DEF None, Sockets
  <1>8. Len(events') \in Nat /\ Len(events) <= Len(events')
    BY <1>1, SocketFacts DEF hubVars
  <1>9. Pages' /\ OncePerHello'
    BY <1>3, <1>6, <1>7, <1>8, PagesRest
  <1>10. QED
    BY <1>5, <1>9 DEF ShownInv

(* What the next message of a socket is: its replay starts with the event   *)
(* "first".                                                                 *)
Replay(s) == log[s][1].replay

Continues(s, first) ==
  /\ LastSent(s) \in Nat /\ LastSent(s) <= Len(events)
  /\ Len(Replay(s)) \in Nat /\ \A k \in 1..Len(Replay(s)) : Replay(s)[k] = first + k - 1
  /\ first + Len(Replay(s)) + Len(log[s]) = LastSent(s) + 2
  /\ heard[s] = 0 => /\ log[s][heard[s] + 1].type = "hello"
                     /\ log[s][heard[s] + 1].replay = Replay(s)
  /\ heard[s] > 0 => /\ log[s][heard[s] + 1].type = "event"
                     /\ log[s][heard[s] + 1].number
                          = first + Len(Replay(s)) + heard[s] - 1

(* Arithmetic of the next two lemmas.                                       *)
LEMMA NumberOfNext ==
  ASSUME NEW first \in Nat, NEW replayed \in Nat, NEW n \in Nat
  PROVE  first + replayed + (n + 1) - 2 = first + replayed + n - 1
  OBVIOUS

LEMMA HelloCarries ==
  ASSUME NEW first \in Nat \ {0}, NEW replayed \in Nat, NEW sent \in Nat, NEW last \in Nat,
         first + replayed + sent = last + 2, 0 < sent
  PROVE  /\ \A k \in 1..replayed : first + k - 1 \in 1..last
         /\ \A m \in Nat : m + sent > last + 0 + 1 => ~(m < first + replayed)
  OBVIOUS

LEMMA NextMessage ==
  ASSUME FeedInv, ShownInv, NEW s \in Sockets, heard[s] < Len(log[s])
  PROVE  \E first \in Nat \ {0} : Continues(s, first)
  <1>1. Reads(s)
    BY SocketFacts
  <1>2. /\ Len(events) \in Nat /\ Len(log[s]) \in Nat /\ heard[s] \in Nat
        /\ LastSent(s) \in Int
    BY SocketFacts
  <1>3. LastSent(s) <= Len(events)
    BY <1>2 DEF LastSent
  <1> DEFINE last == LastSent(s)
  <1>4. PICK first \in 1..(last + 1) : Carries(s, first, last)
    BY <1>1 DEF FeedInv, ReplayMeetsTail, Reads, ShownInv, WorkingIsServed
  <1> DEFINE replay == Replay(s)
  <1>5. /\ log[s] # <<>> /\ log[s][1].type = "hello"
        /\ Len(replay) + Len(log[s]) - 1 = last + 1 - first
        /\ \A k \in 1..Len(replay) : replay[k] = first + k - 1
        /\ \A k \in 2..Len(log[s]) :
             /\ log[s][k].type = "event"
             /\ log[s][k].number = first + Len(replay) + k - 2
    BY <1>4 DEF Carries, Replay
  <1>6. Len(replay) \in Nat
    <2>1. log[s] \in Seq(Numbered \union Hellos) /\ 1 \in 1..Len(log[s])
      BY <1>2 DEF FeedInv, Types
    <2>2. log[s][1] \in Numbered \union Hellos
      BY <2>1, ElementOfSeq
    <2>3. log[s][1] \in Hellos
      BY <2>2, <1>5 DEF Numbered
    <2>4. replay \in Seq(Nat)
      BY <2>3 DEF Hellos, Replay
    <2>5. QED
      BY <2>4, LenProperties
  <1> HIDE DEF replay
  <1>7. first \in Nat \ {0} /\ last \in Nat
    BY <1>2
  <1> HIDE DEF last
  <1>8. first + Len(replay) + Len(log[s]) = last + 2
    <2>1. Len(replay) + Len(log[s]) - 1 = last + 1 - first
      BY <1>5
    <2>2. Len(replay) \in Nat /\ Len(log[s]) \in Nat /\ first \in Nat \ {0} /\ last \in Nat
      BY <1>2, <1>6, <1>7
    <2>3. QED
      <3>1. PICK replayed \in Nat : replayed = Len(replay)
        BY <2>2
      <3>2. PICK sent \in Nat : sent = Len(log[s])
        BY <2>2
      <3>3. replayed + sent - 1 = last + 1 - first
        BY <2>1, <3>1, <3>2
      <3>4. first + replayed + sent = last + 2
        BY <2>2, <3>3
      <3>5. QED
        BY <3>1, <3>2, <3>4
  <1>9. heard[s] = 0 => /\ log[s][heard[s] + 1].type = "hello"
                        /\ log[s][heard[s] + 1].replay = replay
    BY <1>5 DEF replay, Replay
  <1>10. ASSUME heard[s] > 0
         PROVE  /\ log[s][heard[s] + 1].type = "event"
                /\ log[s][heard[s] + 1].number = first + Len(replay) + heard[s] - 1
    <2>1. heard[s] + 1 \in 2..Len(log[s])
      BY <1>2, <1>10
    <2>2. log[s][heard[s] + 1].number = first + Len(replay) + (heard[s] + 1) - 2
      BY <1>5, <2>1
    <2>3. first + Len(replay) + (heard[s] + 1) - 2 = first + Len(replay) + heard[s] - 1
      <3>1. first \in Nat
        BY <1>7
      <3>2. QED
        BY <1>2, <1>6, <3>1, NumberOfNext, Zenon
    <2>4. QED
      BY <1>5, <2>1, <2>2, <2>3
  <1>11. Continues(s, first)
    <2>1. LastSent(s) \in Nat /\ first + Len(replay) + Len(log[s]) = LastSent(s) + 2
      BY <1>7, <1>8 DEF last
    <2>2. replay = Replay(s)
      BY DEF replay
    <2>3. QED
      BY <1>3, <1>5, <1>6, <1>9, <1>10, <2>1, <2>2, Zenon DEF Continues
  <1>12. QED
    BY <1>7, <1>11

(* A hello with its replay, or one event.                                   *)
LEMMA ReceivedShows ==
  ASSUME FeedInv, ShownInv, NEW t \in Tabs, NEW s \in Sockets,
         tab[t].socket = s, heard[s] < Len(log[s]),
         NEW view, view = Received(tab[t], log[s][heard[s] + 1])
  PROVE  /\ Page(view, 1..Len(events)) /\ view.hellos \in Nat
         /\ \A m \in Nat : /\ Showings(m, view) <= view.hellos
                           /\ m + Len(log[s]) > LastSent(s) + heard[s] + 1
                                => Showings(m, view) < view.hellos
  <1> DEFINE old == tab[t]
             message == log[s][heard[s] + 1]
             S == 1..Len(events)
  <1>1. /\ Whole(old) /\ Page(old, S) /\ old.hellos \in Nat
        /\ \A m \in Nat : /\ Showings(m, old) <= old.hellos
                          /\ StillToCome(m, s) => Showings(m, old) < old.hellos
    BY DEF FeedInv, Views, ShownInv, Pages, OncePerHello
  <1>2. /\ Len(events) \in Nat /\ Len(log[s]) \in Nat /\ heard[s] \in Nat
    BY SocketFacts
  <1>3. PICK first \in Nat \ {0} : Continues(s, first)
    BY NextMessage
  <1> DEFINE replay == Replay(s)
             n == first + Len(replay) + heard[s] - 1
  <1>4. /\ first \in Nat \ {0} /\ Len(replay) \in Nat /\ LastSent(s) \in Nat
        /\ LastSent(s) <= Len(events)
        /\ first + Len(replay) + Len(log[s]) = LastSent(s) + 2
    BY <1>3 DEF Continues
  <1>a. S \in SUBSET Nat
    OBVIOUS
  <1>5. ASSUME NEW m, NEW v, Page(v, S) PROVE Showings(m, v) \in Nat
    <2>1. Occurs(m, v.segments) \in Nat /\ Occurs(m, v.signals) \in Nat
      BY <1>5, OccursFacts DEF Page
    <2>2. QED
      BY <2>1 DEF Showings
  <1>6. view = Received(old, message)
    OBVIOUS
  <1>7. CASE heard[s] = 0
    <2>1. \A k \in 1..Len(replay) : replay[k] \in S /\ replay[k] = first + k - 1
      <3>1. ASSUME NEW k \in 1..Len(replay) PROVE first + k - 1 \in S
        <4> HIDE DEF replay
        <4>1. first + k - 1 \in 1..LastSent(s)
          <5>1. 0 < Len(log[s])
            BY <1>7
          <5>2. QED
            BY <5>1, <1>2, <1>4, HelloCarries, Zenon
        <4>2. QED
          BY <4>1, <1>2, <1>4
      <3>2. QED
        BY <3>1, <1>3 DEF Continues
    <2> DEFINE after == Replayed(old, replay)
    <2>2. message.type # "event" /\ message.replay = replay
      BY <1>3, <1>7 DEF Continues
    <2> HIDE DEF old, message, S, replay
    <2>3. /\ view.segments = after.segments /\ view.signals = after.signals
          /\ view.hellos = old.hellos + 1
      BY <1>1, <1>6, <2>2 DEF Received, Whole
    <2> HIDE DEF after
    <2>4. /\ Page(after, S)
          /\ \A m \in Nat : Gains(m, old, after, IF m < first + Len(replay) THEN 1 ELSE 0)
      BY <1>1, <1>4, <1>a, <2>1, ReplayGains DEF after
    <2>5. Page(view, S) /\ \A m : Showings(m, view) = Showings(m, after)
      BY <2>3, <2>4 DEF Page, Showings
    <2>6. ASSUME NEW m \in Nat
          PROVE  /\ Showings(m, view) <= view.hellos
                 /\ m + Len(log[s]) > LastSent(s) + heard[s] + 1
                      => Showings(m, view) < view.hellos
      <3>1. Showings(m, view) <= Showings(m, old) + IF m < first + Len(replay) THEN 1 ELSE 0
        BY <2>4, <2>5 DEF Gains
      <3>2. Showings(m, view) \in Nat /\ Showings(m, old) \in Nat /\ Showings(m, old) <= old.hellos
        BY <1>1, <1>5, <2>5
      <3>3. m + Len(log[s]) > LastSent(s) + heard[s] + 1 => ~(m < first + Len(replay))
        <4>1. 0 < Len(log[s])
          BY <1>7
        <4>2. m + Len(log[s]) > LastSent(s) + 0 + 1 => ~(m < first + Len(replay))
          BY <4>1, <1>2, <1>4, HelloCarries, Zenon
        <4>3. QED
          BY <4>2, <1>7
      <3>4. old.hellos \in Nat /\ view.hellos = old.hellos + 1
        BY <2>3, <1>1
      <3>5. QED
        BY <3>1, <3>2, <3>3, <3>4
    <2>7. view.hellos \in Nat
      BY <2>3, <1>1
    <2>8. QED
      BY <2>5, <2>6, <2>7 DEF S
  <1>8. CASE heard[s] > 0
    <2>1. message.type = "event" /\ message.number = n
      BY <1>3, <1>8 DEF Continues
    <2> HIDE DEF replay
    <2>2. n \in 1..Len(events) /\ n + Len(log[s]) = LastSent(s) + heard[s] + 1
      <3>1. n \in 1..LastSent(s) /\ n + Len(log[s]) = LastSent(s) + heard[s] + 1
        <4>1. PICK replayed \in Nat : replayed = Len(replay)
          BY <1>4
        <4>2. PICK sent \in Nat : sent = Len(log[s])
          BY <1>2
        <4>3. PICK last \in Nat : last = LastSent(s)
          BY <1>4
        <4>4. PICK m \in Nat : m = heard[s]
          BY <1>2
        <4>5. m > 0 /\ m < sent /\ first + replayed + sent = last + 2
          BY <1>4, <1>8, <4>1, <4>2, <4>3, <4>4
        <4>6. n = first + replayed + m - 1
          BY <4>1, <4>4
        <4> HIDE DEF n
        <4>7. n \in 1..last /\ n + sent = last + m + 1
          BY <4>5, <4>6
        <4>8. QED
          BY <4>2, <4>3, <4>4, <4>7
      <3>2. QED
        BY <3>1, <1>2, <1>4
    <2> HIDE DEF n
    <2>3. view = Apply(old, n)
      BY <1>6, <2>1 DEF Received
    <2>4. StillToCome(n, s) /\ n \in Nat
      BY <2>2, <1>2, <1>4, <1>8 DEF StillToCome
    <2> HIDE DEF old, message
    <2>5. /\ Page(view, S) /\ view.hellos = old.hellos
          /\ \A m : Gains(m, old, view, IF m = n THEN 1 ELSE 0)
      <3>1. n \in S
        BY <2>2
      <3> HIDE DEF S
      <3>2. QED
        <4>1. Whole(old) /\ Page(old, S) /\ S \in SUBSET Nat
          BY <1>1, <1>a
        <4>2. /\ Page(Apply(old, n), S) /\ Apply(old, n).hellos = old.hellos
              /\ \A m : Gains(m, old, Apply(old, n), IF m = n THEN 1 ELSE 0)
          BY <3>1, <4>1, ApplyFacts
        <4>3. QED
          BY <4>2, <2>3
    <2>6. ASSUME NEW m \in Nat
          PROVE  /\ Showings(m, view) <= view.hellos
                 /\ m + Len(log[s]) > LastSent(s) + heard[s] + 1
                      => Showings(m, view) < view.hellos
      <3>1. Showings(m, view) <= Showings(m, old) + IF m = n THEN 1 ELSE 0
        BY <2>5 DEF Gains
      <3>2. Showings(m, view) \in Nat /\ Showings(m, old) \in Nat /\ Showings(m, old) <= old.hellos
        BY <1>1, <1>5, <2>5
      <3>3. m = n => Showings(m, old) < old.hellos
        BY <2>4, <1>1
      <3>4. ASSUME m + Len(log[s]) > LastSent(s) + heard[s] + 1
            PROVE  m # n /\ Showings(m, old) < old.hellos
        <4>1. m # n
          BY <3>4, <2>2, <2>4, <1>2, <1>4
        <4>2. StillToCome(m, s)
          BY <3>4, <1>2, <1>4, <1>8 DEF StillToCome
        <4>3. QED
          BY <4>1, <4>2, <1>1
      <3>5. old.hellos \in Nat /\ view.hellos = old.hellos
        BY <2>5, <1>1
      <3>6. QED
        BY <3>1, <3>2, <3>3, <3>4, <3>5
    <2>7. QED
      BY <2>5, <2>6, <1>1
  <1>9. QED
    BY <1>2, <1>7, <1>8

LEMMA ReceiveShows ==
  ASSUME FeedInv, ShownInv, NEW t \in Tabs, Receive(t)
  PROVE  ShownInv'
  <1>0. PICK s : s = tab[t].socket
    OBVIOUS
  <1>1. /\ UNCHANGED <<bridgeVars, hubVars, handler, broken, log>>
        /\ s # None /\ heard[s] < Len(log[s])
        /\ heard' = [heard EXCEPT ![s] = @ + 1]
        /\ tab' = [tab EXCEPT ![t] = Received(@, log[s][heard[s] + 1])]
    BY <1>0 DEF Receive
  <1>2. s \in Sockets
    BY <1>0, <1>1 DEF FeedInv, Views
  <1>3. /\ \A u \in Tabs \ {t} : tab'[u] = tab[u] /\ tab[u].socket # s
        /\ tab'[t] = Received(tab[t], log[s][heard[s] + 1])
        /\ tab'[t].socket = s
    <2>1. /\ \A u \in Tabs \ {t} : tab'[u] = tab[u]
          /\ tab'[t] = Received(tab[t], log[s][heard[s] + 1])
      BY <1>0, <1>1 DEF FeedInv, Views
    <2>2. \A u \in Tabs \ {t} : tab[u].socket # s
      BY <1>0, <1>1 DEF FeedInv, OneTabEach
    <2>3. tab'[t].socket = s
      BY <1>0, <2>1, ReceivedFacts DEF FeedInv, Views
    <2>4. QED
      BY <2>1, <2>2, <2>3
  <1>4. /\ \A r \in Sockets \ {s} : heard'[r] = heard[r]
        /\ heard'[s] = heard[s] + 1
    BY <1>1, <1>2 DEF ShownInv, Underway
  <1>5. /\ Len(log[s]) \in Nat /\ heard[s] \in Nat /\ LastSent(s) \in Int
    BY <1>2, SocketFacts
  <1>6. RecentIsBounded' /\ WorkingIsServed'
    BY <1>1 DEF ShownInv, RecentIsBounded, WorkingIsServed, Reads, hubVars
  <1>7. Underway'
    <2>1. heard' \in [Sockets -> Nat]
      <3>1. heard \in [Sockets -> Nat] /\ heard[s] + 1 \in Nat
        BY <1>5 DEF ShownInv, Underway
      <3>2. QED
        BY <3>1, <1>1
    <2>2. \A r \in Sockets : Reads(r)' = Reads(r)
      BY <1>1 DEF Reads
    <2>3. \A r \in Sockets : heard'[r] <= Len(log[r])
      BY <1>1, <1>4, <1>5 DEF ShownInv, Underway
    <2>4. QED
      BY <1>1, <2>1, <2>2, <2>3 DEF ShownInv, Underway
  <1>8. PICK view : view = Received(tab[t], log[s][heard[s] + 1])
    OBVIOUS
  <1>9. /\ Page(view, 1..Len(events)) /\ view.hellos \in Nat
        /\ \A m \in Nat : /\ Showings(m, view) <= view.hellos
                          /\ m + Len(log[s]) > LastSent(s) + heard[s] + 1
                               => Showings(m, view) < view.hellos
    BY <1>0, <1>1, <1>2, <1>8, ReceivedShows
  <1>10. tab'[t] = view
    BY <1>3, <1>8
  <1>11. Pages'
    <2>1. \A u \in Tabs : Page(tab'[u], 1..Len(events)) /\ tab'[u].hellos \in Nat
      BY <1>3, <1>9, <1>10 DEF ShownInv, Pages
    <2>2. events' = events
      BY <1>1 DEF hubVars
    <2>3. QED
      BY <2>1, <2>2 DEF Pages, Page
  <1>12. OncePerHello'
    <2>1. \A r : LastSent(r)' = LastSent(r)
      BY <1>1 DEF LastSent, hubVars
    <2>2. \A m : StillToCome(m, s)' => m + Len(log[s]) > LastSent(s) + (heard[s] + 1)
      <3>1. log' = log
        BY <1>1
      <3>2. QED
        BY <3>1, <1>4, <2>1 DEF StillToCome
    <2>3. \A r \in Sockets \ {s} : \A m : StillToCome(m, r)' = StillToCome(m, r)
      BY <1>1, <1>4, <2>1 DEF StillToCome
    <2>4. ASSUME NEW u \in Tabs, NEW m \in Nat
          PROVE  /\ Showings(m, tab'[u]) <= tab'[u].hellos
                 /\ \A r \in Sockets :
                      tab'[u].socket = r /\ StillToCome(m, r)'
                        => Showings(m, tab'[u]) < tab'[u].hellos
      <3>1. CASE u = t
        <4>1. /\ Showings(m, tab'[u]) <= tab'[u].hellos
              /\ m + Len(log[s]) > LastSent(s) + heard[s] + 1
                   => Showings(m, tab'[u]) < tab'[u].hellos
          BY <3>1, <1>9, <1>10
        <4>2. LastSent(s) + (heard[s] + 1) = LastSent(s) + heard[s] + 1
          BY <1>5
        <4>3. \A r \in Sockets : tab'[u].socket = r => r = s
          BY <3>1, <1>3
        <4>4. StillToCome(m, s)' => Showings(m, tab'[u]) < tab'[u].hellos
          BY <4>1, <4>2, <2>2
        <4> HIDE DEF StillToCome, Showings
        <4>5. QED
          BY <4>1, <4>3, <4>4
      <3>2. CASE u # t
        <4>1. tab'[u] = tab[u] /\ tab[u].socket # s
          BY <3>2, <1>3
        <4>2. QED
          BY <4>1, <2>3 DEF ShownInv, OncePerHello
      <3>3. QED
        BY <3>1, <3>2
    <2>5. QED
      BY <2>4 DEF OncePerHello, Showings, Occurs
  <1>13. QED
    BY <1>6, <1>7, <1>11, <1>12 DEF ShownInv

LEMMA NextShownInv == FeedInv /\ ShownInv /\ [FeedNext]_feedVars => ShownInv'
  <1> SUFFICES ASSUME FeedInv, ShownInv, [FeedNext]_feedVars PROVE ShownInv'
    OBVIOUS
  <1>1. CASE StartConsumer \/ ConsumerFails \/ Take
    <2>1. UNCHANGED <<clients, recent, due, dead, events, socketVars, tab>>
      BY <1>1 DEF StartConsumer, ConsumerFails, Take, hubVars
    <2>2. QED
      BY <2>1, ConsumerShows
  <1>2. CASE Broadcast \/ EndBroadcast \/ Restart
    BY <1>2, BroadcastShows, EndBroadcastShows, RestartShows
  <1>3. CASE \E s \in Sockets : SendTo(s)
    BY <1>3, SendToShows
  <1>4. CASE \E s \in Sockets : Serve(s)
    BY <1>4, RegisterShows, HelloFailsShows, LiveEndsShows DEF Serve
  <1>5. CASE \E t \in Tabs : Hook(t) \/ SocketBreaks(t) \/ Unmount(t)
    BY <1>5, ConnectShows, OpenedShows, ReceiveShows, ClosedShows, BreakShows DEF Hook
  <1>6. CASE UNCHANGED feedVars
    <2>1. UNCHANGED <<clients, recent, due, dead, events, socketVars, tab>>
      BY <1>6 DEF feedVars, hubVars
    <2>2. QED
      BY <2>1, ConsumerShows
  <1>7. QED
    BY <1>1, <1>2, <1>3, <1>4, <1>5, <1>6 DEF FeedNext, Hub

-----------------------------------------------------------------------------
(* useQuery.                                                                *)

(* The requests that are not cancelled ask the latest question.             *)
Asking ==
  /\ query = [deps |-> query.deps, sent |-> query.sent, data |-> query.data,
              loading |-> query.loading, error |-> query.error]
  /\ \A request \in query.sent :
       /\ request = [path |-> request.path, cancelled |-> request.cancelled]
       /\ ~request.cancelled => request.path = Path(query.deps)

IInv == Asking /\ NoLateAnswer

LEMMA InitIInv == Init => IInv
  BY DEF Init, IInv, Asking, NoLateAnswer, Request, Path, Health, NoCall

(* The effect cancels what it asked before.                                 *)
LEMMA RefreshKeeps == IInv /\ Refresh => IInv'
  <1> SUFFICES ASSUME IInv, Refresh PROVE IInv'
    OBVIOUS
  <1>1. query' = [query EXCEPT !.deps = Deps, !.loading = TRUE, !.error = FALSE,
                    !.sent = {[request EXCEPT !.cancelled = TRUE] : request \in @}
                               \union {Request(Path(Deps))}]
    BY DEF Refresh
  <1>2. query'.deps = Deps /\ query'.loading = TRUE
        /\ query'.sent = {[request EXCEPT !.cancelled = TRUE] : request \in query.sent}
                           \union {Request(Path(Deps))}
        /\ query' = [deps |-> query'.deps, sent |-> query'.sent, data |-> query'.data,
                     loading |-> query'.loading, error |-> query'.error]
    BY <1>1 DEF IInv, Asking
  <1>3. ASSUME NEW request \in query'.sent
        PROVE  /\ request = [path |-> request.path, cancelled |-> request.cancelled]
               /\ ~request.cancelled => request.path = Path(query'.deps)
    <2>1. CASE request = Request(Path(Deps))
      BY <2>1, <1>2 DEF Request
    <2>2. CASE \E old \in query.sent : request = [old EXCEPT !.cancelled = TRUE]
      BY <2>2 DEF IInv, Asking
    <2>3. QED
      BY <1>2, <1>3, <2>1, <2>2
  <1>4. QED
    BY <1>2, <1>3 DEF IInv, Asking, NoLateAnswer, Path

LEMMA ReplyKeeps == IInv /\ Reply => IInv'
  <1> SUFFICES ASSUME IInv, NEW request \in query.sent, Answered(request) \/ Failed(request)
               PROVE  IInv'
    BY DEF Reply
  <1>1. query'.deps = query.deps /\ query'.sent = query.sent \ {request}
        /\ query' = [deps |-> query'.deps, sent |-> query'.sent, data |-> query'.data,
                     loading |-> query'.loading, error |-> query'.error]
    BY DEF Answered, Failed, IInv, Asking
  <1>2. Asking'
    BY <1>1 DEF IInv, Asking, Path
  <1>3. NoLateAnswer'
    <2>1. CASE request.cancelled
      BY <2>1 DEF Answered, Failed, IInv, Asking, NoLateAnswer, Path
    <2>2. CASE ~request.cancelled /\ Answered(request)
      BY <2>2 DEF Answered, IInv, Asking, NoLateAnswer, Path
    <2>3. CASE ~request.cancelled /\ Failed(request)
      BY <2>3 DEF Failed, IInv, Asking, NoLateAnswer, Path
    <2>4. QED
      BY <2>1, <2>2, <2>3
  <1>4. QED
    BY <1>2, <1>3 DEF IInv

LEMMA NextIInv == IInv /\ [Next]_vars => IInv'
  <1>1. CASE UNCHANGED query
    BY <1>1 DEF IInv, Asking, NoLateAnswer, Path
  <1>2. [Next]_vars => UNCHANGED query \/ Refresh \/ Reply
    BY DEF Next, ViewNext, ListLoaded, Choose, vars, viewVars
  <1>3. QED
    BY <1>1, <1>2, RefreshKeeps, ReplyKeeps

(* api.ts:24-45: in every reachable state, what is shown while nothing is   *)
(* loading answers the latest question, or the error is shown.              *)
THEOREM LatestAnswerOnly == Spec => []NoLateAnswer
  <1>1. IInv => NoLateAnswer
    BY DEF IInv
  <1>2. QED
    BY <1>1, InitIInv, NextIInv, PTL DEF Spec

(* What the lemmas above show of the feed holds whatever the view does.     *)
LEMMA NextFeed == FeedInv /\ ShownInv /\ [Next]_vars => FeedInv' /\ ShownInv'
  <1> SUFFICES ASSUME FeedInv, ShownInv, [Next]_vars PROVE FeedInv' /\ ShownInv'
    OBVIOUS
  <1>1. CASE FeedNext
    BY <1>1, NextFeedInv, NextShownInv
  <1>2. CASE ViewNext
    <2>1. UNCHANGED <<bridgeVars, hubVars, socketVars, tab>>
      BY <1>2 DEF ViewNext, Refresh, ListLoaded, Reply, Answered, Failed, Choose, feedVars
    <2>2. UNCHANGED <<clients, recent, due, dead, events, socketVars, tab>>
      BY <2>1 DEF hubVars
    <2>3. QED
      BY <2>1, <2>2, FeedFrame, ConsumerShows
  <1>3. CASE UNCHANGED vars
    BY <1>3, NextFeedInv, NextShownInv DEF vars
  <1>4. QED
    BY <1>1, <1>2, <1>3 DEF Next

LEMMA InitFeed == Init => FeedInv /\ ShownInv
  BY InitFeedInv, InitShownInv DEF Init

(* api.py:56-81 and 444: in every reachable state, what a connection        *)
(* carries, replay and tail together, is a run of the events without a gap  *)
(* or a repeat that reaches the last one or the one that is being sent; and *)
(* a socket whose hello failed is a client until the end of the next        *)
(* broadcast at most.                                                       *)
THEOREM HubServes == Spec => []HubServesClients
  <1>1. FeedInv => HubServesClients
    BY DEF FeedInv, HubServesClients
  <1>2. QED
    BY <1>1, InitFeed, NextFeed, PTL DEF Spec

-----------------------------------------------------------------------------
(* What is broadcast again was read by another consumer.                    *)

SourceSet == [message : 1..Len(Feed), place : Nat, consumer : Nat]
Read(source) ==
  /\ source.message <= position
  /\ source.message = position => source.place + Len(pending) <= Len(Feed[position])
SourceTypes == Len(sources) = Len(events) /\ sources \in Seq(SourceSet)
PendingIsRest ==
  pending # <<>> => position \in 1..Len(Feed) /\ Len(pending) <= Len(Feed[position])
SourcesAreRead ==
  \A n \in 1..Len(sources) :
    /\ sources[n].consumer <= consumers
    /\ sources[n].consumer = consumers /\ bridge # "down" => Read(sources[n])
SourcesDiffer ==
  \A m, n \in 1..Len(sources) : sources[m] = sources[n] => m = n
SourceInv == SourceTypes /\ PendingIsRest /\ SourcesAreRead /\ SourcesDiffer

LEMMA InitSourceInv == FeedInit => SourceInv
  <1> SUFFICES ASSUME FeedInit PROVE SourceInv
    OBVIOUS
  <1>1. <<>> \in Seq(SourceSet) /\ Len(<<>>) = 0
    BY EmptySeq
  <1>2. QED
    BY <1>1
       DEF FeedInit, SourceInv, SourceTypes, PendingIsRest, SourcesAreRead, SourcesDiffer

(* Steps that broadcast nothing, read nothing and start nothing.            *)
LEMMA SourceFrame ==
  ASSUME SourceInv, UNCHANGED <<position, consumers, events, sources>>,
         \/ UNCHANGED pending /\ (bridge = "down" => bridge' = "down")
         \/ pending' = <<>> /\ bridge' = "down"
  PROVE  SourceInv'
  BY DEF SourceInv, SourceTypes, PendingIsRest, SourcesAreRead, SourcesDiffer, Read

(* A new consumer has read nothing yet.                                     *)
LEMMA StartKeepsSources ==
  ASSUME FeedInv, SourceInv, StartConsumer, pending = <<>>
  PROVE  SourceInv'
  <1>1. /\ UNCHANGED <<events, sources, pending>> /\ consumers' = consumers + 1
        /\ consumers \in Nat
    BY DEF StartConsumer, FeedInv, Types
  <1>2. \A n \in 1..Len(sources) : sources[n].consumer \in Nat
    <2>1. \A n \in 1..Len(sources) : sources[n] \in SourceSet
      BY ElementOfSeq DEF SourceInv, SourceTypes
    <2>2. QED
      BY <2>1 DEF SourceSet
  <1>3. SourcesAreRead'
    BY <1>1, <1>2 DEF SourceInv, SourcesAreRead
  <1>4. QED
    BY <1>1, <1>3 DEF SourceInv, SourceTypes, PendingIsRest, SourcesDiffer

(* A message that is taken comes after all that its consumer has read.      *)
LEMMA TakeKeepsSources ==
  ASSUME FeedInv, SourceInv, Take
  PROVE  SourceInv'
  <1>1. /\ UNCHANGED <<consumers, bridge, events, sources>> /\ bridge = "running"
        /\ position' = position + 1 /\ pending' = Feed[position + 1]
        /\ position \in Nat /\ position + 1 \in 1..Len(Feed)
    <2>1. Len(Feed) \in Nat
      BY FeedAssumption, LenProperties
    <2>2. QED
      BY <2>1 DEF Take, hubVars, FeedInv, Types
  <1>2. Len(pending') \in Nat /\ Len(pending') = Len(Feed[position'])
    BY <1>1, FeedAssumption, ElementOfSeq, LenProperties
  <1>3. SourcesAreRead'
    <2> SUFFICES ASSUME NEW n \in 1..Len(sources)
                 PROVE  /\ sources[n].consumer <= consumers
                        /\ sources[n].consumer = consumers => Read(sources[n])'
      BY <1>1 DEF SourcesAreRead
    <2>1. sources[n].message \in Nat
      <3>1. sources[n] \in SourceSet
        BY ElementOfSeq DEF SourceInv, SourceTypes
      <3>2. QED
        BY <3>1 DEF SourceSet
    <2>2. /\ sources[n].consumer <= consumers
          /\ sources[n].consumer = consumers => sources[n].message <= position
      BY <1>1 DEF SourceInv, SourcesAreRead, Read
    <2>3. QED
      BY <1>1, <2>1, <2>2 DEF Read
  <1>4. QED
    BY <1>1, <1>2, <1>3 DEF SourceInv, SourceTypes, PendingIsRest, SourcesDiffer

(* What is broadcast now comes after what the same consumer has read.       *)
LEMMA BroadcastKeepsSources ==
  ASSUME FeedInv, SourceInv, Broadcast
  PROVE  SourceInv'
  <1> DEFINE size == Len(Feed[position])
  <1>1. /\ UNCHANGED <<position, consumers>> /\ bridge = "running"
        /\ sources' = Append(sources, Source) /\ pending' = Tail(pending) /\ pending # <<>>
        /\ consumers \in Nat /\ position \in 1..Len(Feed)
        /\ Len(Feed) \in Nat /\ size \in Nat /\ Len(pending) \in 1..size
        /\ Len(pending') = Len(pending) - 1
    <2>1. position \in 1..Len(Feed) /\ Len(pending) <= size /\ pending # <<>>
      BY DEF Broadcast, SourceInv, PendingIsRest
    <2>2. Feed[position] \in Seq(Events) /\ Len(Feed) \in Nat
      BY <2>1, FeedAssumption, ElementOfSeq, LenProperties
    <2>3. size \in Nat
      BY <2>2, LenProperties
    <2>4. pending \in Seq(Events) /\ Len(pending) \in Nat /\ Len(pending) # 0
      BY <2>1, LenProperties, EmptySeq DEF FeedInv, Types
    <2>5. Len(Tail(pending)) = Len(pending) - 1
      BY <2>1, <2>4, HeadTailProperties
    <2>6. QED
      BY <2>1, <2>2, <2>3, <2>4, <2>5 DEF Broadcast, FeedInv, Types
  <1>2. PICK now \in SourceSet :
          /\ now = Source /\ now.message = position /\ now.consumer = consumers
          /\ now.place = size + 1 - Len(pending)
    <2> DEFINE place == size + 1 - Len(pending)
    <2>1. place \in Nat
      BY <1>1
    <2>2. Source = [message |-> position, place |-> place, consumer |-> consumers]
      BY DEF Source
    <2> HIDE DEF place
    <2>3. Source \in SourceSet
      BY <1>1, <2>1, <2>2 DEF SourceSet
    <2>4. Source.message = position /\ Source.place = place /\ Source.consumer = consumers
      BY <2>2
    <2>5. QED
      BY <2>3, <2>4 DEF place
  <1>3. /\ Len(sources) \in Nat /\ sources' \in Seq(SourceSet) /\ Len(sources') = Len(sources) + 1
        /\ \A n \in 1..Len(sources) : sources'[n] = sources[n]
        /\ sources'[Len(sources) + 1] = now
    <2>1. sources \in Seq(SourceSet)
      BY DEF SourceInv, SourceTypes
    <2>2. QED
      BY <2>1, <1>1, <1>2, AppendProperties, LenProperties
  <1>4. Len(events') = Len(events) + 1 /\ Len(events) = Len(sources)
    <2>1. Head(pending) \in Events /\ events \in Seq(Events)
      BY <1>1, HeadTailProperties DEF FeedInv, Types
    <2>2. QED
      BY <2>1, AppendProperties DEF Broadcast, SourceInv, SourceTypes
  <1>5. ASSUME NEW n \in 1..Len(sources), NEW source, source = sources[n]
        PROVE  /\ source.consumer <= consumers /\ source # now
               /\ source.consumer = consumers => Read(source)'
    <2>1. source.consumer \in Nat /\ source.message \in Nat /\ source.place \in Nat
      <3>1. source \in SourceSet
        BY <1>5, ElementOfSeq DEF SourceInv, SourceTypes
      <3>2. QED
        BY <3>1 DEF SourceSet
    <2>2. /\ source.consumer <= consumers
          /\ source.consumer = consumers =>
               /\ source.message <= position
               /\ source.message = position => source.place + Len(pending) <= size
      BY <1>1, <1>5 DEF SourceInv, SourcesAreRead, Read
    <2>3. source # now
      BY <1>1, <1>2, <2>1, <2>2
    <2>4. source.consumer = consumers => Read(source)'
      BY <1>1, <2>1, <2>2 DEF Read
    <2>5. QED
      BY <2>2, <2>3, <2>4
  <1>6. now.consumer <= consumers /\ Read(now)'
    BY <1>1, <1>2 DEF Read
  <1>7. \A n \in 1..Len(sources') : n \in 1..Len(sources) \/ n = Len(sources) + 1
    BY <1>3
  <1>8. SourcesAreRead'
    <2> SUFFICES ASSUME NEW n \in 1..Len(sources'), NEW source, source = sources'[n]
                 PROVE  /\ source.consumer <= consumers
                        /\ source.consumer = consumers => Read(source)'
      BY <1>1 DEF SourcesAreRead, Read
    <2>1. CASE n \in 1..Len(sources)
      BY <2>1, <1>3, <1>5
    <2>2. CASE n = Len(sources) + 1
      BY <2>2, <1>3, <1>6
    <2>3. QED
      BY <2>1, <2>2, <1>7
  <1>9. SourcesDiffer'
    <2> SUFFICES ASSUME NEW m \in 1..Len(sources'), NEW n \in 1..Len(sources'),
                        sources'[m] = sources'[n]
                 PROVE  m = n
      BY DEF SourcesDiffer
    <2>1. CASE m \in 1..Len(sources) /\ n \in 1..Len(sources)
      BY <2>1, <1>3 DEF SourceInv, SourcesDiffer
    <2>2. CASE m = Len(sources) + 1 /\ n \in 1..Len(sources)
      BY <2>2, <1>3, <1>5
    <2>3. CASE n = Len(sources) + 1 /\ m \in 1..Len(sources)
      BY <2>3, <1>3, <1>5
    <2>4. QED
      BY <2>1, <2>2, <2>3, <1>7
  <1>10. PendingIsRest'
    BY <1>1 DEF PendingIsRest
  <1>11. QED
    BY <1>3, <1>4, <1>8, <1>9, <1>10 DEF SourceInv, SourceTypes

(* While no consumer runs, no message is half broadcast.                    *)
DownIsIdle == bridge = "down" => pending = <<>>

LEMMA NextSourceInv ==
  ASSUME FeedInv, SourceInv, DownIsIdle, [FeedNext]_feedVars
  PROVE  SourceInv' /\ DownIsIdle'
  <1>1. CASE StartConsumer
    BY <1>1, StartKeepsSources DEF StartConsumer, DownIsIdle
  <1>2. CASE Take
    BY <1>2, TakeKeepsSources DEF Take, DownIsIdle
  <1>3. CASE Broadcast
    <2>1. bridge' # "down"
      BY <1>3 DEF Broadcast
    <2>2. QED
      BY <1>3, <2>1, BroadcastKeepsSources DEF DownIsIdle
  <1>4. CASE ConsumerFails
    BY <1>4, SourceFrame DEF ConsumerFails, DownIsIdle
  <1>5. CASE Restart
    BY <1>5, SourceFrame DEF Restart, DownIsIdle
  <1>6. CASE EndBroadcast \/ \E s \in Sockets : SendTo(s) \/ Serve(s)
    <2>1. UNCHANGED <<position, consumers, events, sources, pending>>
          /\ (bridge' = bridge \/ (bridge = "sending" /\ bridge' = "running"))
      BY <1>6 DEF EndBroadcast, SendTo, Serve, Register, HelloFails, AcceptFails, Disconnected,
                  bridgeVars, hubVars
    <2>2. QED
      BY <2>1, SourceFrame DEF DownIsIdle
  <1>7. CASE \E t \in Tabs : Hook(t) \/ SocketBreaks(t) \/ Unmount(t)
    <2>1. UNCHANGED <<position, consumers, events, sources, pending, bridge>>
      BY <1>7 DEF Hook, Connect, Opened, Receive, Closed, SocketBreaks, Unmount, bridgeVars,
                  hubVars
    <2>2. QED
      BY <2>1, SourceFrame DEF DownIsIdle
  <1>8. CASE UNCHANGED feedVars
    <2>1. UNCHANGED <<position, consumers, events, sources, pending, bridge>>
      BY <1>8 DEF feedVars, bridgeVars, hubVars
    <2>2. QED
      BY <2>1, SourceFrame DEF DownIsIdle
  <1>9. QED
    BY <1>1, <1>2, <1>3, <1>4, <1>5, <1>6, <1>7, <1>8 DEF FeedNext, Hub

LEMMA NextSources ==
  FeedInv /\ SourceInv /\ DownIsIdle /\ [Next]_vars => SourceInv' /\ DownIsIdle'
  <1> SUFFICES ASSUME FeedInv, SourceInv, DownIsIdle, [Next]_vars
               PROVE  SourceInv' /\ DownIsIdle'
    OBVIOUS
  <1>1. CASE FeedNext
    BY <1>1, NextSourceInv
  <1>2. CASE ViewNext
    <2>1. UNCHANGED <<position, consumers, events, sources, pending, bridge>>
      BY <1>2 DEF ViewNext, Refresh, ListLoaded, Reply, Answered, Failed, Choose, feedVars,
                  bridgeVars, hubVars
    <2>2. QED
      BY <2>1, SourceFrame DEF DownIsIdle
  <1>3. CASE UNCHANGED vars
    BY <1>3, NextSourceInv DEF vars
  <1>4. QED
    BY <1>1, <1>2, <1>3 DEF Next

LEMMA InitSources == Init => SourceInv /\ DownIsIdle
  BY InitSourceInv DEF Init, FeedInit, DownIsIdle

(* In a list of broadcasts, a source occurs as often as its one broadcast.  *)
LEMMA TimesIsOccurs ==
  ASSUME SourcesDiffer, NEW entries \in Seq(1..Len(sources)), NEW number \in 1..Len(sources)
  PROVE  Times(sources[number], entries) = Occurs(number, entries)
  <1>1. \A k \in DOMAIN entries : entries[k] \in 1..Len(sources)
    BY ElementOfSeq, LenProperties
  <1>2. {k \in DOMAIN entries : sources[entries[k]] = sources[number]}
          = {k \in DOMAIN entries : entries[k] = number}
    BY <1>1 DEF SourcesDiffer
  <1>3. QED
    BY <1>2 DEF Times, Occurs

(* api.py:147-178 and api.ts:115-120: in every reachable state, a tab shows *)
(* what one consumer has read at most once for each hello: every other      *)
(* showing is a replay, or its message was read again by another consumer.  *)
THEOREM RepeatsAreExplained == Spec => []RepeatsHaveACause
  <1>1. ShownInv /\ SourceInv => RepeatsHaveACause
    <2> SUFFICES ASSUME ShownInv, SourceInv, NEW t \in Tabs, NEW source \in ToSet(sources)
                 PROVE  Shown(t, source) <= tab[t].hellos
      BY DEF RepeatsHaveACause
    <2>1. DOMAIN sources = 1..Len(sources) /\ Len(sources) = Len(events)
          /\ SourcesDiffer
      BY LenProperties DEF SourceInv, SourceTypes
    <2>2. PICK number \in 1..Len(sources) : source = sources[number]
      BY <2>1 DEF ToSet
    <2>3. /\ tab[t].segments \in Seq(1..Len(sources))
          /\ tab[t].signals \in Seq(1..Len(sources))
      BY <2>1 DEF ShownInv, Pages, Page
    <2>4. Showings(number, tab[t]) <= tab[t].hellos
      BY <2>2 DEF ShownInv, OncePerHello
    <2>5. QED
      BY <2>1, <2>2, <2>3, <2>4, TimesIsOccurs DEF Shown, Showings
  <1>2. QED
    BY <1>1, InitFeed, NextFeed, InitSources, NextSources, PTL DEF Spec

-----------------------------------------------------------------------------
(* Types: every call that the view meets is one of the feed or of the list. *)

CallsOf(message) == \A k \in 1..Len(message) : message[k].call \in Calls
KnownCalls == CallsOf(pending) /\ CallsOf(events)
Viewing ==
  /\ choice \in Calls \union {NoCall} /\ list \in {<<>>, Completed}
  /\ query.deps[1] \in Calls \union {NoCall}
  /\ \A request \in query.sent :
       request.path \in {Health} \union Calls /\ request.cancelled \in BOOLEAN
  /\ query.loading \in BOOLEAN /\ query.error \in BOOLEAN

TypeInv == FeedInv /\ ShownInv /\ SourceInv /\ DownIsIdle /\ IInv /\ KnownCalls /\ Viewing

LEMMA FeedCalls == ASSUME NEW k \in 1..Len(Feed) PROVE CallsOf(Feed[k])
  <1> SUFFICES ASSUME NEW j \in 1..Len(Feed[k]) PROVE Feed[k][j].call \in Calls
    BY DEF CallsOf
  <1>1. Feed \in Seq(Seq(Events))
    BY FeedAssumption
  <1>2. Feed[k] \in Seq(Events) /\ k \in DOMAIN Feed
    BY <1>1, ElementOfSeq, LenProperties
  <1>3. j \in DOMAIN Feed[k]
    BY <1>2, LenProperties
  <1>4. Feed[k] \in ToSet(Feed) /\ Feed[k][j] \in ToSet(Feed[k])
    BY <1>2, <1>3 DEF ToSet
  <1> DEFINE named == {{event.call : event \in ToSet(message)} : message \in ToSet(Feed)}
  <1>5. {event.call : event \in ToSet(Feed[k])} \in named
    BY <1>4
  <1>6. Feed[k][j].call \in {event.call : event \in ToSet(Feed[k])}
    BY <1>4
  <1> HIDE DEF named
  <1>7. Feed[k][j].call \in UNION named
    BY <1>5, <1>6
  <1>8. QED
    BY <1>7 DEF Calls, named

LEMMA CompletedCalls == ToSet(Completed) \subseteq Calls
  BY DEF Calls

(* A message is taken from the feed, an event from the message.             *)
LEMMA KnownStay == FeedInv /\ KnownCalls /\ [Next]_vars => KnownCalls'
  <1> SUFFICES ASSUME FeedInv, KnownCalls, [Next]_vars PROVE KnownCalls'
    OBVIOUS
  <1>1. CASE UNCHANGED <<pending, events>>
    BY <1>1 DEF KnownCalls, CallsOf
  <1>2. CASE Take
    <2>1. pending' = Feed[position + 1] /\ events' = events /\ position < Len(Feed)
      BY <1>2 DEF Take, hubVars
    <2>2. position + 1 \in 1..Len(Feed)
      BY <2>1 DEF FeedInv, Types
    <2>3. CallsOf(Feed[position + 1])
      BY <2>2, FeedCalls
    <2>4. QED
      BY <2>1, <2>3 DEF KnownCalls, CallsOf
  <1>3. CASE Broadcast
    <2>1. /\ pending # <<>> /\ events' = Append(events, Head(pending)) /\ pending' = Tail(pending)
      BY <1>3 DEF Broadcast
    <2>2. pending \in Seq(Events) /\ events \in Seq(Events)
      BY DEF FeedInv, Types
    <2>3. Head(pending) = pending[1] /\ 1 \in 1..Len(pending) /\ Head(pending) \in Events
      BY <2>1, <2>2
    <2>4. CallsOf(Tail(pending))
      <3>1. \A k \in 1..Len(Tail(pending)) :
              k + 1 \in 1..Len(pending) /\ Tail(pending)[k] = pending[k + 1]
        BY <2>1, <2>2
      <3>2. QED
        BY <3>1 DEF KnownCalls, CallsOf
    <2>5. CallsOf(Append(events, Head(pending)))
      <3>1. \A k \in 1..Len(Append(events, Head(pending))) :
              \/ k \in 1..Len(events) /\ Append(events, Head(pending))[k] = events[k]
              \/ Append(events, Head(pending))[k] = pending[1]
        BY <2>2, <2>3
      <3>2. QED
        BY <3>1, <2>3 DEF KnownCalls, CallsOf
    <2>6. QED
      BY <2>1, <2>4, <2>5 DEF KnownCalls, CallsOf
  <1>4. CASE Restart
    <2>1. pending' = <<>> /\ events' = events
      BY <1>4 DEF Restart
    <2>2. Len(<<>>) = 0
      BY EmptySeq
    <2>3. QED
      BY <2>1, <2>2 DEF KnownCalls, CallsOf
  <1>5. [Next]_vars => UNCHANGED <<pending, events>> \/ Take \/ Broadcast \/ Restart
    <2>1. StartConsumer \/ ConsumerFails \/ EndBroadcast => UNCHANGED <<pending, events>>
      BY DEF StartConsumer, ConsumerFails, EndBroadcast
    <2>2. \A s \in Sockets : SendTo(s) \/ Serve(s) => UNCHANGED <<pending, events>>
      BY DEF SendTo, Serve, Register, HelloFails, AcceptFails, Disconnected, bridgeVars, hubVars
    <2>3. \A t \in Tabs : Hook(t) \/ SocketBreaks(t) \/ Unmount(t) => UNCHANGED <<pending, events>>
      BY DEF Hook, Connect, Opened, Receive, Closed, SocketBreaks, Unmount, bridgeVars, hubVars
    <2>4. ViewNext => UNCHANGED <<pending, events>>
      BY DEF ViewNext, Refresh, ListLoaded, Reply, Answered, Failed, Choose, feedVars, bridgeVars,
             hubVars
    <2>5. UNCHANGED vars => UNCHANGED <<pending, events>>
      BY DEF vars, feedVars, bridgeVars, hubVars
    <2>6. QED
      BY <2>1, <2>2, <2>3, <2>4, <2>5 DEF Next, FeedNext, Hub
  <1>6. QED
    BY <1>1, <1>2, <1>3, <1>4, <1>5

(* What a render shows is the choice, a call of the feed, or the first of   *)
(* the list.                                                                *)
LEMMA Rendered ==
  ASSUME FeedInv, ShownInv, KnownCalls, Viewing
  PROVE  ActiveCall \in Calls \union {NoCall} /\ LiveCalls \subseteq Calls
  <1> DEFINE segments == tab[Viewer].segments
  <1>1. segments \in Seq(1..Len(events))
    BY ViewAssumption DEF ShownInv, Pages, Page
  <1> HIDE DEF segments
  <1>2. \A n \in 1..Len(events) : CallOf(n) \in Calls
    BY DEF KnownCalls, CallsOf, CallOf
  <1>3. ToSet(segments) \subseteq 1..Len(events)
    BY <1>1 DEF ToSet
  <1>4. LiveCalls \subseteq Calls
    BY <1>2, <1>3 DEF LiveCalls, segments
  <1>5. segments # <<>> => Last(segments) \in 1..Len(events)
    BY <1>1 DEF Last
  <1>6. list # <<>> => list[1] \in Calls
    <2> SUFFICES ASSUME list # <<>> PROVE list[1] \in Calls
      OBVIOUS
    <2>1. list = Completed /\ Completed \in Seq(STRING)
      BY ViewAssumption DEF Viewing
    <2>2. 1 \in DOMAIN Completed
      BY <2>1
    <2>3. QED
      BY <2>1, <2>2, CompletedCalls DEF ToSet
  <1>7. QED
    BY <1>2, <1>4, <1>5, <1>6 DEF ActiveCall, Viewing, segments

LEMMA ViewingStays == TypeInv /\ [Next]_vars => Viewing'
  <1> SUFFICES ASSUME TypeInv, [Next]_vars PROVE Viewing'
    OBVIOUS
  <1>1. /\ FeedInv /\ ShownInv /\ IInv /\ KnownCalls /\ Viewing
        /\ ActiveCall \in Calls \union {NoCall} /\ LiveCalls \subseteq Calls
    BY Rendered DEF TypeInv
  <1>2. CASE UNCHANGED viewVars
    BY <1>1, <1>2 DEF Viewing, viewVars
  <1>3. CASE Refresh
    <2>1. query' = [query EXCEPT !.deps = Deps, !.loading = TRUE, !.error = FALSE,
                      !.sent = {[request EXCEPT !.cancelled = TRUE] : request \in @}
                                 \union {Request(Path(Deps))}]
          /\ UNCHANGED <<choice, list>>
      BY <1>3 DEF Refresh
    <2>2. /\ query'.deps = Deps /\ query'.loading = TRUE /\ query'.error = FALSE
          /\ query'.sent = {[request EXCEPT !.cancelled = TRUE] : request \in query.sent}
                             \union {Request(Path(Deps))}
      BY <2>1, <1>1 DEF IInv, Asking
    <2>3. Deps[1] = ActiveCall /\ Path(Deps) \in {Health} \union Calls
      BY <1>1 DEF Deps, Path
    <2>4. ASSUME NEW request \in query'.sent
          PROVE  request.path \in {Health} \union Calls /\ request.cancelled \in BOOLEAN
      <3>1. CASE request = Request(Path(Deps))
        BY <3>1, <2>3 DEF Request
      <3>2. CASE \E old \in query.sent : request = [old EXCEPT !.cancelled = TRUE]
        BY <3>2, <1>1 DEF IInv, Asking, Viewing
      <3>3. QED
        BY <2>2, <2>4, <3>1, <3>2
    <2>5. QED
      BY <1>1, <2>1, <2>2, <2>3, <2>4 DEF Viewing
  <1>4. CASE Reply
    <2>1. PICK request \in query.sent : Answered(request) \/ Failed(request)
      BY <1>4 DEF Reply
    <2>2. /\ query'.deps = query.deps /\ query'.sent = query.sent \ {request}
          /\ query'.loading \in BOOLEAN /\ query'.error \in BOOLEAN
          /\ UNCHANGED <<choice, list>>
      BY <1>1, <2>1 DEF Answered, Failed, IInv, Asking, Viewing
    <2>3. QED
      BY <1>1, <2>2 DEF Viewing
  <1>5. CASE ListLoaded
    BY <1>1, <1>5 DEF ListLoaded, Viewing
  <1>6. CASE \E call \in LiveCalls \union ToSet(list) \union {NoCall} : Choose(call)
    <2>1. ToSet(list) \subseteq Calls
      <3>1. ToSet(<<>>) = {}
        BY EmptySeq DEF ToSet
      <3>2. QED
        BY <1>1, <3>1, CompletedCalls DEF Viewing
    <2>2. QED
      BY <1>1, <1>6, <2>1 DEF Choose, Viewing
  <1>7. QED
    BY <1>2, <1>3, <1>4, <1>5, <1>6 DEF Next, ViewNext, vars

(* api.py, api.ts and LiveCall.tsx: in every reachable state, what the hub  *)
(* and the tabs hold is within its limits, and a request that is on its way *)
(* asks for the health of the API or for a call that the feed or the list   *)
(* has named.                                                               *)
THEOREM TypeCorrect == Spec => []TypeOK
  <1>1. Init => TypeInv
    <2>1. Init => KnownCalls
      BY EmptySeq DEF Init, FeedInit, KnownCalls, CallsOf
    <2>2. ASSUME Init PROVE Viewing
      <3>1. /\ choice = NoCall /\ list = <<>>
            /\ query.deps = <<NoCall, FALSE>> /\ query.sent = {Request(Health)}
            /\ query.loading = TRUE /\ query.error = FALSE
        BY <2>2 DEF Init
      <3>2. query.deps[1] = NoCall
        BY <3>1
      <3>3. Request(Health).path = Health /\ Request(Health).cancelled = FALSE
        BY DEF Request
      <3>4. QED
        BY <3>1, <3>2, <3>3 DEF Viewing
    <2>3. QED
      BY <2>1, <2>2, InitFeed, InitSources, InitIInv DEF TypeInv
  <1>2. TypeInv /\ [Next]_vars => TypeInv'
    BY NextFeed, NextSources, NextIInv, KnownStay, ViewingStays DEF TypeInv
  <1>3. TypeInv => TypeOK
    <2> SUFFICES ASSUME TypeInv PROVE TypeOK
      OBVIOUS
    <2>1. FeedTypeOK
      BY DEF TypeInv, FeedInv, Types, Views, ShownInv, RecentIsBounded, Pages, Page, SourceInv,
             SourceTypes, FeedTypeOK
    <2>2. query.sent \subseteq [path : {Health} \union Calls, cancelled : BOOLEAN]
      BY DEF TypeInv, IInv, Asking, Viewing
    <2>3. QED
      BY <2>1, <2>2 DEF TypeOK, TypeInv, Viewing
  <1>4. QED
    BY <1>1, <1>2, <1>3, PTL DEF Spec
=============================================================================
