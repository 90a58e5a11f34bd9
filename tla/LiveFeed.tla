------------------------------- MODULE LiveFeed -------------------------------
(***************************************************************************)
(* The live feed of the portal: the bridge from Kafka and the Hub of the   *)
(* read API (services/sink/sink/api.py), the web sockets between them and  *)
(* the browsers, and useLiveFeed in every open tab (portal/src/api.ts).    *)
(*                                                                         *)
(* Everything in the API runs on one event loop: what lies between two     *)
(* awaits is one step.  A socket carries messages in order and may break   *)
(* at any time, which its two ends notice each in its own time; what was   *)
(* on its way is lost.  A broadcast is named by its place among all that   *)
(* there were, and remembers the event of the topics it was made from: a   *)
(* consumer that goes on at an older offset broadcasts an event again.  A  *)
(* socket that both ends are done with is used for a later connection,     *)
(* which keeps the model finite.                                           *)
(***************************************************************************)
EXTENDS Naturals, Sequences, FiniteSets, SequencesExt

CONSTANTS
  Tabs,          (* open pages that use the feed                            *)
  Feed,          (* messages of the two topics, each a sequence of events   *)
  ReplayBuffer,  (* REPLAY_BUFFER                                           *)
  MaxShown,      (* MAX_SEGMENTS, MAX_SIGNALS                               *)
  MaxSockets,    (* connections at a time, those that are forgotten too     *)
  Courses        (* tabs that are opened and what may happen to them: how   *)
                 (* many messages come, sockets break, brokers fail, APIs   *)
                 (* restart, tabs are left, calls are chosen                *)

Happenings == {"messages", "breaks", "failures", "restarts", "leaves", "choices"}

(* What is broadcast, as far as the tabs can tell.                          *)
Events == [call : STRING, kind : STRING]

ASSUME FeedAssumption ==
  /\ Feed \in Seq(Seq(Events))
  /\ ReplayBuffer \in Nat \ {0} /\ MaxShown \in Nat \ {0} /\ MaxSockets \in Nat
  /\ \A course \in Courses :
       course.open \subseteq Tabs /\ course.left \in [Happenings -> Nat]

Sockets == 1..MaxSockets
None == 0

VARIABLES
  position,   (* messages the bridge has taken or skipped                   *)
  group,      (* of this process: has it committed, and what at least       *)
  consumers,  (* consumers that were started                                *)
  bridge,     (* "down", "running", "sending"                               *)
  kafka,      (* hub.kafka_connected                                        *)
  pending,    (* events of the message that are not broadcast yet           *)
  clients,    (* hub.clients                                                *)
  recent,     (* hub.recent                                                 *)
  due,        (* clients a broadcast has still to reach                     *)
  dead,       (* clients it could not reach                                 *)
  events,     (* all that was broadcast, in order                           *)
  sources,    (* of each: its message, its place there, who read it         *)
  handler,    (* of each socket: where live() is                            *)
  broken,     (* sockets that are closed or broken                          *)
  log,        (* of each socket: what the hub sent on it                    *)
  heard,      (* of each socket: how much of that the tab received          *)
  since,      (* of each abandoned socket: events broadcast by then         *)
  tab,        (* of each tab: the state of its hook                         *)
  left        (* happenings that are left                                   *)

hubVars == <<clients, recent, due, dead, events, sources, kafka>>
bridgeVars == <<position, group, consumers, bridge, pending>>
socketVars == <<handler, broken, log, heard, since>>
feedVars == <<bridgeVars, hubVars, socketVars, tab, left>>

Event(call, kind) == [call |-> call, kind |-> kind]

Blank(open) ==
  [mounted |-> open, connected |-> FALSE, kafka |-> FALSE, socket |-> None, timer |-> open,
   segments |-> <<>>, signals |-> <<>>, hellos |-> 0]

FeedTypeOK ==
  /\ position \in 0..Len(Feed) /\ consumers \in Nat
  /\ bridge \in {"down", "running", "sending"} /\ kafka \in BOOLEAN
  /\ clients \subseteq Sockets /\ due \subseteq Sockets /\ dead \subseteq Sockets
  /\ handler \in [Sockets -> {"none", "reading", "abandoned", "ended"}]
  /\ broken \subseteq Sockets
  /\ Len(recent) <= ReplayBuffer /\ Len(sources) = Len(events)
  /\ \A t \in Tabs : tab[t].socket \in Sockets \union {None}
                     /\ Len(tab[t].segments) <= MaxShown /\ Len(tab[t].signals) <= MaxShown

FeedInit ==
  /\ position = 0 /\ group = [committed |-> FALSE, offset |-> 0]
  /\ consumers = 0 /\ bridge = "down" /\ pending = <<>>
  /\ kafka = FALSE /\ clients = {} /\ recent = <<>> /\ due = {} /\ dead = {}
  /\ events = <<>> /\ sources = <<>>
  /\ handler = [s \in Sockets |-> "none"] /\ broken = {}
  /\ log = [s \in Sockets |-> <<>>] /\ heard = [s \in Sockets |-> 0]
  /\ since = [s \in Sockets |-> 0]
  /\ \E course \in Courses :
       /\ tab = [t \in Tabs |-> Blank(t \in course.open)]
       /\ left = course.left

Happens(what) ==
  /\ left[what] > 0
  /\ left' = [left EXCEPT ![what] = @ - 1]
Held(s) == \E t \in Tabs : tab[t].socket = s
Break(sockets) ==
  /\ broken' = broken \union sockets
  /\ log' = [s \in Sockets |-> IF s \in sockets THEN <<>> ELSE log[s]]
  /\ heard' = [s \in Sockets |-> IF s \in sockets THEN 0 ELSE heard[s]]
(* live() is over for these sockets.                                        *)
End(sockets) ==
  /\ handler' = [s \in Sockets |-> IF s \notin sockets THEN handler[s]
                                   ELSE IF Held(s) THEN "ended" ELSE "none"]
  /\ broken' = {s \in broken : s \in sockets => Held(s)}
  /\ since' = [s \in Sockets |-> IF s \in sockets THEN 0 ELSE since[s]]
(* Mutant of LastOf: nothing is cut.                                        *)
AllOf(n, s) == s

LastOf(n, s) == SubSeq(s, IF Len(s) > n THEN Len(s) + 1 - n ELSE 1, Len(s))

-----------------------------------------------------------------------------
(* consume_kafka.                                                           *)

(* A group that has committed nothing starts at the end of the topics,      *)
(* which skips the messages until then; any other goes on where it has      *)
(* committed, and reads again what came after that.                         *)
StartConsumer ==
  /\ bridge = "down"
  /\ bridge' = "running" /\ kafka' = TRUE
  /\ consumers' = consumers + 1
  /\ position' \in IF group.committed THEN {group.offset} ELSE position..Len(Feed)
  /\ group' = [group EXCEPT !.offset = position']
  /\ UNCHANGED <<pending, clients, recent, due, dead, events, sources, socketVars, tab, left>>

(* The timer, or the end of the consumer, has committed one of the offsets  *)
(* since its last commit, or none.                                          *)
Committed ==
  \/ UNCHANGED group
  \/ \E offset \in group.offset..position : group' = [committed |-> TRUE, offset |-> offset]

(* The consumer raises between two messages and the flag is cleared.        *)
ConsumerFails ==
  /\ bridge = "running" /\ pending = <<>>
  /\ Happens("failures")
  /\ bridge' = "down" /\ kafka' = FALSE
  /\ Committed
  /\ UNCHANGED <<position, consumers, pending, clients, recent, due, dead, events, sources, socketVars, tab>>

(* A message has come.                                                      *)
Take ==
  /\ bridge = "running" /\ pending = <<>> /\ position < Len(Feed)
  /\ Happens("messages")
  /\ position' = position + 1
  /\ pending' = Feed[position + 1]
  /\ UNCHANGED <<group, consumers, bridge, hubVars, socketVars, tab>>

(* The event that is broadcast next: which one of which message, and the    *)
(* consumer that read it.                                                   *)
Source ==
  [message |-> position, place |-> Len(Feed[position]) + 1 - Len(pending),
   consumer |-> consumers]

(* broadcast, up to its first await: the event is kept for replay and the   *)
(* clients of this moment are to get it.                                    *)
Broadcast ==
  /\ bridge = "running" /\ pending # <<>>
  /\ events' = Append(events, Head(pending)) /\ sources' = Append(sources, Source)
  /\ recent' = LastOf(ReplayBuffer, Append(recent, Len(events) + 1))
  /\ pending' = Tail(pending)
  /\ due' = clients
  /\ bridge' = IF clients = {} THEN "running" ELSE "sending"
  /\ UNCHANGED <<position, group, consumers, clients, dead, kafka, socketVars, tab, left>>

(* One send_text: it raises when the API knows that the socket is gone.     *)
SendTo(s) ==
  /\ bridge = "sending" /\ s \in due
  /\ due' = due \ {s}
  /\ \/ /\ handler[s] = "reading"
        /\ log' = [log EXCEPT ![s] =
                     IF s \in broken THEN @
                     ELSE Append(@, [type |-> "event", number |-> Len(events)])]
        /\ UNCHANGED dead
     \/ /\ s \in broken \/ handler[s] # "reading"
        /\ dead' = dead \union {s}
        /\ UNCHANGED log
  /\ UNCHANGED <<bridgeVars, clients, recent, events, sources, kafka, handler, broken, heard,
                 since, tab, left>>

(* Mutant of EndBroadcast: the sockets that failed stay.                    *)
EndBroadcastKeeping ==
  /\ bridge = "sending" /\ due = {}
  /\ dead' = {}
  /\ bridge' = "running"
  /\ UNCHANGED <<position, group, consumers, pending, clients, recent, due, events, sources,
                 kafka, socketVars, tab, left>>

EndBroadcast ==
  /\ bridge = "sending" /\ due = {}
  /\ clients' = clients \ dead /\ dead' = {}
  /\ bridge' = "running"
  /\ End({s \in dead : handler[s] = "abandoned"})
  /\ UNCHANGED <<position, group, consumers, pending, recent, due, events, sources, kafka, log,
                 heard, tab, left>>

-----------------------------------------------------------------------------
(* live and Hub.register.                                                   *)

Asked(s) == handler[s] = "none" /\ Held(s)

(* The socket joins the clients and gets its replay without an await in     *)
(* between.                                                                 *)
Register(s) ==
  /\ Asked(s) /\ s \notin broken
  /\ clients' = clients \union {s}
  /\ log' = [log EXCEPT ![s] = <<[type |-> "hello", kafka |-> kafka, replay |-> recent]>>]
  /\ handler' = [handler EXCEPT ![s] = "reading"]
  /\ UNCHANGED <<bridgeVars, recent, due, dead, events, sources, kafka, broken, heard, since, tab,
                 left>>

(* The hello cannot be sent: register raises outside the try of live, which *)
(* leaves the socket among the clients.                                     *)
HelloFails(s) ==
  /\ handler[s] = "none" /\ s \in broken
  /\ clients' = clients \union {s}
  /\ since' = [since EXCEPT ![s] = Len(events)]
  /\ handler' = [handler EXCEPT ![s] = "abandoned"]
  /\ UNCHANGED <<bridgeVars, recent, due, dead, events, sources, kafka, broken, log, heard, tab,
                 left>>

(* Or the browser went away before accept.                                  *)
AcceptFails(s) ==
  /\ handler[s] = "none" /\ s \in broken
  /\ End({s})
  /\ UNCHANGED <<bridgeVars, hubVars, log, heard, tab, left>>

Disconnected(s) ==
  /\ handler[s] = "reading" /\ s \in broken
  /\ clients' = clients \ {s}
  /\ End({s})
  /\ UNCHANGED <<bridgeVars, recent, due, dead, events, sources, kafka, log, heard, tab, left>>

(* The API is restarted: an empty hub, no sockets, and a new group unless   *)
(* the process has the number of the one before it, as the first process of *)
(* a container has.                                                         *)
Restart ==
  /\ Happens("restarts")
  /\ bridge' = "down" /\ kafka' = FALSE /\ pending' = <<>>
  /\ group' = [group EXCEPT !.committed = FALSE] \/ Committed
  /\ clients' = {} /\ recent' = <<>> /\ due' = {} /\ dead' = {}
  /\ broken' = {s \in Sockets : Held(s)}
  /\ handler' = [s \in Sockets |-> IF Held(s) THEN "ended" ELSE "none"]
  /\ log' = [s \in Sockets |-> <<>>]
  /\ heard' = [s \in Sockets |-> 0] /\ since' = [s \in Sockets |-> 0]
  /\ UNCHANGED <<position, consumers, events, sources, tab>>

-----------------------------------------------------------------------------
(* useLiveFeed.                                                             *)

(* Mutant of Apply: a signal is listed with the segments as well.           *)
ApplyToBoth(view, number) ==
  LET kind == events[number].kind
      with == [view EXCEPT !.segments = LastOf(MaxShown, Append(@, number))]
  IN CASE kind = "segment" -> with
       [] kind = "signal" -> [with EXCEPT !.signals = LastOf(MaxShown, Append(@, number))]
       [] OTHER -> view

(* apply: final segments and signals, the latest MaxShown of each.          *)
Apply(view, number) ==
  LET kind == events[number].kind
  IN CASE kind = "segment" -> [view EXCEPT !.segments = LastOf(MaxShown, Append(@, number))]
       [] kind = "signal" -> [view EXCEPT !.signals = LastOf(MaxShown, Append(@, number))]
       [] OTHER -> view

(* replay.forEach(apply): the view after the first k of the replay.         *)
Replayed(view, replay) ==
  LET after[k \in 0..Len(replay)] == IF k = 0 THEN view ELSE Apply(after[k - 1], replay[k])
  IN after[Len(replay)]

Received(view, message) ==
  IF message.type = "event" THEN Apply(view, message.number)
  ELSE LET after == Replayed(view, message.replay)
       IN [view EXCEPT !.kafka = message.kafka, !.hellos = @ + 1,
                       !.segments = after.segments, !.signals = after.signals]

Free ==
  {s \in Sockets :
     handler[s] = "none" /\ ~Held(s) /\ s \notin broken \union clients \union due \union dead}

Connect(t) ==
  /\ tab[t].timer /\ tab[t].mounted
  /\ \E s \in Free :
       /\ \A other \in Free : s <= other
       /\ tab' = [tab EXCEPT ![t].socket = s, ![t].timer = FALSE]
  /\ UNCHANGED <<bridgeVars, hubVars, socketVars, left>>

Opened(t) ==
  LET s == tab[t].socket
  IN /\ s # None /\ ~tab[t].connected /\ handler[s] = "reading" /\ s \notin broken
     /\ tab' = [tab EXCEPT ![t].connected = TRUE]
     /\ UNCHANGED <<bridgeVars, hubVars, socketVars, left>>

Receive(t) ==
  LET s == tab[t].socket
  IN /\ s # None /\ tab[t].connected /\ s \notin broken /\ heard[s] < Len(log[s])
     /\ heard' = [heard EXCEPT ![s] = @ + 1]
     /\ tab' = [tab EXCEPT ![t] = Received(@, log[s][heard[s] + 1])]
     /\ UNCHANGED <<bridgeVars, hubVars, handler, broken, log, since, left>>

(* The network or the API breaks the socket of a tab.                       *)
SocketBreaks(t) ==
  /\ Happens("breaks")
  /\ tab[t].socket # None /\ tab[t].socket \notin broken
  /\ Break({tab[t].socket})
  /\ UNCHANGED <<bridgeVars, hubVars, handler, since, tab>>

(* Mutant of Closed: nothing connects again.                                *)
ClosedForGood(t) ==
  /\ tab[t].socket # None /\ tab[t].socket \in broken
  /\ tab' = [tab EXCEPT ![t].connected = FALSE, ![t].socket = None]
  /\ UNCHANGED <<bridgeVars, hubVars, socketVars, left>>

(* onclose: a tab that is still open sets a timer to connect again.         *)
Closed(t) ==
  /\ tab[t].socket # None /\ tab[t].socket \in broken
  /\ tab' = [tab EXCEPT ![t].connected = FALSE, ![t].socket = None,
                        ![t].timer = tab[t].mounted]
  /\ LET over == {s \in {tab[t].socket} : handler[s] = "ended"}
     IN /\ handler' = [s \in Sockets |-> IF s \in over THEN "none" ELSE handler[s]]
        /\ broken' = broken \ over
  /\ UNCHANGED <<bridgeVars, hubVars, log, heard, since, left>>

(* The cleanup of the effect: the tab goes to another page.                 *)
Unmount(t) ==
  /\ tab[t].mounted /\ Happens("leaves")
  /\ tab' = [tab EXCEPT ![t].mounted = FALSE, ![t].timer = FALSE]
  /\ Break({tab[t].socket} \ {None})
  /\ UNCHANGED <<bridgeVars, hubVars, handler, since>>

Hub ==
  \/ StartConsumer \/ Broadcast \/ EndBroadcast
  \/ \E s \in Sockets : SendTo(s)
Serve(s) == Register(s) \/ HelloFails(s) \/ AcceptFails(s) \/ Disconnected(s)
Hook(t) == Connect(t) \/ Opened(t) \/ Receive(t) \/ Closed(t)

FeedNext ==
  \/ Take \/ ConsumerFails \/ Restart
  \/ Hub
  \/ \E s \in Sockets : Serve(s)
  \/ \E t \in Tabs : Hook(t) \/ SocketBreaks(t) \/ Unmount(t)

(* The event loops of the API and of the tabs run; nobody owes a message.   *)
FeedFairness ==
  /\ WF_feedVars(Hub)
  /\ \A s \in Sockets : WF_feedVars(Serve(s))
  /\ \A t \in Tabs : WF_feedVars(Hook(t))

-----------------------------------------------------------------------------
(* Properties.                                                              *)

(* What a socket carries is the events from first to last: a hello with a   *)
(* replay, then one message for each event after it.                        *)
Carries(s, first, last) ==
  /\ log[s] # <<>> /\ log[s][1].type = "hello"
  /\ LET replay == log[s][1].replay
     IN /\ Len(replay) + Len(log[s]) - 1 = last + 1 - first
        /\ \A k \in 1..Len(replay) : replay[k] = first + k - 1
        /\ \A k \in 2..Len(log[s]) :
             /\ log[s][k].type = "event"
             /\ log[s][k].number = first + Len(replay) + k - 2

(* The last event, or the one before it while that is being sent.           *)
LastSent(s) == Len(events) - IF s \in due THEN 1 ELSE 0

(* api.py:56-81: what a connection carries, replay and tail together, is a  *)
(* run of the events without a gap or a repeat, up to the last one or the   *)
(* one that is being sent, however registration and broadcasts interleave.  *)
ReplayMeetsTail ==
  \A s \in clients :
    handler[s] = "reading" /\ s \notin broken =>
      \E first \in 1..(LastSent(s) + 1) : Carries(s, first, LastSent(s))

(* api.py:147-178 and api.ts:115-120: a tab shows an event of the topics    *)
(* again only because a new connection replays it or because the bridge,    *)
(* started again where its group had committed, has read its message again: *)
(* what one consumer has read is shown at most once for each hello.         *)
Times(source, list) == Cardinality({k \in DOMAIN list : sources[list[k]] = source})
Shown(t, source) == Times(source, tab[t].segments) + Times(source, tab[t].signals)
RepeatsHaveACause ==
  \A t \in Tabs : \A source \in ToSet(sources) : Shown(t, source) <= tab[t].hellos

(* api.py:58-64 and 444: a socket whose hello failed stays among the        *)
(* clients, until the end of the next broadcast and no longer.              *)
BrokenHelloIsSwept ==
  \A s \in clients :
    handler[s] = "abandoned" =>
      Len(events) = since[s] \/ (bridge = "sending" /\ s \in due \union dead)

(* What the hub does for its clients, whole and broken.                     *)
HubServesClients == ReplayMeetsTail /\ BrokenHelloIsSwept

Numbers(message) == IF message.type = "hello" THEN message.replay ELSE <<message.number>>
Carried(s) == FlattenSeq([k \in DOMAIN log[s] |-> Numbers(log[s][k])])

(* api.ts:60-64: a tab that is left open has a working feed in the end, and *)
(* has received whatever the hub still remembers.                           *)
CaughtUp(t) ==
  LET s == tab[t].socket
  IN /\ tab[t].connected /\ s \notin broken
     /\ heard[s] = Len(log[s])
     /\ recent # <<>> => Last(recent) \in ToSet(Carried(s))
OpenTabCatchesUp == \A t \in Tabs : []<>(CaughtUp(t) \/ ~tab[t].mounted)
=============================================================================
