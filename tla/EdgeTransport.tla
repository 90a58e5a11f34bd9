---------------------------- MODULE EdgeTransport ----------------------------
(***************************************************************************)
(* The edge agent's WebSocketTransport (edge_agent/transport.py) with the  *)
(* main thread that feeds it (edge_agent/main.py, pipeline._emit) and the  *)
(* network and ingest as it sees them.                                     *)
(*                                                                         *)
(* Two threads share a bounded queue: the pipeline's thread puts encoded   *)
(* segments, the transport's thread connects, pumps and reconnects.  A     *)
(* connection that dies takes an arbitrary part of what was on the wire,   *)
(* and the client notices at its next send.  A throttle message with which *)
(* ingest refuses a segment changes nothing here: the client never reads.  *)
(***************************************************************************)
EXTENDS Integers, Sequences, FiniteSets, SequencesExt

CONSTANTS
  NSegs,        (* segments the pipeline emits, numbered in emission order  *)
  Finals,       (* the numbers of the final ones                            *)
  MaxQueue,     (* max_queue                                                *)
  OnFull,       (* on_full: "block" or "drop_partials"                      *)
  MaxConnects,  (* bound: connections made; the last one does not break     *)
  MayAbandon    (* whether a run explores timeouts of wait_ready and join   *)

Segs == 1..NSegs
Conns == 1..MaxConnects
Stop == 0       \* the None that close() puts
Nothing == -1   \* the pump thread holds no item

ASSUME EdgeTransportAssumption ==
  /\ NSegs \in Nat /\ MaxQueue \in Nat \ {0} /\ MaxConnects \in Nat \ {0}
  /\ Finals \subseteq Segs
  /\ OnFull \in {"block", "drop_partials"}
  /\ MayAbandon \in BOOLEAN

VARIABLES
  main,       (* the main thread: "waiting", "emitting", "closing",         *)
              (* "joining", "returned", "aborted"                           *)
  emitted,    (* segments handed to send() so far                           *)
  outbox,     (* self._q                                                    *)
  closed,     (* self._closed                                               *)
  ready,      (* self._ready                                                *)
  error,      (* self._error is not None                                    *)
  thread,     (* "connecting", "pumping", "sleeping", "ended"               *)
  item,       (* the item _pump took off the queue                          *)
  sent,       (* segments whose ws.send returned (self._sent)               *)
  via,        (* history: the connection each segment was handed to, or 0   *)
  conn,       (* number of the last connection made                         *)
  alive,      (* whether each connection can still carry frames             *)
  wire,       (* frames sent on each connection, not yet read by ingest     *)
  received,   (* what the handlers of ingest read, in that order            *)
  dropped     (* partials dropped at a full queue (self._dropped)           *)

queueVars == <<outbox, dropped>>
threadVars == <<thread, item, sent, via, ready, error>>
netVars == <<conn, alive, wire>>
vars == <<main, emitted, queueVars, closed, threadVars, netVars, received>>

TypeOK ==
  /\ main \in {"waiting", "emitting", "closing", "joining", "returned", "aborted"}
  /\ emitted \in 0..NSegs
  /\ outbox \in Seq(Segs \cup {Stop}) /\ Len(outbox) <= MaxQueue
  /\ closed \in BOOLEAN /\ ready \in BOOLEAN /\ error \in BOOLEAN
  /\ thread \in {"connecting", "pumping", "sleeping", "ended"}
  /\ item \in Segs \cup {Stop, Nothing}
  /\ sent \subseteq Segs
  /\ via \in [Segs -> 0..MaxConnects]
  /\ conn \in 0..MaxConnects
  /\ alive \in [Conns -> BOOLEAN]
  /\ wire \in [Conns -> Seq(Segs)]
  /\ received \in Seq(Segs)
  /\ dropped \subseteq Segs

Init ==
  /\ main = "waiting"
  /\ emitted = 0
  /\ outbox = <<>>
  /\ closed = FALSE
  /\ ready = FALSE
  /\ error = FALSE
  /\ thread = "connecting"
  /\ item = Nothing
  /\ sent = {}
  /\ via = [s \in Segs |-> 0]
  /\ conn = 0
  /\ alive = [c \in Conns |-> FALSE]
  /\ wire = [c \in Conns |-> <<>>]
  /\ received = <<>>
  /\ dropped = {}

-----------------------------------------------------------------------------
(* The main thread.  When it has returned or aborted the process ends, and  *)
(* the daemon thread with it.                                               *)

Running == main \notin {"returned", "aborted"}
HasRoom == Len(outbox) < MaxQueue

(* wait_ready: the event is set and no earlier attempt left an exception.   *)
WaitReady ==
  /\ main = "waiting"
  /\ ready
  /\ ~error
  /\ main' = "emitting"
  /\ UNCHANGED <<emitted, queueVars, closed, threadVars, netVars, received>>

(* wait_ready raises: TimeoutError, or the exception of an earlier attempt  *)
(* even if a later one connected.                                           *)
WaitReadyRaises ==
  /\ main = "waiting"
  /\ (ready /\ error) \/ (~ready /\ MayAbandon)
  /\ main' = "aborted"
  /\ UNCHANGED <<emitted, queueVars, closed, threadVars, netVars, received>>

(* Mutant of Put: no bound.                                                 *)
PutUnbounded ==
  /\ main = "emitting"
  /\ emitted < NSegs
  /\ emitted' = emitted + 1
  /\ outbox' = Append(outbox, emitted + 1)
  /\ UNCHANGED <<main, dropped, closed, threadVars, netVars, received>>

(* send: the next segment goes on the queue ...                             *)
Put ==
  /\ main = "emitting"
  /\ emitted < NSegs
  /\ HasRoom
  /\ emitted' = emitted + 1
  /\ outbox' = Append(outbox, emitted + 1)
  /\ UNCHANGED <<main, dropped, closed, threadVars, netVars, received>>

(* ... or, for a partial under "drop_partials", is dropped at a full queue; *)
(* otherwise q.put blocks and there is no step.                             *)
DropPartial ==
  /\ main = "emitting"
  /\ emitted < NSegs
  /\ ~HasRoom
  /\ OnFull = "drop_partials"
  /\ emitted + 1 \notin Finals
  /\ emitted' = emitted + 1
  /\ dropped' = dropped \cup {emitted + 1}
  /\ UNCHANGED <<main, outbox, closed, threadVars, netVars, received>>

(* The pipeline ends -- or raises -- and main's finally calls close().      *)
StartClose ==
  /\ main = "emitting"
  /\ main' = "closing"
  /\ UNCHANGED <<emitted, queueVars, closed, threadVars, netVars, received>>

(* close: self._q.put(None), which waits for room.                          *)
PutStop ==
  /\ main = "closing"
  /\ HasRoom
  /\ outbox' = Append(outbox, Stop)
  /\ main' = "joining"
  /\ UNCHANGED <<emitted, dropped, closed, threadVars, netVars, received>>

(* close: join(timeout=drain_timeout) ends, _closed is set, main returns.   *)
Join ==
  /\ main = "joining"
  /\ thread = "ended" \/ MayAbandon
  /\ closed' = TRUE
  /\ main' = "returned"
  /\ UNCHANGED <<emitted, queueVars, threadVars, netVars, received>>

-----------------------------------------------------------------------------
(* The transport thread.                                                    *)

Connect ==
  /\ Running
  /\ thread = "connecting"
  /\ ~closed
  /\ conn < MaxConnects
  /\ conn' = conn + 1
  /\ alive' = [alive EXCEPT ![conn + 1] = TRUE]
  /\ ready' = TRUE
  /\ thread' = "pumping"
  /\ UNCHANGED <<main, emitted, queueVars, closed, item, sent, via, error, wire, received>>

(* connect raises: keep the exception and back off.                         *)
ConnectFails ==
  /\ Running
  /\ thread = "connecting"
  /\ ~closed
  /\ error' = TRUE
  /\ thread' = "sleeping"
  /\ UNCHANGED <<main, emitted, queueVars, closed, item, sent, via, ready, netVars, received>>

Wake ==
  /\ Running
  /\ thread = "sleeping"
  /\ thread' = "connecting"
  /\ UNCHANGED <<main, emitted, queueVars, closed, item, sent, via, ready, error, netVars, received>>

(* _pump: item = self._q.get().                                             *)
Get ==
  /\ Running
  /\ thread = "pumping"
  /\ item = Nothing
  /\ outbox # <<>>
  /\ item' = Head(outbox)
  /\ outbox' = Tail(outbox)
  /\ UNCHANGED <<main, emitted, dropped, closed, thread, sent, via, ready, error, netVars,
                 received>>

(* ws.send(item) returns: on a dead connection it may, the frame then goes  *)
(* nowhere.                                                                 *)
SendOk ==
  /\ Running
  /\ thread = "pumping"
  /\ item \in Segs
  /\ wire' = IF alive[conn] THEN [wire EXCEPT ![conn] = Append(@, item)] ELSE wire
  /\ item' = Nothing
  /\ sent' = sent \cup {item}
  /\ via' = [via EXCEPT ![item] = conn]
  /\ UNCHANGED <<main, emitted, queueVars, closed, thread, ready, error, conn, alive,
                 received>>

(* Mutant of SendFails: the exception ends the thread.                      *)
SendFailsForGood ==
  /\ Running
  /\ thread = "pumping"
  /\ item \in Segs
  /\ ~alive[conn]
  /\ item' = Nothing
  /\ error' = TRUE
  /\ thread' = "ended"
  /\ UNCHANGED <<main, emitted, queueVars, closed, sent, via, ready, netVars, received>>

(* Another: the item goes to the end of the queue.                          *)
SendFailsPutsBack ==
  /\ Running
  /\ thread = "pumping"
  /\ item \in Segs
  /\ ~alive[conn]
  /\ outbox' = Append(outbox, item)
  /\ item' = Nothing
  /\ error' = TRUE
  /\ thread' = "sleeping"
  /\ UNCHANGED <<main, emitted, dropped, closed, sent, via, ready, netVars, received>>

(* ws.send(item) raises: the item is not put back; the socket is closed.    *)
SendFails ==
  /\ Running
  /\ thread = "pumping"
  /\ item \in Segs
  /\ ~alive[conn]
  /\ item' = Nothing
  /\ via' = [via EXCEPT ![item] = conn]
  /\ error' = TRUE
  /\ thread' = "sleeping"
  /\ UNCHANGED <<main, emitted, queueVars, closed, sent, ready, netVars, received>>

(* The None: _pump returns, _run closes the socket and returns.             *)
PumpEnds ==
  /\ Running
  /\ thread = "pumping"
  /\ item = Stop
  /\ item' = Nothing
  /\ thread' = "ended"
  /\ UNCHANGED <<main, emitted, queueVars, closed, sent, via, ready, error, netVars, received>>

-----------------------------------------------------------------------------
(* The network and ingest.                                                  *)

(* A connection dies with any tail of its frames.                           *)
Break(c) ==
  /\ alive[c]
  /\ c < MaxConnects
  /\ alive' = [alive EXCEPT ![c] = FALSE]
  /\ \E n \in 0..Len(wire[c]) : wire' = [wire EXCEPT ![c] = SubSeq(@, 1, n)]
  /\ UNCHANGED <<main, emitted, queueVars, closed, threadVars, conn, received>>

(* The handler of connection c reads a frame; that of a dead connection     *)
(* still reads what had arrived.  What it answers stays unread.             *)
Receive(c) ==
  /\ wire[c] # <<>>
  /\ received' = Append(received, Head(wire[c]))
  /\ wire' = [wire EXCEPT ![c] = Tail(@)]
  /\ UNCHANGED <<main, emitted, queueVars, closed, threadVars, conn, alive>>

MainStep == WaitReady \/ WaitReadyRaises \/ Put \/ DropPartial \/ StartClose \/ PutStop \/ Join
ThreadStep == Connect \/ ConnectFails \/ Wake \/ Get \/ SendOk \/ SendFails \/ PumpEnds

Next == MainStep \/ ThreadStep \/ \E c \in Conns : Break(c) \/ Receive(c)

Spec == Init /\ [][Next]_vars

(* Both threads are scheduled; ingest reads what reaches it; a server that  *)
(* keeps coming back lets some attempt to connect succeed.                  *)
Fairness ==
  /\ WF_vars(WaitReady \/ Put \/ PutStop \/ Join)
  /\ WF_vars(emitted = NSegs /\ StartClose)
  /\ WF_vars(Wake)
  /\ WF_vars(Get)
  /\ WF_vars(SendOk \/ SendFails)
  /\ WF_vars(PumpEnds)
  /\ SF_vars(Connect)
  /\ \A c \in Conns : WF_vars(Receive(c))

FairSpec == Spec /\ Fairness

-----------------------------------------------------------------------------
(* Properties.                                                              *)

OnWire(s) == \E c \in Conns : Contains(wire[c], s)

(* transport.py:112-148: whatever breaks, no segment reaches ingest twice   *)
(* and none is in two places at once: reconnecting never sends anything     *)
(* again.                                                                   *)
SentAtMostOnce ==
  LET Places(s) ==
        Cardinality({i \in DOMAIN outbox : outbox[i] = s})
        + (IF item = s THEN 1 ELSE 0)
        + Cardinality({p \in Conns \X (1..NSegs) :
                         p[2] \in DOMAIN wire[p[1]] /\ wire[p[1]][p[2]] = s})
        + Cardinality({i \in DOMAIN received : received[i] = s})
  IN  \A s \in Segs : Places(s) <= 1

(* transport.py:81-148, ingest's server.go:147-189: frames of one           *)
(* connection stay in order, and a segment is overtaken only when it was    *)
(* on a connection that died and the other went over a later one.           *)
ReorderedOnlyByBreaks ==
  \A i, j \in DOMAIN received :
    i < j /\ received[i] > received[j] =>
      via[received[j]] < via[received[i]] /\ ~alive[via[received[j]]]

(* What is nowhere any more, without having been dropped at a full queue:   *)
(* it went with a connection's wire, or with the send that raised.          *)
Lost == {s \in 1..emitted : ~Contains(outbox, s) /\ item # s /\ s \notin dropped
                            /\ ~OnWire(s) /\ ~Contains(received, s)}

(* transport.py:112-148: only a connection that died loses segments, and of *)
(* those handed to it the last ones, however many; the one whose send       *)
(* raised, which popping an item before sending it costs, is the very last. *)
LossesAreTails ==
  \A s \in Lost :
    /\ via[s] # 0 /\ ~alive[via[s]]
    /\ \A t \in Segs : via[t] = via[s] /\ t > s => t \in Lost
    /\ s \notin sent => \A t \in Segs : via[t] = via[s] => t <= s

(* transport.py:112-148: all the harm a connection does it does by breaking.*)
OnlyBreaksHarm == SentAtMostOnce /\ ReorderedOnlyByBreaks /\ LossesAreTails

(* transport.py:101-104, main.py:98-101: close() returns, if ingest keeps   *)
(* coming back: the pump makes room for the None and meets it in the end.   *)
CloseReturns == main = "closing" ~> main = "returned"

=============================================================================
