------------------------------- MODULE Ingest --------------------------------
(***************************************************************************)
(* The ingest service: WebSocket handlers (internal/server/server.go), the *)
(* session store in Redis (internal/session/session.go), the publisher     *)
(* they share (module Publisher) and the shutdown sequence of cmd/ingest.  *)
(*                                                                         *)
(* A connection is one WebSocket of one call; a call has several when the  *)
(* edge reconnects while the server still serves the old socket.  The      *)
(* client sends each segment at most once per connection, in any order.    *)
(***************************************************************************)
EXTENDS Naturals, Sequences, FiniteSets

CONSTANTS
  Conns,       (* WebSocket connections                                     *)
  CallOf,      (* the call_id of the connection's URL                       *)
  Scenarios,   (* [frames, redis, shutdown]: the frames [conn, seg] clients *)
               (* may send, whether Redis fails and whether SIGTERM comes   *)
  Workers, QueueSize, MaxAttempts, NoJob, (* of the publisher               *)
  NoFrame      (* a handler that is not serving a segment                   *)

(* A segment is [call, seq, final, ok]: the identity IdempotencyKey gives   *)
(* it, and whether the frame parses and passes Validate.                    *)
Frames == UNION {s.frames : s \in Scenarios}
FinalFrames == {f \in Frames : f.seg.final}
ConnOf == [f \in Frames |-> f.conn]

ASSUME IngestAssumption ==
  /\ IsFiniteSet(Frames)
  /\ \A f \in Frames : f.conn \in Conns /\ f.seg.final \in BOOLEAN /\ f.seg.ok \in BOOLEAN
  /\ NoFrame \notin Frames /\ NoJob \notin Frames
  /\ QueueSize \in Nat \ {0} /\ MaxAttempts \in Nat \ {0} /\ Workers # {}
  /\ \A s \in Scenarios : s.redis \in BOOLEAN /\ s.shutdown \in BOOLEAN

VARIABLES
  queue, phase, outcome, holding, tries, late, exited, log, failed, entered, (* Publisher *)
  pc,         (* where each handler goroutine is                            *)
  cur,        (* the frame it is serving                                    *)
  verdict,    (* what handleSegment returned for each frame                 *)
  seen,       (* es:idem:* keys in Redis                                    *)
  segments, duplicates, (* counters of each es:call:* hash                  *)
  active,     (* es:calls:active                                            *)
  ended,      (* calls whose hash has ended_at                              *)
  redis,      (* "up" or "down"                                             *)
  unchecked,  (* history: frames whose SeenBefore failed open               *)
  resent,     (* history: frames whose own claim came back as somebody's    *)
  lostOps,    (* history: some Touch or EndCall met a Redis error           *)
  ready,      (* Server.ready, what /readyz answers                         *)
  process,    (* main: "serving", "draining", "exited"                      *)
  scenario    (* what the environment does in this behaviour                *)

pubVars == <<queue, phase, outcome, holding, tries, late, exited, log, failed, entered>>
sessionVars == <<seen, segments, duplicates, active, ended, redis, unchecked, resent, lostOps>>
handlerVars == <<pc, cur, verdict>>
mainVars == <<ready, process, scenario>>
vars == <<pubVars, sessionVars, handlerVars, mainVars>>

Pub == INSTANCE Publisher WITH
  Callers <- Conns, Jobs <- Frames, FinalJobs <- FinalFrames, CallerOf <- ConnOf

Calls == {CallOf[c] : c \in Conns}
Keys == {f.seg : f \in Frames}

PCs == {"unopened", "reading", "checking", "publishing", "touching",
        "touchingDuplicate", "endingCall", "closing", "gone", "panicked"}
Verdicts == {"none", "rejected", "duplicate", "accepted", "shed"}

TypeOK ==
  /\ Pub!TypeOK
  /\ pc \in [Conns -> PCs]
  /\ cur \in [Conns -> Frames \cup {NoFrame}]
  /\ verdict \in [Frames -> Verdicts]
  /\ seen \subseteq Keys
  /\ segments \in [Calls -> Nat]
  /\ duplicates \in [Calls -> Nat]
  /\ active \subseteq Calls
  /\ ended \subseteq Calls
  /\ redis \in {"up", "down"}
  /\ unchecked \subseteq Frames
  /\ resent \subseteq Frames
  /\ lostOps \in BOOLEAN
  /\ ready \in BOOLEAN
  /\ process \in {"serving", "draining", "exited"}
  /\ scenario \in Scenarios

Init ==
  /\ Pub!Init
  /\ pc = [c \in Conns |-> "unopened"]
  /\ cur = [c \in Conns |-> NoFrame]
  /\ verdict = [f \in Frames |-> "none"]
  /\ seen = {}
  /\ segments = [k \in Calls |-> 0]
  /\ duplicates = [k \in Calls |-> 0]
  /\ active = {}
  /\ ended = {}
  /\ redis = "up"
  /\ unchecked = {}
  /\ resent = {}
  /\ lostOps = FALSE
  /\ ready = TRUE
  /\ process = "serving"
  /\ scenario \in Scenarios

Running == process # "exited"
At(c, l) == Running /\ pc[c] = l
GoTo(c, l) == pc' = [pc EXCEPT ![c] = l]

(* handleSegment returns v and the loop reads the next frame.               *)
Return(c, v) ==
  /\ GoTo(c, "reading")
  /\ verdict' = [verdict EXCEPT ![cur[c]] = v]
  /\ cur' = [cur EXCEPT ![c] = NoFrame]

-----------------------------------------------------------------------------
(* handleStream.                                                            *)

(* The listener is closed once Shutdown has been called.                    *)
Open(c) ==
  /\ pc[c] = "unopened"
  /\ process = "serving"
  /\ GoTo(c, "reading")
  /\ UNCHANGED <<pubVars, sessionVars, cur, verdict, mainVars>>

(* The URL is authoritative: a payload of another call is refused.          *)
Acceptable(f) == f.seg.ok /\ f.seg.call = CallOf[f.conn]

ReceiveSegment(c, f) ==
  /\ At(c, "reading")
  /\ f.conn = c
  /\ f \in scenario.frames
  /\ verdict[f] = "none"
  /\ IF Acceptable(f)
     THEN /\ GoTo(c, "checking")
          /\ cur' = [cur EXCEPT ![c] = f]
          /\ UNCHANGED verdict
     ELSE /\ verdict' = [verdict EXCEPT ![f] = "rejected"]
          /\ UNCHANGED <<pc, cur>>
  /\ UNCHANGED <<pubVars, sessionVars, mainVars>>

(* The end_call frame leaves the loop after a first EndCall ...             *)
ReceiveEndCall(c) ==
  /\ At(c, "reading")
  /\ GoTo(c, "endingCall")
  /\ UNCHANGED <<pubVars, sessionVars, cur, verdict, mainVars>>

(* ... a read error, a peer that left or ReadTimeout leaves it without.     *)
ReadFails(c) ==
  /\ At(c, "reading")
  /\ GoTo(c, "closing")
  /\ UNCHANGED <<pubVars, sessionVars, cur, verdict, mainVars>>

(* Store.EndCall: one transaction, whose error is counted and passed over.  *)
EndSession(call) ==
  /\ \/ ended' = ended \cup {call} /\ active' = active \ {call}
     \/ redis = "down" /\ UNCHANGED <<ended, active>>
  /\ lostOps' = (lostOps \/ redis = "down")
  /\ UNCHANGED <<seen, segments, duplicates, redis, unchecked, resent>>

EndCall(c) ==
  /\ \/ At(c, "endingCall") /\ GoTo(c, "closing")
     \/ At(c, "closing") /\ GoTo(c, "gone")
  /\ EndSession(CallOf[c])
  /\ UNCHANGED <<pubVars, cur, verdict, mainVars>>

-----------------------------------------------------------------------------
(* handleSegment, once the frame passed validation.                         *)

(* Mutant of SeenBefore: the key is looked up but not set.                  *)
LookUpOnly(c) ==
  /\ At(c, "checking")
  /\ GoTo(c, IF redis = "up" /\ cur[c].seg \in seen THEN "touchingDuplicate" ELSE "publishing")
  /\ unchecked' = IF redis = "up" THEN unchecked ELSE unchecked \cup {cur[c]}
  /\ UNCHANGED <<pubVars, seen, segments, duplicates, active, ended, redis, resent, lostOps,
                 cur, verdict, mainVars>>

(* Store.SeenBefore: SETNX, failing open.  A command that failed may have   *)
(* been applied; one whose reply was lost is sent again by the client of    *)
(* Redis, and finds the key it has set itself.                              *)
SeenBefore(c) ==
  /\ At(c, "checking")
  /\ LET f == cur[c] IN
     \/ /\ redis = "up"
        /\ seen' = seen \cup {f.seg}
        /\ GoTo(c, IF f.seg \in seen THEN "touchingDuplicate" ELSE "publishing")
        /\ UNCHANGED <<unchecked, resent>>
     \/ /\ redis = "up" /\ scenario.redis
        /\ f.seg \notin seen
        /\ seen' = seen \cup {f.seg}
        /\ resent' = resent \cup {f}
        /\ GoTo(c, "touchingDuplicate")
        /\ UNCHANGED unchecked
     \/ /\ redis = "down"
        /\ seen' \in {seen, seen \cup {f.seg}}
        /\ unchecked' = unchecked \cup {f}
        /\ GoTo(c, "publishing")
        /\ UNCHANGED resent
  /\ UNCHANGED <<pubVars, segments, duplicates, active, ended, redis, lostOps,
                 cur, verdict, mainVars>>

(* Mutant of PublishStep: an error of Publish is not handled.               *)
PublishUnanswered(c) ==
  /\ At(c, "publishing")
  /\ Pub!Publish(cur[c])
  /\ LET result == outcome'[cur[c]] IN
     \/ /\ result \in {"blocked", "shed"}
        /\ UNCHANGED handlerVars
     \/ /\ result \in {"accepted", "dropped"}
        /\ GoTo(c, "touching")
        /\ UNCHANGED <<cur, verdict>>
     \/ /\ result = "panicked"
        /\ GoTo(c, "panicked")
        /\ UNCHANGED <<cur, verdict>>
  /\ UNCHANGED <<sessionVars, mainVars>>

(* Publisher.Publish, step by step: it returns nil, returns an error (and   *)
(* the client is sent a throttle message), or panics, which net/http        *)
(* recovers: the goroutine is gone, its deferred steps are not EndCall.     *)
PublishStep(c) ==
  /\ At(c, "publishing")
  /\ Pub!Publish(cur[c])
  /\ LET result == outcome'[cur[c]] IN
     \/ /\ result = "blocked"
        /\ UNCHANGED handlerVars
     \/ /\ result \in {"accepted", "dropped"}
        /\ GoTo(c, "touching")
        /\ UNCHANGED <<cur, verdict>>
     \/ /\ result = "shed"
        /\ Return(c, "shed")
     \/ /\ result = "panicked"
        /\ GoTo(c, "panicked")
        /\ UNCHANGED <<cur, verdict>>
  /\ UNCHANGED <<sessionVars, mainVars>>

(* Mutant of TouchSession: a duplicate takes back a count.                  *)
TouchSessionBack(call, duplicate) ==
  /\ active' = active \cup {call}
  /\ segments' = [segments EXCEPT ![call] = IF duplicate THEN @ - 1 ELSE @ + 1]
  /\ UNCHANGED <<duplicates, lostOps, seen, ended, redis, unchecked, resent>>

(* Store.Touch: one transaction, best effort.                               *)
TouchSession(call, duplicate) ==
  /\ \/ /\ active' = active \cup {call}
        /\ IF duplicate
           THEN duplicates' = [duplicates EXCEPT ![call] = @ + 1] /\ UNCHANGED segments
           ELSE segments' = [segments EXCEPT ![call] = @ + 1] /\ UNCHANGED duplicates
     \/ redis = "down" /\ UNCHANGED <<segments, duplicates, active>>
  /\ lostOps' = (lostOps \/ redis = "down")
  /\ UNCHANGED <<seen, ended, redis, unchecked, resent>>

(* Mutant of Touch: a duplicate counts as a segment.                        *)
TouchAlike(c) ==
  /\ \/ At(c, "touching") /\ TouchSession(CallOf[c], FALSE) /\ Return(c, "accepted")
     \/ At(c, "touchingDuplicate") /\ TouchSession(CallOf[c], FALSE) /\ Return(c, "duplicate")
  /\ UNCHANGED <<pubVars, mainVars>>

Touch(c) ==
  /\ \/ At(c, "touching") /\ TouchSession(CallOf[c], FALSE) /\ Return(c, "accepted")
     \/ At(c, "touchingDuplicate") /\ TouchSession(CallOf[c], TRUE) /\ Return(c, "duplicate")
  /\ UNCHANGED <<pubVars, mainVars>>

-----------------------------------------------------------------------------
(* The publisher's workers, Redis, and main.                                *)

Worker(w) ==
  /\ Running
  /\ Pub!WorkerStep(w)
  /\ UNCHANGED <<sessionVars, handlerVars, mainVars>>

LateWrite(f) ==
  /\ Running
  /\ Pub!LateAttempt(f)
  /\ UNCHANGED <<sessionVars, handlerVars, mainVars>>

RedisFails ==
  /\ scenario.redis
  /\ Running
  /\ redis = "up"
  /\ redis' = "down"
  /\ UNCHANGED <<pubVars, seen, segments, duplicates, active, ended, unchecked, resent, lostOps,
                 handlerVars, mainVars>>

RedisRecovers ==
  /\ Running
  /\ redis = "down"
  /\ redis' = "up"
  /\ UNCHANGED <<pubVars, seen, segments, duplicates, active, ended, unchecked, resent, lostOps,
                 handlerVars, mainVars>>

(* SIGTERM: readiness fails, then http.Server.Shutdown closes the listener. *)
Signal ==
  /\ scenario.shutdown
  /\ process = "serving"
  /\ ready' = FALSE
  /\ process' = "draining"
  /\ UNCHANGED <<pubVars, sessionVars, handlerVars, scenario>>

(* Shutdown does not wait for hijacked connections, so pub.Close runs while *)
(* handlers are anywhere.                                                   *)
ClosePublisher ==
  /\ process = "draining"
  /\ Pub!CloseQueue \/ Pub!CloseWriter
  /\ UNCHANGED <<sessionVars, handlerVars, mainVars>>

(* main returns and takes every goroutine with it.                          *)
Exit ==
  /\ process = "draining"
  /\ phase = "closed"
  /\ process' = "exited"
  /\ UNCHANGED <<pubVars, sessionVars, handlerVars, ready, scenario>>

Handler(c) ==
  \/ SeenBefore(c)
  \/ PublishStep(c)
  \/ Touch(c)
  \/ EndCall(c)

Next ==
  \/ \E c \in Conns : Open(c) \/ ReceiveEndCall(c) \/ ReadFails(c) \/ Handler(c)
  \/ \E f \in Frames : ReceiveSegment(f.conn, f) \/ LateWrite(f)
  \/ \E w \in Workers : Worker(w)
  \/ RedisFails
  \/ RedisRecovers
  \/ Signal
  \/ ClosePublisher
  \/ Exit

Spec == Init /\ [][Next]_vars

(* Goroutines are scheduled; a final that waits in Publish has its timer;   *)
(* main, once signalled, goes on.  Clients, Redis and signals owe nothing.  *)
Fairness ==
  /\ \A c \in Conns : WF_vars(Handler(c))
  /\ \A c \in Conns : WF_vars(PublishStep(c) /\ outcome'[cur[c]] \in {"shed", "panicked"})
  /\ \A w \in Workers : WF_vars(Worker(w))
  /\ WF_vars(\E f \in Frames : LateWrite(f))
  /\ WF_vars(ClosePublisher)
  /\ WF_vars(Exit)

FairSpec == Spec /\ Fairness

-----------------------------------------------------------------------------
(* Properties.                                                              *)

(* f got past its check, or took its key without getting past it.           *)
Claimed(f) ==
  \/ outcome[f] # "none"
  \/ cur[f.conn] = f /\ pc[f.conn] = "publishing"
  \/ f \in resent

Copies(f) == {g \in Frames : g # f /\ g.seg = f.seg}

(* session.go:16-22, 64-85: however two connections of a call interleave,   *)
(* of the copies of a segment one takes its key, to be handed to Kafka or   *)
(* to be lost; another does only if one of the two checks failed open.      *)
PublishedOnce ==
  \A f \in Frames : \A g \in Copies(f) :
    Claimed(f) /\ Claimed(g) => f \in unchecked \/ g \in unchecked

(* ... and a segment is answered as a duplicate only if a copy on another   *)
(* connection took the key, or its own lost reply did.                      *)
DuplicateWasClaimed ==
  \A f \in Frames : verdict[f] = "duplicate" =>
    f \in resent \/ \E g \in Copies(f) : Claimed(g)

(* A segment is claimed by one of its copies.                               *)
ClaimedOnce == PublishedOnce /\ DuplicateWasClaimed

(* session.go:64-71 and DESIGN.md:250, when Redis fails a segment may be    *)
(* duplicated and is not dropped: one that was answered as a duplicate has  *)
(* a copy that got past its check.                                          *)
DuplicateHasACopy ==
  \A f \in Frames : verdict[f] = "duplicate" =>
    \E g \in Copies(f) : Claimed(g) /\ g \notin resent

(* session.go:64, SeenBefore reports whether the key "has already been      *)
(* accepted": of a segment answered as a duplicate a copy was accepted, or  *)
(* is still being published.                                                *)
DuplicateWasAccepted ==
  \A f \in Frames : verdict[f] = "duplicate" =>
    \E g \in Copies(f) : Claimed(g) /\ outcome[g] \notin {"shed", "panicked"}

(* session.go:87-115: the counters of a call never run ahead of what its    *)
(* handlers did, and are exact as long as no Redis command was lost.        *)
CountersAgree ==
  \A k \in Calls :
    LET Judged(v) == Cardinality({f \in Frames : CallOf[f.conn] = k /\ verdict[f] = v}) IN
    /\ segments[k] <= Judged("accepted")
    /\ duplicates[k] <= Judged("duplicate")
    /\ ~lostOps => segments[k] = Judged("accepted") /\ duplicates[k] = Judged("duplicate")

(* session.go:137-145: when the last connection of a call has gone through  *)
(* its end, the call is marked ended and is not listed as active, whatever  *)
(* the order in which stale and fresh connections touched and ended it.     *)
QuietCallIsEnded ==
  \A k \in Calls :
    LET conns == {c \in Conns : CallOf[c] = k} IN
    /\ ~lostOps
    /\ \A c \in conns : pc[c] \in {"unopened", "gone"}
    /\ \E c \in conns : pc[c] = "gone"
    => k \in ended \ active

(* What the session store says of a call is true of it.                     *)
SessionAgrees == CountersAgree /\ QuietCallIsEnded

(* server.go:174-188: every segment that passed validation is answered --   *)
(* accepted, duplicate or shed -- however Redis and Kafka behave, unless    *)
(* the process is shutting down.                                            *)
EverySegmentIsAnswered ==
  \A c \in Conns : pc[c] = "checking" ~> (pc[c] = "reading" \/ process # "serving")
=============================================================================
