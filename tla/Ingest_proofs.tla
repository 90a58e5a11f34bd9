---------------------------- MODULE Ingest_proofs -----------------------------
(***************************************************************************)
(* Proofs about Ingest, for any connections, calls, frames and scenarios:  *)
(* its types, that the handlers use the publisher as Publisher says, so    *)
(* that what Publisher_proofs shows holds of the service, that a segment   *)
(* is claimed once, and that the session store agrees with the handlers.   *)
(***************************************************************************)
EXTENDS Ingest, FiniteSetTheorems, TLAPS

P == INSTANCE Publisher_proofs WITH
  Callers <- Conns, Jobs <- Frames, FinalJobs <- FinalFrames, CallerOf <- ConnOf

-----------------------------------------------------------------------------
(* The publisher of Ingest is that of the proofs.                           *)

LEMMA SameTypes == Pub!TypeOK <=> P!TypeOK
  BY DEF Pub!TypeOK, P!TypeOK, Pub!Outcomes, P!Outcomes

LEMMA SameVars == P!pubVars = pubVars /\ Pub!pubVars = pubVars
  BY DEF P!pubVars, pubVars, Pub!pubVars

LEMMA SameInit == Pub!Init <=> P!Init
  BY DEF P!Init, Pub!Init

LEMMA SameNext == Pub!Next <=> P!Next
  <1>1. \A j \in Frames : Pub!Publish(j) <=> P!Publish(j)
    BY DEF Pub!Publish, P!Publish, Pub!Enqueue, P!Enqueue, Pub!DropPartial, P!DropPartial,
           Pub!BlockFinal, P!BlockFinal, Pub!Unblock, P!Unblock, Pub!GiveUpWaiting,
           P!GiveUpWaiting, Pub!SendOnClosed, P!SendOnClosed, Pub!Calls, P!Calls,
           Pub!CallerFree, P!CallerFree, Pub!Push, P!Push, Pub!HasRoom, P!HasRoom,
           Pub!Return, P!Return
  <1>2. \A w \in Workers : Pub!WorkerStep(w) <=> P!WorkerStep(w)
    BY DEF Pub!WorkerStep, P!WorkerStep, Pub!Dequeue, P!Dequeue, Pub!WriteOk, P!WriteOk,
           Pub!AttemptFails, P!AttemptFails, Pub!WriteFails, P!WriteFails, Pub!WorkerExit,
           P!WorkerExit, Pub!WriteTimesOut, P!WriteTimesOut, Pub!Idle, P!Idle, Pub!Store,
           P!Store, Pub!Release, P!Release
  <1>3. (Pub!CloseQueue <=> P!CloseQueue) /\ (Pub!CloseWriter <=> P!CloseWriter)
    BY DEF Pub!CloseQueue, P!CloseQueue, Pub!CloseWriter, P!CloseWriter
  <1>4. \A j \in Frames : Pub!LateAttempt(j) <=> P!LateAttempt(j)
    BY DEF Pub!LateAttempt, P!LateAttempt, Pub!Store, P!Store
  <1>5. QED
    BY <1>1, <1>2, <1>3, <1>4 DEF Pub!Next, P!Next

LEMMA FramesFacts ==
  /\ FinalFrames \subseteq Frames /\ ConnOf \in [Frames -> Conns]
  /\ \A f \in Frames : f.conn \in Conns /\ CallOf[f.conn] \in Calls
  /\ NoFrame \notin Frames
  BY IngestAssumption DEF FinalFrames, ConnOf, IngestAssumption, Calls

LEMMA PublisherTypes ==
  ASSUME Pub!TypeOK, [Pub!Next]_pubVars
  PROVE  Pub!TypeOK'
  <1>1. P!TypeOK /\ [P!Next]_P!pubVars => P!TypeOK'
    BY FramesFacts, IngestAssumption, P!NextTypeOK DEF IngestAssumption
  <1>2. CASE UNCHANGED pubVars
    BY <1>2 DEF Pub!TypeOK, pubVars
  <1>3. CASE Pub!Next
    <2>1. P!TypeOK /\ P!Next
      BY <1>3, SameTypes, SameNext
    <2>2. P!TypeOK'
      BY <1>1, <2>1
    <2>3. QED
      BY <2>2 DEF Pub!TypeOK, P!TypeOK, Pub!Outcomes, P!Outcomes
  <1>4. QED
    BY <1>2, <1>3

-----------------------------------------------------------------------------
(* What the handlers are doing.                                             *)

Serving == {"checking", "publishing", "touching", "touchingDuplicate", "panicked"}

HandlerTypes ==
  /\ pc \in [Conns -> PCs]
  /\ cur \in [Conns -> Frames \cup {NoFrame}]
  /\ verdict \in [Frames -> Verdicts]

(* A handler serves a frame of its own, of which it has said nothing yet,   *)
(* and which it publishes once.                                             *)
ServesOwnFrame ==
  \A c \in Conns :
    /\ pc[c] \in Serving => cur[c] \in Frames /\ cur[c].conn = c
    /\ pc[c] \notin Serving => cur[c] = NoFrame
    /\ cur[c] \in Frames => verdict[cur[c]] = "none"
    /\ pc[c] = "checking" => outcome[cur[c]] = "none"

PublishedIsServed ==
  \A f \in Frames : outcome[f] # "none" /\ verdict[f] = "none" => cur[f.conn] = f

Handlers == Pub!TypeOK /\ HandlerTypes /\ ServesOwnFrame /\ PublishedIsServed

(* Steps that the handlers and the session store take no part in.           *)
Elsewhere ==
  \/ \E w \in Workers : Worker(w)
  \/ \E f \in Frames : LateWrite(f)
  \/ RedisFails \/ RedisRecovers \/ Signal \/ ClosePublisher \/ Exit

(* Steps by which a connection begins or ends its loop.                     *)
Turns(c) == Open(c) \/ ReceiveEndCall(c) \/ ReadFails(c)

LEMMA NextCases ==
  ASSUME Next
  PROVE  \/ Elsewhere
         \/ \E c \in Conns : Turns(c) \/ SeenBefore(c) \/ PublishStep(c) \/ Touch(c) \/ EndCall(c)
         \/ \E f \in Frames : ReceiveSegment(f.conn, f)
  BY DEF Next, Elsewhere, Turns, Handler

LEMMA ElsewhereRests ==
  ASSUME Elsewhere
  PROVE  /\ UNCHANGED <<outcome, handlerVars>>
         /\ UNCHANGED <<seen, segments, duplicates, active, ended, unchecked, resent, lostOps>>
         /\ [Pub!Next]_pubVars
  <1>1. CASE \E w \in Workers : Worker(w)
    BY <1>1 DEF Worker, Pub!Next, Pub!WorkerStep, Pub!Dequeue, Pub!WriteOk, Pub!AttemptFails,
                Pub!WriteFails, Pub!WriteTimesOut, Pub!WorkerExit, sessionVars, handlerVars
  <1>2. CASE ClosePublisher
    BY <1>2 DEF ClosePublisher, Pub!Next, Pub!CloseQueue, Pub!CloseWriter, sessionVars, handlerVars
  <1>3. CASE RedisFails \/ RedisRecovers \/ Signal \/ Exit
    BY <1>3 DEF RedisFails, RedisRecovers, Signal, Exit, pubVars, sessionVars, handlerVars
  <1>4. CASE \E f \in Frames : LateWrite(f)
    BY <1>4 DEF LateWrite, Pub!Next, Pub!LateAttempt, sessionVars, handlerVars
  <1>5. QED
    BY <1>1, <1>2, <1>3, <1>4 DEF Elsewhere

(* One step of Publish for the frame in hand.                               *)
LEMMA PublishFacts ==
  ASSUME Handlers, NEW c \in Conns, PublishStep(c)
  PROVE  /\ cur[c] \in Frames /\ cur[c].conn = c /\ pc[c] = "publishing"
         /\ \E result \in Pub!Outcomes \ {"none"} :
              outcome' = [outcome EXCEPT ![cur[c]] = result]
         /\ [Pub!Next]_pubVars /\ UNCHANGED sessionVars
         /\ \/ UNCHANGED handlerVars
            \/ pc' = [pc EXCEPT ![c] = "touching"] /\ UNCHANGED <<cur, verdict>>
            \/ Return(c, "shed")
            \/ pc' = [pc EXCEPT ![c] = "panicked"] /\ UNCHANGED <<cur, verdict>>
  <1>1. pc[c] = "publishing" /\ Pub!Publish(cur[c]) /\ UNCHANGED sessionVars
    BY DEF PublishStep, At
  <1>2. cur[c] \in Frames /\ cur[c].conn = c
    BY <1>1 DEF Handlers, ServesOwnFrame, Serving
  <1>3. \E result \in Pub!Outcomes \ {"none"} : outcome' = [outcome EXCEPT ![cur[c]] = result]
    BY <1>1 DEF Pub!Publish, Pub!Enqueue, Pub!DropPartial, Pub!BlockFinal, Pub!Unblock,
                Pub!GiveUpWaiting, Pub!SendOnClosed, Pub!Push, Pub!Return, Pub!Outcomes
  <1>4. Pub!Next
    BY <1>1, <1>2 DEF Pub!Next
  <1>5. \/ UNCHANGED handlerVars
        \/ pc' = [pc EXCEPT ![c] = "touching"] /\ UNCHANGED <<cur, verdict>>
        \/ Return(c, "shed")
        \/ pc' = [pc EXCEPT ![c] = "panicked"] /\ UNCHANGED <<cur, verdict>>
    BY DEF PublishStep, GoTo
  <1>6. QED
    BY <1>1, <1>2, <1>3, <1>4, <1>5

-----------------------------------------------------------------------------
(* What the handlers are doing is inductive.                                *)

LEMMA InitHandlers == Init => Handlers
  <1> SUFFICES ASSUME Init PROVE Handlers
    OBVIOUS
  <1>1. P!TypeOK
    BY FramesFacts, IngestAssumption, SameInit, P!InitTypeOK DEF Init, IngestAssumption
  <1>2. HandlerTypes
    BY DEF Init, HandlerTypes, PCs, Verdicts
  <1>3. ServesOwnFrame
    BY FramesFacts DEF Init, ServesOwnFrame, Serving
  <1>4. PublishedIsServed
    BY DEF Init, Pub!Init, PublishedIsServed
  <1>5. QED
    BY <1>1, <1>2, <1>3, <1>4, SameTypes DEF Handlers

LEMMA TurnsKeepsHandlers ==
  ASSUME Handlers, NEW c \in Conns, Turns(c) \/ EndCall(c)
  PROVE  Handlers'
  <1>1. PICK p \in PCs \ Serving :
          /\ pc[c] \notin Serving
          /\ pc' = [pc EXCEPT ![c] = p]
    BY DEF Turns, Open, ReceiveEndCall, ReadFails, EndCall, At, GoTo, PCs, Serving
  <1>2. UNCHANGED <<pubVars, cur, verdict>>
    BY DEF Turns, Open, ReceiveEndCall, ReadFails, EndCall
  <1>3. Pub!TypeOK'
    BY <1>2 DEF Handlers, Pub!TypeOK, pubVars
  <1>4. HandlerTypes'
    BY <1>1, <1>2 DEF Handlers, HandlerTypes
  <1>5. ServesOwnFrame'
    BY <1>1, <1>2 DEF Handlers, HandlerTypes, ServesOwnFrame, pubVars, Serving
  <1>6. PublishedIsServed'
    BY <1>2 DEF Handlers, PublishedIsServed, pubVars
  <1>7. QED
    BY <1>3, <1>4, <1>5, <1>6 DEF Handlers

LEMMA ReceiveKeepsHandlers ==
  ASSUME Handlers, NEW f \in Frames, ReceiveSegment(f.conn, f)
  PROVE  Handlers'
  <1> DEFINE c == f.conn
  <1>1. c \in Conns /\ pc[c] = "reading" /\ verdict[f] = "none" /\ cur[c] = NoFrame
    BY FramesFacts DEF ReceiveSegment, At, Handlers, ServesOwnFrame, Serving
  <1>2. outcome[f] = "none"
    BY <1>1, FramesFacts DEF Handlers, PublishedIsServed
  <1>3. UNCHANGED pubVars
    BY DEF ReceiveSegment
  <1>4. Pub!TypeOK'
    BY <1>3 DEF Handlers, Pub!TypeOK, pubVars
  <1>5. CASE Acceptable(f)
    <2>1. /\ pc' = [pc EXCEPT ![c] = "checking"]
          /\ cur' = [cur EXCEPT ![c] = f]
          /\ verdict' = verdict
      BY <1>5 DEF ReceiveSegment, GoTo
    <2>2. HandlerTypes'
      BY <2>1, <1>1 DEF Handlers, HandlerTypes, PCs
    <2>3. ServesOwnFrame'
      BY <2>1, <1>1, <1>2, <1>3 DEF Handlers, HandlerTypes, ServesOwnFrame, pubVars, Serving
    <2>4. PublishedIsServed'
      BY <2>1, <1>1, <1>2, <1>3, FramesFacts
         DEF Handlers, HandlerTypes, PublishedIsServed, pubVars
    <2>5. QED
      BY <1>4, <2>2, <2>3, <2>4 DEF Handlers
  <1>6. CASE ~Acceptable(f)
    <2>1. pc' = pc /\ cur' = cur /\ verdict' = [verdict EXCEPT ![f] = "rejected"]
      BY <1>6 DEF ReceiveSegment
    <2>2. HandlerTypes'
      BY <2>1 DEF Handlers, HandlerTypes, Verdicts
    <2>3. ServesOwnFrame'
      BY <2>1, <1>1, <1>3, FramesFacts
         DEF Handlers, HandlerTypes, ServesOwnFrame, pubVars, Serving
    <2>4. PublishedIsServed'
      BY <2>1, <1>1, <1>2, <1>3 DEF Handlers, HandlerTypes, PublishedIsServed, pubVars
    <2>5. QED
      BY <1>4, <2>2, <2>3, <2>4 DEF Handlers
  <1>7. QED
    BY <1>5, <1>6

LEMMA CheckKeepsHandlers ==
  ASSUME Handlers, NEW c \in Conns, SeenBefore(c)
  PROVE  Handlers'
  <1>1. PICK p \in {"publishing", "touchingDuplicate"} :
          pc[c] = "checking" /\ pc' = [pc EXCEPT ![c] = p]
    BY DEF SeenBefore, At, GoTo
  <1>2. UNCHANGED <<pubVars, cur, verdict>>
    BY DEF SeenBefore
  <1>3. Pub!TypeOK'
    BY <1>2 DEF Handlers, Pub!TypeOK, pubVars
  <1>4. HandlerTypes'
    BY <1>1, <1>2 DEF Handlers, HandlerTypes, PCs
  <1>5. ServesOwnFrame'
    BY <1>1, <1>2 DEF Handlers, HandlerTypes, ServesOwnFrame, pubVars, Serving
  <1>6. PublishedIsServed'
    BY <1>2 DEF Handlers, PublishedIsServed, pubVars
  <1>7. QED
    BY <1>3, <1>4, <1>5, <1>6 DEF Handlers

(* handleSegment returns what it did with the frame in hand.                *)
LEMMA ReturnKeepsHandlers ==
  ASSUME Handlers, NEW c \in Conns, NEW v \in Verdicts \ {"none"},
         pc[c] \in Serving, Return(c, v), Pub!TypeOK',
         \A f \in Frames : f # cur[c] => outcome'[f] = outcome[f]
  PROVE  Handlers'
  <1>1. cur[c] \in Frames /\ cur[c].conn = c /\ verdict[cur[c]] = "none"
    BY DEF Handlers, ServesOwnFrame
  <1>2. /\ pc' = [pc EXCEPT ![c] = "reading"]
        /\ verdict' = [verdict EXCEPT ![cur[c]] = v]
        /\ cur' = [cur EXCEPT ![c] = NoFrame]
    BY DEF Return, GoTo
  <1>3. HandlerTypes'
    BY <1>1, <1>2 DEF Handlers, HandlerTypes, PCs
  <1>4. ServesOwnFrame'
    BY <1>1, <1>2, FramesFacts DEF Handlers, HandlerTypes, ServesOwnFrame, Serving
  <1>5. PublishedIsServed'
    BY <1>1, <1>2, FramesFacts DEF Handlers, HandlerTypes, PublishedIsServed
  <1>6. QED
    BY <1>3, <1>4, <1>5 DEF Handlers

LEMMA PublishKeepsHandlers ==
  ASSUME Handlers, NEW c \in Conns, PublishStep(c)
  PROVE  Handlers'
  <1>1. /\ cur[c] \in Frames /\ cur[c].conn = c /\ pc[c] = "publishing"
        /\ verdict[cur[c]] = "none"
    BY PublishFacts DEF Handlers, ServesOwnFrame
  <1>2. \A f \in Frames : f # cur[c] => outcome'[f] = outcome[f]
    BY PublishFacts, <1>1 DEF Handlers, Pub!TypeOK
  <1>3. Pub!TypeOK'
    BY PublishFacts, PublisherTypes DEF Handlers
  <1>4. CASE Return(c, "shed")
    BY <1>1, <1>2, <1>3, <1>4, ReturnKeepsHandlers DEF Verdicts, Serving
  <1>5. ASSUME NEW p \in {"publishing", "touching", "panicked"},
               pc' = [pc EXCEPT ![c] = p], UNCHANGED <<cur, verdict>>
        PROVE  Handlers'
    <2>1. HandlerTypes'
      BY <1>5 DEF Handlers, HandlerTypes, PCs
    <2>2. ServesOwnFrame'
      BY <1>1, <1>2, <1>5 DEF Handlers, HandlerTypes, ServesOwnFrame, Serving
    <2>3. PublishedIsServed'
      BY <1>1, <1>2, <1>5 DEF Handlers, HandlerTypes, PublishedIsServed
    <2>4. QED
      BY <1>3, <2>1, <2>2, <2>3 DEF Handlers
  <1>6. CASE UNCHANGED handlerVars
    <2>1. pc' = [pc EXCEPT ![c] = "publishing"] /\ UNCHANGED <<cur, verdict>>
      BY <1>1, <1>6 DEF handlerVars, Handlers, HandlerTypes
    <2>2. QED
      BY <2>1, <1>5
  <1>7. QED
    BY PublishFacts, <1>4, <1>5, <1>6

LEMMA TouchKeepsHandlers ==
  ASSUME Handlers, NEW c \in Conns, Touch(c)
  PROVE  Handlers'
  <1>1. /\ pc[c] \in Serving
        /\ Return(c, "accepted") \/ Return(c, "duplicate")
        /\ UNCHANGED pubVars
    BY DEF Touch, At, Serving
  <1>2. Pub!TypeOK' /\ outcome' = outcome
    BY <1>1 DEF Handlers, Pub!TypeOK, pubVars
  <1>3. QED
    BY <1>1, <1>2, ReturnKeepsHandlers DEF Verdicts

LEMMA NextHandlers == Handlers /\ [Next]_vars => Handlers' /\ [Pub!Next]_pubVars
  <1> SUFFICES ASSUME Handlers, [Next]_vars PROVE Handlers' /\ [Pub!Next]_pubVars
    OBVIOUS
  <1>1. CASE UNCHANGED vars
    <2>1. UNCHANGED <<pubVars, pc, cur, verdict>>
      BY <1>1 DEF vars, handlerVars
    <2>2. Pub!TypeOK' /\ UNCHANGED outcome
      BY <2>1 DEF Handlers, Pub!TypeOK, pubVars
    <2>3. QED
      BY <2>1, <2>2 DEF Handlers, HandlerTypes, ServesOwnFrame, PublishedIsServed
  <1>2. CASE Elsewhere
    <2>1. UNCHANGED <<outcome, pc, cur, verdict>> /\ [Pub!Next]_pubVars
      BY <1>2, ElsewhereRests DEF handlerVars
    <2>2. Pub!TypeOK'
      BY <2>1, PublisherTypes DEF Handlers
    <2>3. QED
      BY <2>1, <2>2 DEF Handlers, HandlerTypes, ServesOwnFrame, PublishedIsServed
  <1>3. CASE \E c \in Conns : PublishStep(c)
    BY <1>3, PublishKeepsHandlers, PublishFacts
  <1>4. CASE \E c \in Conns : Turns(c) \/ SeenBefore(c) \/ Touch(c) \/ EndCall(c)
    <2>1. UNCHANGED pubVars
      BY <1>4 DEF Turns, Open, ReceiveEndCall, ReadFails, SeenBefore, Touch, EndCall
    <2>2. QED
      BY <1>4, <2>1, TurnsKeepsHandlers, CheckKeepsHandlers, TouchKeepsHandlers
  <1>5. CASE \E f \in Frames : ReceiveSegment(f.conn, f)
    <2>1. UNCHANGED pubVars
      BY <1>5 DEF ReceiveSegment
    <2>2. QED
      BY <1>5, <2>1, ReceiveKeepsHandlers
  <1>6. CASE Next
    BY <1>6, <1>2, <1>3, <1>4, <1>5, NextCases
  <1>7. QED
    BY <1>1, <1>6

(* server.go:115-283: each handler serves one frame of its own connection,  *)
(* which it has not answered yet, and publishes it at most once.            *)
THEOREM HandlersServe == Spec => []Handlers
  BY InitHandlers, NextHandlers, PTL DEF Spec

(* The handlers use the publisher as it expects: every step of the service  *)
(* is a step of Publisher or leaves its variables alone.                    *)
LEMMA PublisherIsUsed == Spec => Pub!Spec
  <1>1. Init => Pub!Init
    BY DEF Init
  <1>2. Handlers /\ [Next]_vars => [Pub!Next]_Pub!pubVars
    BY NextHandlers DEF pubVars, Pub!pubVars
  <1>3. QED
    BY <1>1, <1>2, HandlersServe, PTL DEF Spec, Pub!Spec

(* ... so what it promises holds in the service: every segment that was     *)
(* accepted is waiting, in a worker's hand, in the topic or given up.       *)
THEOREM AcceptedInTheService == Spec => []Pub!AcceptedIsAccountedFor
  <1>1. Pub!Init => P!Init
    BY SameInit
  <1>2. [Pub!Next]_Pub!pubVars => [P!Next]_P!pubVars
    BY SameNext DEF Pub!pubVars, P!pubVars
  <1>3. P!Spec => []P!AcceptedIsAccountedFor
    BY FramesFacts, IngestAssumption, P!Accounting DEF IngestAssumption
  <1>4. P!AcceptedIsAccountedFor => Pub!AcceptedIsAccountedFor
    BY DEF P!AcceptedIsAccountedFor, Pub!AcceptedIsAccountedFor, P!Settled, Pub!Settled,
           P!Waiting, Pub!Waiting, P!Held, Pub!Held, P!InSeq, Pub!InSeq
  <1>5. QED
    BY <1>1, <1>2, <1>3, <1>4, PublisherIsUsed, PTL DEF Pub!Spec, P!Spec

-----------------------------------------------------------------------------
(* A segment is claimed by one of its copies.                               *)

ClaimIsRecorded == \A f \in Frames : Claimed(f) => f \in unchecked \/ f.seg \in seen

SeenWasClaimed == \A s \in seen : \E g \in Frames : g.seg = s /\ Claimed(g)

ClaimedElsewhere(f) == f \in resent \/ \E g \in Copies(f) : Claimed(g)

DuplicatesWereClaimed ==
  /\ \A c \in Conns : pc[c] = "touchingDuplicate" => ClaimedElsewhere(cur[c])
  /\ \A f \in Frames : verdict[f] = "duplicate" => ClaimedElsewhere(f)

Claims == ClaimIsRecorded /\ PublishedOnce /\ SeenWasClaimed /\ DuplicatesWereClaimed

(* What a step other than a check does to the claims: nothing.              *)
NoCheck ==
  /\ \A f \in Frames : Claimed(f)' <=> Claimed(f)
  /\ UNCHANGED <<seen, unchecked, resent>>
  /\ \A c \in Conns :
       pc'[c] = "touchingDuplicate" => pc[c] = "touchingDuplicate" /\ cur'[c] = cur[c]
  /\ \A f \in Frames :
       verdict'[f] = "duplicate" =>
         verdict[f] = "duplicate" \/ (pc[f.conn] = "touchingDuplicate" /\ cur[f.conn] = f)

LEMMA NoCheckKeepsClaims == Claims /\ NoCheck => Claims'
  <1> SUFFICES ASSUME Claims, NoCheck PROVE Claims'
    OBVIOUS
  <1>1. \A f \in Frames : Claimed(f)' <=> Claimed(f)
    BY DEF NoCheck
  <1>2. UNCHANGED <<seen, unchecked, resent>>
    BY DEF NoCheck
  <1>3. \A f : ClaimedElsewhere(f) => ClaimedElsewhere(f)'
    BY <1>1, <1>2 DEF ClaimedElsewhere, Copies
  <1>4. ClaimIsRecorded'
    BY <1>1, <1>2 DEF Claims, ClaimIsRecorded
  <1>5. PublishedOnce'
    BY <1>1, <1>2 DEF Claims, PublishedOnce, Copies
  <1>6. SeenWasClaimed'
    BY <1>1, <1>2 DEF Claims, SeenWasClaimed
  <1>7. DuplicatesWereClaimed'
    <2>1. ASSUME NEW c \in Conns, pc'[c] = "touchingDuplicate"
          PROVE  ClaimedElsewhere(cur[c])' /\ cur'[c] = cur[c]
      BY <2>1, <1>3 DEF NoCheck, Claims, DuplicatesWereClaimed
    <2>2. ASSUME NEW f \in Frames, verdict'[f] = "duplicate"
          PROVE  ClaimedElsewhere(f)'
      BY <2>2, <1>3, FramesFacts DEF NoCheck, Claims, DuplicatesWereClaimed
    <2>3. QED
      BY <2>1, <2>2 DEF DuplicatesWereClaimed, ClaimedElsewhere
  <1>8. QED
    BY <1>4, <1>5, <1>6, <1>7 DEF Claims

LEMMA ReturnIsNoCheck ==
  ASSUME Handlers, NEW c \in Conns, NEW v \in Verdicts, pc[c] \in Serving, Return(c, v),
         v = "duplicate" => pc[c] = "touchingDuplicate",
         pc[c] = "publishing" => outcome'[cur[c]] # "none",
         \A f \in Frames : f # cur[c] => outcome'[f] = outcome[f],
         pc[c] # "publishing" => outcome' = outcome,
         UNCHANGED <<seen, unchecked, resent>>
  PROVE  NoCheck
  <1>1. cur[c] \in Frames /\ cur[c].conn = c /\ pc[c] # "reading"
    BY DEF Handlers, ServesOwnFrame, Serving
  <1>2. /\ pc' = [pc EXCEPT ![c] = "reading"]
        /\ verdict' = [verdict EXCEPT ![cur[c]] = v]
        /\ cur' = [cur EXCEPT ![c] = NoFrame]
    BY DEF Return, GoTo
  <1>3. \A f \in Frames : Claimed(f)' <=> Claimed(f)
    BY <1>1, <1>2, FramesFacts DEF Handlers, HandlerTypes, Claimed
  <1>4. \A d \in Conns :
          pc'[d] = "touchingDuplicate" => pc[d] = "touchingDuplicate" /\ cur'[d] = cur[d]
    BY <1>2 DEF Handlers, HandlerTypes
  <1>5. \A f \in Frames :
          verdict'[f] = "duplicate" =>
            verdict[f] = "duplicate" \/ (pc[f.conn] = "touchingDuplicate" /\ cur[f.conn] = f)
    BY <1>1, <1>2 DEF Handlers, HandlerTypes
  <1>6. QED
    BY <1>3, <1>4, <1>5 DEF NoCheck

LEMMA PublishIsNoCheck ==
  ASSUME Handlers, NEW c \in Conns, PublishStep(c)
  PROVE  NoCheck
  <1>1. /\ cur[c] \in Frames /\ cur[c].conn = c /\ pc[c] = "publishing"
        /\ UNCHANGED <<seen, unchecked, resent>>
    BY PublishFacts DEF sessionVars
  <1>2. /\ \A f \in Frames : f # cur[c] => outcome'[f] = outcome[f]
        /\ outcome'[cur[c]] # "none"
    BY PublishFacts, <1>1 DEF Handlers, Pub!TypeOK
  <1>3. CASE Return(c, "shed")
    BY <1>1, <1>2, <1>3, ReturnIsNoCheck DEF Verdicts, Serving
  <1>4. ASSUME NEW p \in {"publishing", "touching", "panicked"},
               pc' = [pc EXCEPT ![c] = p], UNCHANGED <<cur, verdict>>
        PROVE  NoCheck
    BY <1>1, <1>2, <1>4, FramesFacts DEF Handlers, HandlerTypes, NoCheck, Claimed
  <1>5. CASE UNCHANGED handlerVars
    <2>1. pc' = [pc EXCEPT ![c] = "publishing"] /\ UNCHANGED <<cur, verdict>>
      BY <1>1, <1>5 DEF handlerVars, Handlers, HandlerTypes
    <2>2. QED
      BY <2>1, <1>4
  <1>6. QED
    BY PublishFacts, <1>3, <1>4, <1>5

LEMMA OthersAreNoCheck ==
  ASSUME Handlers, NEW c \in Conns, Turns(c) \/ Touch(c) \/ EndCall(c)
  PROVE  NoCheck
  <1>1. CASE Turns(c) \/ EndCall(c)
    <2>1. PICK p \in {"reading", "endingCall", "closing", "gone"} :
            pc' = [pc EXCEPT ![c] = p] /\ pc[c] \notin Serving
      BY <1>1 DEF Turns, Open, ReceiveEndCall, ReadFails, EndCall, At, GoTo, Serving
    <2>2. UNCHANGED <<outcome, cur, verdict, seen, unchecked, resent>>
      BY <1>1 DEF Turns, Open, ReceiveEndCall, ReadFails, EndCall, EndSession,
                  pubVars, sessionVars
    <2>3. QED
      BY <2>1, <2>2 DEF Handlers, HandlerTypes, NoCheck, Claimed, Serving
  <1>2. CASE Touch(c)
    <2>1. UNCHANGED <<outcome, seen, unchecked, resent>>
      BY <1>2 DEF Touch, TouchSession, pubVars
    <2>2. \/ pc[c] = "touching" /\ Return(c, "accepted")
          \/ pc[c] = "touchingDuplicate" /\ Return(c, "duplicate")
      BY <1>2 DEF Touch, At
    <2>3. QED
      BY <2>1, <2>2, ReturnIsNoCheck DEF Serving, Verdicts
  <1>3. QED
    BY <1>1, <1>2

LEMMA ReceiveIsNoCheck ==
  ASSUME Handlers, NEW f \in Frames, ReceiveSegment(f.conn, f)
  PROVE  NoCheck
  <1>1. f.conn \in Conns /\ pc[f.conn] = "reading" /\ cur[f.conn] = NoFrame
    BY FramesFacts DEF ReceiveSegment, At, Handlers, ServesOwnFrame, Serving
  <1>2. UNCHANGED <<outcome, seen, unchecked, resent>>
    BY DEF ReceiveSegment, pubVars, sessionVars
  <1>3. CASE Acceptable(f)
    <2>1. /\ pc' = [pc EXCEPT ![f.conn] = "checking"]
          /\ cur' = [cur EXCEPT ![f.conn] = f]
          /\ verdict' = verdict
      BY <1>3 DEF ReceiveSegment, GoTo
    <2>2. QED
      BY <2>1, <1>1, <1>2, FramesFacts DEF Handlers, HandlerTypes, NoCheck, Claimed
  <1>4. CASE ~Acceptable(f)
    <2>1. pc' = pc /\ cur' = cur /\ verdict' = [verdict EXCEPT ![f] = "rejected"]
      BY <1>4 DEF ReceiveSegment
    <2>2. QED
      BY <2>1, <1>2 DEF Handlers, HandlerTypes, NoCheck, Claimed
  <1>5. QED
    BY <1>3, <1>4

LEMMA CheckKeepsClaims ==
  ASSUME Handlers, Claims, NEW c \in Conns, SeenBefore(c)
  PROVE  Claims'
  <1> DEFINE f == cur[c]
  <1>1. /\ pc[c] = "checking" /\ f \in Frames /\ f.conn = c /\ outcome[f] = "none"
        /\ UNCHANGED <<outcome, cur, verdict>>
    BY DEF SeenBefore, At, Handlers, ServesOwnFrame, Serving, pubVars
  <1>2. pc \in [Conns -> PCs]
    BY DEF Handlers, HandlerTypes
  <1>3. CASE /\ \/ pc' = [pc EXCEPT ![c] = "publishing"] /\ resent' = resent
                \/ pc' = [pc EXCEPT ![c] = "touchingDuplicate"] /\ resent' = resent \cup {f}
             /\ f.seg \notin seen \/ f \in unchecked'
             /\ seen \subseteq seen' /\ seen' \subseteq seen \cup {f.seg}
             /\ unchecked \subseteq unchecked'
             /\ f \in unchecked' \/ f.seg \in seen'
    <2>1. \A g \in Frames : Claimed(g)' <=> Claimed(g) \/ g = f
      BY <1>1, <1>2, <1>3, FramesFacts DEF Claimed
    <2>2. \A g \in Frames : ClaimedElsewhere(g) => ClaimedElsewhere(g)'
      BY <2>1, <1>3 DEF ClaimedElsewhere, Copies
    <2>3. ClaimIsRecorded'
      BY <2>1, <1>1, <1>3 DEF Claims, ClaimIsRecorded
    <2>4. PublishedOnce'
      BY <2>1, <1>1, <1>3 DEF Claims, PublishedOnce, ClaimIsRecorded, Copies
    <2>5. SeenWasClaimed'
      BY <2>1, <1>1, <1>3 DEF Claims, SeenWasClaimed
    <2>6. DuplicatesWereClaimed'
      <3>1. ASSUME NEW d \in Conns, pc'[d] = "touchingDuplicate"
            PROVE  ClaimedElsewhere(cur[d])' /\ cur'[d] = cur[d]
        <4>1. CASE d = c
          BY <4>1, <3>1, <1>1, <1>2, <1>3 DEF ClaimedElsewhere
        <4>2. CASE d # c
          <5>1. pc[d] = "touchingDuplicate" /\ cur[d] \in Frames
            BY <4>2, <3>1, <1>2, <1>3 DEF Handlers, ServesOwnFrame, Serving
          <5>2. QED
            BY <5>1, <2>2, <1>1 DEF Claims, DuplicatesWereClaimed
        <4>3. QED
          BY <4>1, <4>2
      <3>2. ASSUME NEW g \in Frames, verdict'[g] = "duplicate"
            PROVE  ClaimedElsewhere(g)'
        BY <3>2, <2>2, <1>1 DEF Claims, DuplicatesWereClaimed
      <3>3. QED
        BY <3>1, <3>2 DEF DuplicatesWereClaimed
    <2>7. QED
      BY <2>3, <2>4, <2>5, <2>6 DEF Claims
  <1>4. CASE pc' = [pc EXCEPT ![c] = "touchingDuplicate"] /\ f.seg \in seen
             /\ UNCHANGED <<seen, unchecked, resent>>
    <2>1. \A g \in Frames : Claimed(g)' <=> Claimed(g)
      BY <1>1, <1>2, <1>4, FramesFacts DEF Claimed
    <2>2. ClaimedElsewhere(f)
      <3>1. PICK g \in Frames : g.seg = f.seg /\ Claimed(g)
        BY <1>4 DEF Claims, SeenWasClaimed
      <3>2. CASE g = f
        BY <3>1, <3>2, <1>1 DEF Claimed, ClaimedElsewhere
      <3>3. CASE g # f
        BY <3>1, <3>3 DEF ClaimedElsewhere, Copies
      <3>4. QED
        BY <3>2, <3>3
    <2>3. \A g : ClaimedElsewhere(g) => ClaimedElsewhere(g)'
      BY <2>1, <1>4 DEF ClaimedElsewhere, Copies
    <2>4. ClaimIsRecorded' /\ PublishedOnce' /\ SeenWasClaimed'
      BY <2>1, <1>4 DEF Claims, ClaimIsRecorded, PublishedOnce, SeenWasClaimed, Copies
    <2>5. DuplicatesWereClaimed'
      <3>1. ASSUME NEW d \in Conns, pc'[d] = "touchingDuplicate"
            PROVE  ClaimedElsewhere(cur[d])' /\ cur'[d] = cur[d]
        BY <3>1, <2>2, <2>3, <1>1, <1>2, <1>4 DEF Claims, DuplicatesWereClaimed
      <3>2. ASSUME NEW g \in Frames, verdict'[g] = "duplicate"
            PROVE  ClaimedElsewhere(g)'
        BY <3>2, <2>3, <1>1 DEF Claims, DuplicatesWereClaimed
      <3>3. QED
        BY <3>1, <3>2 DEF DuplicatesWereClaimed
    <2>6. QED
      BY <2>4, <2>5 DEF Claims
  <1>5. QED
    BY <1>3, <1>4 DEF SeenBefore, GoTo

LEMMA NextClaims == Handlers /\ Claims /\ [Next]_vars => Claims'
  <1> SUFFICES ASSUME Handlers, Claims, [Next]_vars PROVE Claims'
    OBVIOUS
  <1>1. CASE UNCHANGED <<outcome, handlerVars, seen, unchecked, resent>>
    <2>1. NoCheck
      BY <1>1 DEF handlerVars, NoCheck, Claimed
    <2>2. QED
      BY <2>1, NoCheckKeepsClaims
  <1>2. CASE UNCHANGED vars
    BY <1>2, <1>1 DEF vars, pubVars, sessionVars
  <1>3. CASE Elsewhere
    BY <1>3, <1>1, ElsewhereRests
  <1>4. CASE \E c \in Conns : Turns(c) \/ PublishStep(c) \/ Touch(c) \/ EndCall(c)
    BY <1>4, PublishIsNoCheck, OthersAreNoCheck, NoCheckKeepsClaims
  <1>5. CASE \E c \in Conns : SeenBefore(c)
    BY <1>5, CheckKeepsClaims
  <1>6. CASE \E f \in Frames : ReceiveSegment(f.conn, f)
    BY <1>6, ReceiveIsNoCheck, NoCheckKeepsClaims
  <1>7. CASE Next
    BY <1>7, <1>3, <1>4, <1>5, <1>6, NextCases
  <1>8. QED
    BY <1>2, <1>7

(* session.go:64-85: one copy of a segment takes its key, but for those     *)
(* whose check failed open, and a copy is turned away only if another took  *)
(* the key or its own lost reply did.                                       *)
THEOREM OneCopyIsClaimed == Spec => []ClaimedOnce
  <1>1. Init => Claims
    <2> SUFFICES ASSUME Init PROVE Claims
      OBVIOUS
    <2>1. \A f \in Frames : ~Claimed(f) /\ verdict[f] = "none"
      BY FramesFacts DEF Init, Pub!Init, Claimed
    <2>2. seen = {} /\ \A c \in Conns : pc[c] = "unopened"
      BY DEF Init
    <2>3. QED
      BY <2>1, <2>2
         DEF Claims, ClaimIsRecorded, PublishedOnce, SeenWasClaimed, DuplicatesWereClaimed,
             Copies
  <1>2. Claims => ClaimedOnce
    BY DEF Claims, DuplicatesWereClaimed, ClaimedElsewhere, ClaimedOnce, DuplicateWasClaimed
  <1>3. QED
    BY <1>1, <1>2, NextClaims, HandlersServe, PTL DEF Spec

-----------------------------------------------------------------------------
(* The types of the session store and of main.                              *)

SessionTypes ==
  /\ seen \subseteq Keys /\ unchecked \subseteq Frames /\ resent \subseteq Frames
  /\ segments \in [Calls -> Nat] /\ duplicates \in [Calls -> Nat]
  /\ active \subseteq Calls /\ ended \subseteq Calls
  /\ redis \in {"up", "down"} /\ lostOps \in BOOLEAN

MainTypes ==
  /\ ready \in BOOLEAN
  /\ process \in {"serving", "draining", "exited"}
  /\ scenario \in Scenarios

LEMMA TouchSessionTypes ==
  ASSUME SessionTypes, NEW k \in Calls, NEW d \in BOOLEAN, TouchSession(k, d)
  PROVE  SessionTypes'
  <1>1. UNCHANGED <<seen, ended, redis, unchecked, resent>>
    BY DEF TouchSession
  <1>2. active' \subseteq Calls
    BY DEF SessionTypes, TouchSession
  <1>3. segments' \in [Calls -> Nat] /\ duplicates' \in [Calls -> Nat]
    <2>1. \A m \in [Calls -> Nat] : [m EXCEPT ![k] = m[k] + 1] \in [Calls -> Nat]
      OBVIOUS
    <2>2. segments' \in {segments, [segments EXCEPT ![k] = segments[k] + 1]}
      BY DEF TouchSession
    <2>3. duplicates' \in {duplicates, [duplicates EXCEPT ![k] = duplicates[k] + 1]}
      BY DEF TouchSession
    <2>4. QED
      BY <2>1, <2>2, <2>3 DEF SessionTypes
  <1>4. lostOps' \in BOOLEAN
    BY DEF SessionTypes, TouchSession
  <1>5. QED
    BY <1>1, <1>2, <1>3, <1>4 DEF SessionTypes

LEMMA NextTypes ==
  Handlers /\ SessionTypes /\ MainTypes /\ [Next]_vars => SessionTypes' /\ MainTypes'
  <1> SUFFICES ASSUME Handlers, SessionTypes, MainTypes, [Next]_vars
               PROVE  SessionTypes' /\ MainTypes'
    OBVIOUS
  <1>1. CASE UNCHANGED <<sessionVars, mainVars>>
    BY <1>1 DEF sessionVars, mainVars, SessionTypes, MainTypes
  <1>2. CASE UNCHANGED vars
    BY <1>2, <1>1 DEF vars
  <1>3. CASE (\E w \in Workers : Worker(w)) \/ (\E f \in Frames : LateWrite(f))
    BY <1>3, <1>1 DEF Worker, LateWrite
  <1>4. CASE RedisFails \/ RedisRecovers
    BY <1>4 DEF RedisFails, RedisRecovers, mainVars, SessionTypes, MainTypes
  <1>5. CASE Signal \/ ClosePublisher \/ Exit
    BY <1>5 DEF Signal, ClosePublisher, Exit, sessionVars, mainVars, SessionTypes, MainTypes
  <1>6. CASE \E c \in Conns : Turns(c) \/ PublishStep(c)
    BY <1>6, <1>1 DEF Turns, Open, ReceiveEndCall, ReadFails, PublishStep
  <1>7. CASE \E f \in Frames : ReceiveSegment(f.conn, f)
    BY <1>7, <1>1 DEF ReceiveSegment
  <1>8. ASSUME NEW c \in Conns, SeenBefore(c) PROVE SessionTypes' /\ MainTypes'
    <2>1. cur[c] \in Frames /\ cur[c].seg \in Keys
      BY <1>8 DEF SeenBefore, At, Handlers, ServesOwnFrame, Serving, Keys
    <2>2. QED
      BY <1>8, <2>1 DEF SeenBefore, mainVars, SessionTypes, MainTypes
  <1>9. ASSUME NEW c \in Conns, Touch(c) PROVE SessionTypes' /\ MainTypes'
    <2>1. CallOf[c] \in Calls
      BY DEF Calls
    <2>2. \E d \in BOOLEAN : TouchSession(CallOf[c], d)
      BY <1>9 DEF Touch
    <2>3. SessionTypes'
      BY <2>1, <2>2, TouchSessionTypes
    <2>4. QED
      BY <1>9, <2>3 DEF Touch, mainVars, MainTypes
  <1>10. ASSUME NEW c \in Conns, EndCall(c) PROVE SessionTypes' /\ MainTypes'
    BY <1>10 DEF EndCall, EndSession, mainVars, SessionTypes, MainTypes, Calls
  <1>11. CASE Next
    BY <1>11, <1>3, <1>4, <1>5, <1>6, <1>7, <1>8, <1>9, <1>10, NextCases DEF Elsewhere
  <1>12. QED
    BY <1>2, <1>11

LEMMA InitTypes == Init => SessionTypes /\ MainTypes
  <1> SUFFICES ASSUME Init PROVE SessionTypes /\ MainTypes
    OBVIOUS
  <1>1. /\ seen = {} /\ unchecked = {} /\ resent = {} /\ active = {} /\ ended = {}
        /\ redis = "up" /\ lostOps = FALSE /\ MainTypes
    BY DEF Init, MainTypes
  <1>2. segments \in [Calls -> Nat] /\ duplicates \in [Calls -> Nat]
    BY DEF Init
  <1>3. QED
    BY <1>1, <1>2 DEF SessionTypes

(* session.go:87-145, main.go:120-150: the hashes, sets and flags of the    *)
(* session store and of main stay in their types.                           *)
THEOREM TypesHold == Spec => [](SessionTypes /\ MainTypes)
  BY InitTypes, NextTypes, HandlersServe, PTL DEF Spec

(* Every variable of the service stays in its type, in every behaviour.     *)
THEOREM TypeCorrect == Spec => []TypeOK
  <1>1. Handlers /\ SessionTypes /\ MainTypes => TypeOK
    BY DEF Handlers, HandlerTypes, SessionTypes, MainTypes, TypeOK
  <1>2. QED
    BY <1>1, HandlersServe, TypesHold, PTL

-----------------------------------------------------------------------------
(* The session store agrees with the handlers.                              *)

Judged(k, v) == {f \in Frames : CallOf[f.conn] = k /\ verdict[f] = v}

(* A call with a connection that ended is marked; one listed as active has  *)
(* a connection that has not.                                               *)
EndsAreMarked ==
  ~lostOps =>
    /\ \A c \in Conns : pc[c] = "gone" => CallOf[c] \in ended
    /\ \A k \in active :
         \E c \in Conns : CallOf[c] = k /\ pc[c] \notin {"unopened", "gone"}

LEMMA JudgedIsFinite ==
  \A k, v : IsFiniteSet(Judged(k, v)) /\ Cardinality(Judged(k, v)) \in Nat
  <1> SUFFICES ASSUME NEW k, NEW v
               PROVE  IsFiniteSet(Judged(k, v)) /\ Cardinality(Judged(k, v)) \in Nat
    OBVIOUS
  <1>1. Judged(k, v) \subseteq Frames /\ IsFiniteSet(Frames)
    BY IngestAssumption DEF Judged, IngestAssumption
  <1>2. QED
    BY <1>1, FS_Subset, FS_CardinalityType

(* The counters and the verdicts of the handlers move together.             *)
LEMMA CountersRest ==
  ASSUME CountersAgree, UNCHANGED <<segments, duplicates>>, lostOps => lostOps',
         \A k \in Calls : \A v \in {"accepted", "duplicate"} : Judged(k, v)' = Judged(k, v)
  PROVE  CountersAgree'
  <1>1. \A k \in Calls :
          /\ segments[k] <= Cardinality(Judged(k, "accepted"))
          /\ duplicates[k] <= Cardinality(Judged(k, "duplicate"))
          /\ ~lostOps => /\ segments[k] = Cardinality(Judged(k, "accepted"))
                         /\ duplicates[k] = Cardinality(Judged(k, "duplicate"))
    BY DEF CountersAgree, Judged
  <1>2. \A k \in Calls :
          /\ segments'[k] <= Cardinality(Judged(k, "accepted")')
          /\ duplicates'[k] <= Cardinality(Judged(k, "duplicate")')
          /\ ~lostOps' => /\ segments'[k] = Cardinality(Judged(k, "accepted")')
                          /\ duplicates'[k] = Cardinality(Judged(k, "duplicate")')
    BY <1>1
  <1>3. QED
    BY <1>2 DEF CountersAgree, Judged

LEMMA TouchKeepsCounters ==
  ASSUME Handlers, SessionTypes, CountersAgree, NEW c \in Conns, Touch(c)
  PROVE  CountersAgree'
  <1> DEFINE f == cur[c]
             home == CallOf[c]
  <1>1. f \in Frames /\ f.conn = c /\ verdict[f] = "none" /\ home \in Calls
    BY DEF Touch, At, Handlers, ServesOwnFrame, Serving, Calls
  <1>2. PICK v \in {"accepted", "duplicate"} :
          /\ TouchSession(home, v = "duplicate")
          /\ verdict' = [verdict EXCEPT ![f] = v]
    <2>1. CASE TouchSession(home, FALSE) /\ Return(c, "accepted")
      BY <2>1 DEF Return
    <2>2. CASE TouchSession(home, TRUE) /\ Return(c, "duplicate")
      BY <2>2 DEF Return
    <2>3. QED
      BY <2>1, <2>2 DEF Touch
  <1>3. /\ Judged(home, v)' = Judged(home, v) \cup {f}
        /\ f \notin Judged(home, v)
    BY <1>1, <1>2 DEF Judged, Handlers, HandlerTypes
  <1>4. \A k \in Calls : \A u \in {"accepted", "duplicate"} :
          ~(k = home /\ u = v) => Judged(k, u)' = Judged(k, u)
    BY <1>1, <1>2 DEF Judged, Handlers, HandlerTypes
  <1>5. Cardinality(Judged(home, v)') = Cardinality(Judged(home, v)) + 1
    BY <1>3, JudgedIsFinite, FS_AddElement
  <1>6. \A k \in Calls :
          /\ segments[k] \in Nat /\ duplicates[k] \in Nat
          /\ segments[k] <= Cardinality(Judged(k, "accepted"))
          /\ duplicates[k] <= Cardinality(Judged(k, "duplicate"))
          /\ ~lostOps => /\ segments[k] = Cardinality(Judged(k, "accepted"))
                         /\ duplicates[k] = Cardinality(Judged(k, "duplicate"))
    BY DEF CountersAgree, Judged, SessionTypes
  <1>7. /\ lostOps => lostOps'
        /\ \A k \in Calls :
             /\ segments'[k] = segments[k] \/ (segments'[k] = segments[k] + 1
                                               /\ k = home /\ v = "accepted")
             /\ duplicates'[k] = duplicates[k] \/ (duplicates'[k] = duplicates[k] + 1
                                                   /\ k = home /\ v = "duplicate")
        /\ ~lostOps' => /\ v = "accepted" => segments'[home] = segments[home] + 1
                        /\ v = "duplicate" => duplicates'[home] = duplicates[home] + 1
    BY <1>1, <1>2 DEF TouchSession, SessionTypes
  <1>8. \A k \in Calls :
          /\ segments'[k] <= Cardinality(Judged(k, "accepted")')
          /\ ~lostOps' => segments'[k] = Cardinality(Judged(k, "accepted")')
    BY <1>4, <1>5, <1>6, <1>7, JudgedIsFinite
  <1>9. \A k \in Calls :
          /\ duplicates'[k] <= Cardinality(Judged(k, "duplicate")')
          /\ ~lostOps' => duplicates'[k] = Cardinality(Judged(k, "duplicate")')
    BY <1>4, <1>5, <1>6, <1>7, JudgedIsFinite
  <1>10. QED
    BY <1>8, <1>9 DEF CountersAgree, Judged

LEMMA OthersKeepVerdicts ==
  ASSUME Handlers, NEW c \in Conns, Turns(c) \/ SeenBefore(c) \/ PublishStep(c) \/ EndCall(c)
  PROVE  \A k \in Calls : \A v \in {"accepted", "duplicate"} : Judged(k, v)' = Judged(k, v)
  <1>1. CASE UNCHANGED verdict
    BY <1>1 DEF Judged
  <1>2. CASE Return(c, "shed") /\ pc[c] = "publishing"
    <2>1. cur[c] \in Frames /\ verdict[cur[c]] = "none"
      BY <1>2 DEF Handlers, ServesOwnFrame, Serving
    <2>2. verdict' = [verdict EXCEPT ![cur[c]] = "shed"]
      BY <1>2 DEF Return
    <2>3. QED
      BY <2>1, <2>2 DEF Judged, Handlers, HandlerTypes
  <1>3. CASE PublishStep(c)
    BY <1>1, <1>2, <1>3, PublishFacts DEF handlerVars
  <1>4. QED
    BY <1>1, <1>3 DEF Turns, Open, ReceiveEndCall, ReadFails, SeenBefore, EndCall

LEMMA ReceiveKeepsVerdicts ==
  ASSUME Handlers, NEW f \in Frames, ReceiveSegment(f.conn, f)
  PROVE  \A k \in Calls : \A v \in {"accepted", "duplicate"} : Judged(k, v)' = Judged(k, v)
  <1>1. verdict[f] = "none"
    BY DEF ReceiveSegment
  <1>2. verdict' = verdict \/ verdict' = [verdict EXCEPT ![f] = "rejected"]
    BY DEF ReceiveSegment
  <1>3. QED
    BY <1>1, <1>2 DEF Judged, Handlers, HandlerTypes

(* A step that neither touches nor ends a session.                          *)
LEMMA RestKeepsEnds ==
  ASSUME EndsAreMarked, UNCHANGED <<active, ended, lostOps>>,
         \A c \in Conns : (pc'[c] = "gone" <=> pc[c] = "gone")
                         /\ (pc'[c] = "unopened" => pc[c] = "unopened")
  PROVE  EndsAreMarked'
  BY DEF EndsAreMarked

LEMMA EndKeepsEnds ==
  ASSUME Handlers, SessionTypes, EndsAreMarked, NEW c \in Conns, EndCall(c)
  PROVE  EndsAreMarked'
  <1> SUFFICES ASSUME ~lostOps' PROVE /\ \A d \in Conns : pc'[d] = "gone" => CallOf[d] \in ended'
                                     /\ \A k \in active' : \E d \in Conns :
                                          CallOf[d] = k /\ pc'[d] \notin {"unopened", "gone"}
    BY DEF EndsAreMarked
  <1>1. ~lostOps /\ ended' = ended \cup {CallOf[c]} /\ active' = active \ {CallOf[c]}
    BY DEF EndCall, EndSession
  <1>2. PICK p \in {"closing", "gone"} : pc' = [pc EXCEPT ![c] = p]
    BY DEF EndCall, GoTo
  <1>3. QED
    BY <1>1, <1>2 DEF EndsAreMarked, Handlers, HandlerTypes

LEMMA TouchKeepsEnds ==
  ASSUME Handlers, SessionTypes, EndsAreMarked, NEW c \in Conns, Touch(c)
  PROVE  EndsAreMarked'
  <1> SUFFICES ASSUME ~lostOps' PROVE /\ \A d \in Conns : pc'[d] = "gone" => CallOf[d] \in ended'
                                     /\ \A k \in active' : \E d \in Conns :
                                          CallOf[d] = k /\ pc'[d] \notin {"unopened", "gone"}
    BY DEF EndsAreMarked
  <1>1. ~lostOps /\ ended' = ended /\ active' = active \cup {CallOf[c]}
    BY DEF Touch, TouchSession
  <1>2. pc' = [pc EXCEPT ![c] = "reading"] /\ pc[c] # "gone"
    BY DEF Touch, At, Return, GoTo
  <1>3. QED
    BY <1>1, <1>2 DEF EndsAreMarked, Handlers, HandlerTypes

LEMMA NextSessions ==
  Handlers /\ SessionTypes /\ CountersAgree /\ EndsAreMarked /\ [Next]_vars
    => CountersAgree' /\ EndsAreMarked'
  <1> SUFFICES ASSUME Handlers, SessionTypes, CountersAgree, EndsAreMarked, [Next]_vars
               PROVE  CountersAgree' /\ EndsAreMarked'
    OBVIOUS
  <1>1. CASE UNCHANGED <<handlerVars, segments, duplicates, active, ended, lostOps>>
    <2>1. UNCHANGED <<pc, verdict, segments, duplicates, active, ended, lostOps>>
      BY <1>1 DEF handlerVars
    <2>2. CountersAgree'
      BY <2>1, CountersRest DEF Judged
    <2>3. EndsAreMarked'
      BY <2>1, RestKeepsEnds
    <2>4. QED
      BY <2>2, <2>3
  <1>2. CASE UNCHANGED vars
    BY <1>2, <1>1 DEF vars, sessionVars
  <1>3. CASE Elsewhere
    BY <1>3, <1>1, ElsewhereRests
  <1>4. ASSUME NEW c \in Conns, Turns(c) \/ SeenBefore(c) \/ PublishStep(c)
        PROVE  CountersAgree' /\ EndsAreMarked'
    <2>1. UNCHANGED <<segments, duplicates, active, ended, lostOps>>
      BY <1>4 DEF Turns, Open, ReceiveEndCall, ReadFails, SeenBefore, PublishStep, sessionVars
    <2>2. CountersAgree'
      BY <1>4, <2>1, OthersKeepVerdicts, CountersRest
    <2>3. \A d \in Conns : (pc'[d] = "gone" <=> pc[d] = "gone")
                          /\ (pc'[d] = "unopened" => pc[d] = "unopened")
      <3>1. pc' = pc \/ \E p \in PCs \ {"gone", "unopened"} :
                          pc[c] # "gone" /\ pc' = [pc EXCEPT ![c] = p]
        BY <1>4 DEF Turns, Open, ReceiveEndCall, ReadFails, SeenBefore, PublishStep,
                    At, GoTo, Return, PCs, handlerVars
      <3>2. QED
        BY <3>1 DEF Handlers, HandlerTypes
    <2>4. EndsAreMarked'
      BY <2>1, <2>3, RestKeepsEnds
    <2>5. QED
      BY <2>2, <2>4
  <1>5. ASSUME NEW f \in Frames, ReceiveSegment(f.conn, f)
        PROVE  CountersAgree' /\ EndsAreMarked'
    <2>1. UNCHANGED <<segments, duplicates, active, ended, lostOps>>
      BY <1>5 DEF ReceiveSegment, sessionVars
    <2>2. CountersAgree'
      BY <1>5, <2>1, ReceiveKeepsVerdicts, CountersRest
    <2>3. \A d \in Conns : (pc'[d] = "gone" <=> pc[d] = "gone")
                          /\ (pc'[d] = "unopened" => pc[d] = "unopened")
      <3>1. pc[f.conn] = "reading"
            /\ (pc' = pc \/ pc' = [pc EXCEPT ![f.conn] = "checking"])
        BY <1>5 DEF ReceiveSegment, At, GoTo
      <3>2. QED
        BY <3>1 DEF Handlers, HandlerTypes
    <2>4. QED
      BY <2>1, <2>2, <2>3, RestKeepsEnds
  <1>6. ASSUME NEW c \in Conns, Touch(c) PROVE CountersAgree' /\ EndsAreMarked'
    BY <1>6, TouchKeepsCounters, TouchKeepsEnds
  <1>7. ASSUME NEW c \in Conns, EndCall(c) PROVE CountersAgree' /\ EndsAreMarked'
    <2>1. UNCHANGED <<segments, duplicates>> /\ (lostOps => lostOps')
      BY <1>7 DEF EndCall, EndSession
    <2>2. CountersAgree'
      BY <1>7, <2>1, OthersKeepVerdicts, CountersRest
    <2>3. QED
      BY <1>7, <2>2, EndKeepsEnds
  <1>8. CASE Next
    BY <1>8, <1>3, <1>4, <1>5, <1>6, <1>7, NextCases
  <1>9. QED
    BY <1>2, <1>8

LEMMA InitSessions == Init => CountersAgree /\ EndsAreMarked
  <1> SUFFICES ASSUME Init PROVE CountersAgree /\ EndsAreMarked
    OBVIOUS
  <1>1. \A k, v : v # "none" => Judged(k, v) = {}
    BY DEF Init, Judged
  <1>2. CountersAgree
    BY <1>1, FS_EmptySet DEF Init, CountersAgree, Judged
  <1>3. EndsAreMarked
    BY DEF Init, EndsAreMarked
  <1>4. QED
    BY <1>2, <1>3

(* session.go:87-145: whatever the order in which stale and fresh           *)
(* connections touch and end a call, its counters are those of its handlers *)
(* and a quiet call is marked ended, but for the Redis commands lost.       *)
THEOREM SessionsAgree == Spec => []SessionAgrees
  <1>1. EndsAreMarked => QuietCallIsEnded
    BY DEF EndsAreMarked, QuietCallIsEnded
  <1>2. QED
    BY <1>1, InitSessions, NextSessions, HandlersServe, TypesHold, PTL
       DEF Spec, SessionAgrees
=============================================================================
