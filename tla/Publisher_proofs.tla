-------------------------- MODULE Publisher_proofs ---------------------------
(***************************************************************************)
(* Proofs about Publisher: its inductive invariant, the safety properties  *)
(* that follow from it, and that it implements SegmentChannel, for any     *)
(* jobs, callers, workers, channel capacity and number of write attempts.  *)
(***************************************************************************)
EXTENDS Publisher, SequenceTheorems, TLAPS

LEMMA AppendFacts ==
  ASSUME NEW S, NEW s \in Seq(S), NEW e \in S
  PROVE  /\ Append(s, e) \in Seq(S)
         /\ Len(Append(s, e)) = Len(s) + 1
         /\ DOMAIN Append(s, e) = 1..(Len(s) + 1)
         /\ DOMAIN s = 1..Len(s)
         /\ Len(s) \in Nat
         /\ \A i \in 1..Len(s) : Append(s, e)[i] = s[i]
         /\ Append(s, e)[Len(s) + 1] = e
  OBVIOUS

LEMMA TailFacts ==
  ASSUME NEW S, NEW s \in Seq(S), s # <<>>
  PROVE  /\ Tail(s) \in Seq(S)
         /\ Head(s) = s[1]
         /\ Head(s) \in S
         /\ Len(s) \in Nat \ {0}
         /\ Len(Tail(s)) = Len(s) - 1
         /\ DOMAIN s = 1..Len(s)
         /\ DOMAIN Tail(s) = 1..(Len(s) - 1)
         /\ \A i \in 1..(Len(s) - 1) : Tail(s)[i] = s[i + 1]
  BY HeadTailProperties, LenProperties

-----------------------------------------------------------------------------
(* Type correctness.                                                        *)

LEMMA InitTypeOK == Init => TypeOK
  BY PublisherAssumption DEF Init, TypeOK, Outcomes

LEMMA PushTypeOK ==
  ASSUME TypeOK, NEW j \in Jobs, Push(j)
  PROVE  TypeOK'
  <1>1. queue' \in Seq(Jobs) /\ Len(queue') <= QueueSize
    BY AppendFacts, PublisherAssumption DEF TypeOK, Push, HasRoom
  <1>2. entered' \in Seq(Jobs)
    BY AppendFacts DEF TypeOK, Push
  <1>3. outcome' \in [Jobs -> Outcomes]
    BY DEF TypeOK, Push, Return, Outcomes
  <1>4. QED
    BY <1>1, <1>2, <1>3 DEF TypeOK, Push, Return

LEMMA LateTypeOK ==
  ASSUME TypeOK, NEW j \in Jobs, LateAttempt(j)
  PROVE  TypeOK'
  <1>1. Append(log, j) \in Seq(Jobs) /\ log \in Seq(Jobs)
    BY AppendFacts DEF TypeOK
  <1>2. log' \in Seq(Jobs)
    BY <1>1 DEF LateAttempt, Store
  <1>3. late' \in [Jobs -> 0..MaxAttempts]
    <2>1. late[j] \in 1..MaxAttempts
      BY PublisherAssumption DEF TypeOK, LateAttempt
    <2>2. late[j] - 1 \in 0..MaxAttempts /\ 0 \in 0..MaxAttempts
      BY <2>1, PublisherAssumption
    <2>3. late' \in {[late EXCEPT ![j] = 0], [late EXCEPT ![j] = late[j] - 1]}
      BY DEF LateAttempt
    <2>4. QED
      BY <2>2, <2>3 DEF TypeOK
  <1>4. QED
    BY <1>2, <1>3 DEF TypeOK, LateAttempt

LEMMA PublishTypeOK ==
  ASSUME TypeOK, NEW j \in Jobs, Publish(j)
  PROVE  TypeOK'
  <1>1. CASE Push(j)
    BY <1>1, PushTypeOK
  <1>2. CASE ~Push(j)
    BY <1>2 DEF Publish, Enqueue, Unblock, DropPartial, BlockFinal, GiveUpWaiting,
                SendOnClosed, Return, TypeOK, Outcomes
  <1>3. QED
    BY <1>1, <1>2

LEMMA WorkerTypeOK ==
  ASSUME TypeOK, NEW w \in Workers, WorkerStep(w)
  PROVE  TypeOK'
  <1>1. CASE Dequeue(w)
    <2>1. queue' \in Seq(Jobs) /\ Len(queue') <= QueueSize /\ Head(queue) \in Jobs
      BY <1>1, TailFacts, PublisherAssumption DEF TypeOK, Dequeue
    <2>2. QED
      BY <1>1, <2>1 DEF TypeOK, Dequeue
  <1>2. CASE WriteOk(w)
    <2>1. log' \in Seq(Jobs)
      BY <1>2, AppendFacts DEF TypeOK, WriteOk, Store
    <2>2. QED
      BY <1>2, <2>1, PublisherAssumption DEF TypeOK, WriteOk, Release
  <1>3. CASE AttemptFails(w)
    <2>1. holding[w] \in Jobs
      BY <1>3 DEF TypeOK, AttemptFails
    <2>2. Append(log, holding[w]) \in Seq(Jobs) /\ log \in Seq(Jobs)
      BY <2>1, AppendFacts DEF TypeOK
    <2>3. log' \in Seq(Jobs)
      BY <1>3, <2>2 DEF AttemptFails, Store
    <2>4. QED
      BY <1>3, <2>3, PublisherAssumption DEF TypeOK, AttemptFails
  <1>4. CASE WriteFails(w)
    BY <1>4, PublisherAssumption DEF TypeOK, WriteFails, Release
  <1>5. CASE WorkerExit(w)
    BY <1>5 DEF TypeOK, WorkerExit
  <1>6. CASE WriteTimesOut(w)
    <2>1. MaxAttempts - tries[w] \in 0..MaxAttempts
      BY <1>6, PublisherAssumption DEF TypeOK, WriteTimesOut
    <2>2. late' \in [Jobs -> 0..MaxAttempts]
      BY <1>6, <2>1 DEF TypeOK, WriteTimesOut
    <2>3. QED
      BY <1>6, <2>2, PublisherAssumption DEF TypeOK, WriteTimesOut, Release
  <1>7. QED
    BY <1>1, <1>2, <1>3, <1>4, <1>5, <1>6 DEF WorkerStep

LEMMA NextTypeOK == TypeOK /\ [Next]_pubVars => TypeOK'
  <1> SUFFICES ASSUME TypeOK, [Next]_pubVars PROVE TypeOK'
    OBVIOUS
  <1>1. CASE \E j \in Jobs : Publish(j)
    BY <1>1, PublishTypeOK
  <1>2. CASE \E w \in Workers : WorkerStep(w)
    BY <1>2, WorkerTypeOK
  <1>3. CASE CloseQueue
    BY <1>3 DEF TypeOK, CloseQueue
  <1>4. CASE CloseWriter
    BY <1>4 DEF TypeOK, CloseWriter
  <1>5. CASE \E j \in Jobs : LateAttempt(j)
    BY <1>5, LateTypeOK
  <1>6. CASE UNCHANGED pubVars
    BY <1>6 DEF TypeOK, pubVars
  <1>7. QED
    BY <1>1, <1>2, <1>3, <1>4, <1>5, <1>6 DEF Next

(* publish.go:36-50: in every reachable state the publisher's variables     *)
(* have their types; in particular the channel never exceeds its capacity.  *)
THEOREM TypeCorrect == Spec => []TypeOK
  BY InitTypeOK, NextTypeOK, PTL DEF Spec

-----------------------------------------------------------------------------
(* The inductive invariant.                                                 *)

LEMMA InitIInv == Init => IInv
  <1> SUFFICES ASSUME Init PROVE IInv
    OBVIOUS
  <1>1. TypeOK
    BY InitTypeOK
  <1>2. Len(entered) = 0 /\ Len(queue) = 0 /\ Len(log) = 0 /\ DOMAIN entered = {}
        /\ DOMAIN queue = {} /\ DOMAIN log = {}
    BY DEF Init
  <1>3. TakenJobs = {}
    BY <1>2 DEF TakenJobs, Taken
  <1>4. EnteredOnce /\ QueueIsSuffix
    BY <1>2 DEF EnteredOnce, QueueIsSuffix
  <1>5. EnteredAreAccepted
    BY <1>2 DEF Init, EnteredAreAccepted, InSeq
  <1>6. HandledWereTaken
    BY <1>2 DEF Init, HandledWereTaken
  <1>7. HeldByOne /\ ExitedAreDone /\ FailedAreReleased
    BY DEF Init, HeldByOne, ExitedAreDone, FailedAreReleased
  <1>8. TakenAreHandled
    BY <1>3 DEF TakenAreHandled
  <1>9. QED
    BY <1>1, <1>4, <1>5, <1>6, <1>7, <1>8 DEF IInv

(* A job enters the channel and the history together.                       *)
LEMMA PushKeeps ==
  ASSUME IInv, NEW j \in Jobs, outcome[j] # "accepted", Push(j)
  PROVE  IInv'
  <1> USE DEF IInv
  <1>1. TypeOK'
    BY PushTypeOK
  <1>2. ~InSeq(j, entered)
    BY DEF EnteredAreAccepted
  <1>3. /\ entered \in Seq(Jobs) /\ queue \in Seq(Jobs)
        /\ entered' = Append(entered, j) /\ queue' = Append(queue, j)
        /\ UNCHANGED <<phase, holding, tries, late, exited, log, failed>>
        /\ outcome' = [outcome EXCEPT ![j] = "accepted"]
        /\ phase = "open"
    BY DEF TypeOK, Push, Return
  <1>4. /\ Len(entered) \in Nat /\ DOMAIN entered = 1..Len(entered)
        /\ Len(entered') = Len(entered) + 1
        /\ DOMAIN entered' = 1..(Len(entered) + 1)
        /\ \A i \in 1..Len(entered) : entered'[i] = entered[i]
        /\ entered'[Len(entered) + 1] = j
    BY <1>3, AppendFacts
  <1>5. /\ Len(queue) \in Nat /\ DOMAIN queue = 1..Len(queue)
        /\ Len(queue') = Len(queue) + 1
        /\ DOMAIN queue' = 1..(Len(queue) + 1)
        /\ \A i \in 1..Len(queue) : queue'[i] = queue[i]
        /\ queue'[Len(queue) + 1] = j
    BY <1>3, AppendFacts
  <1>6. Taken' = Taken /\ Taken \in 0..Len(entered)
    BY <1>4, <1>5 DEF Taken, QueueIsSuffix
  <1>7. TakenJobs' = TakenJobs
    BY <1>4, <1>6 DEF TakenJobs
  <1>8. EnteredOnce'
    BY <1>2, <1>4 DEF EnteredOnce, InSeq
  <1>9. EnteredAreAccepted'
    <2>1. ASSUME NEW k \in Jobs PROVE InSeq(k, entered)' <=> k = j \/ InSeq(k, entered)
      BY <1>4 DEF InSeq
    <2>2. QED
      BY <1>3, <2>1 DEF EnteredAreAccepted, TypeOK
  <1>10. QueueIsSuffix'
    <2>1. ASSUME NEW i \in 1..(Len(queue) + 1) PROVE queue'[i] = entered'[Taken + i]
      <3>1. CASE i \in 1..Len(queue)
        <4>1. Taken + i \in 1..Len(entered)
          BY <3>1, <1>4, <1>5 DEF Taken, QueueIsSuffix
        <4>2. QED
          BY <3>1, <4>1, <1>4, <1>5 DEF QueueIsSuffix
      <3>2. CASE i = Len(queue) + 1
        BY <3>2, <1>4, <1>5 DEF Taken
      <3>3. QED
        BY <3>1, <3>2, <1>5
    <2>2. QED
      BY <2>1, <1>4, <1>5, <1>6 DEF QueueIsSuffix
  <1>11. HandledWereTaken'
    BY <1>3, <1>7 DEF HandledWereTaken
  <1>12. HeldByOne'
    BY <1>3 DEF HeldByOne
  <1>13. TakenAreHandled'
    BY <1>3, <1>7 DEF TakenAreHandled, Held, InSeq
  <1>14. ExitedAreDone' /\ FailedAreReleased'
    BY <1>3 DEF ExitedAreDone, FailedAreReleased
  <1>15. QED
    BY <1>1, <1>8, <1>9, <1>10, <1>11, <1>12, <1>13, <1>14

(* A call that leaves the channel alone tells its caller something other    *)
(* than "accepted" about a job that was not accepted.                       *)
LEMMA ReturnKeeps ==
  ASSUME IInv, NEW j \in Jobs, outcome[j] # "accepted",
         NEW r \in Outcomes \ {"accepted"}, Return(j, r), UNCHANGED <<queue, entered>>
  PROVE  IInv'
  <1> USE DEF IInv
  <1>1. TypeOK'
    BY DEF TypeOK, Return
  <1>2. Taken' = Taken /\ TakenJobs' = TakenJobs
    BY DEF Taken, TakenJobs
  <1>3. EnteredOnce' /\ QueueIsSuffix'
    BY <1>2 DEF EnteredOnce, QueueIsSuffix
  <1>4. EnteredAreAccepted'
    BY DEF EnteredAreAccepted, InSeq, Return, TypeOK
  <1>5. HandledWereTaken' /\ HeldByOne' /\ TakenAreHandled' /\ FailedAreReleased'
        /\ ExitedAreDone'
    BY <1>2 DEF HandledWereTaken, HeldByOne, TakenAreHandled, FailedAreReleased, ExitedAreDone,
                Held, InSeq, Return
  <1>6. QED
    BY <1>1, <1>3, <1>4, <1>5

LEMMA PublishKeeps ==
  ASSUME IInv, NEW j \in Jobs, Publish(j)
  PROVE  IInv'
  <1>1. outcome[j] # "accepted"
    BY DEF Publish, Enqueue, DropPartial, BlockFinal, Unblock, GiveUpWaiting,
           SendOnClosed, Calls
  <1>2. CASE Enqueue(j) \/ Unblock(j)
    BY <1>1, <1>2, PushKeeps DEF Enqueue, Unblock
  <1>3. CASE DropPartial(j)
    BY <1>1, <1>3, ReturnKeeps DEF DropPartial, Outcomes
  <1>4. CASE BlockFinal(j)
    BY <1>1, <1>4, ReturnKeeps DEF BlockFinal, Outcomes
  <1>5. CASE GiveUpWaiting(j)
    BY <1>1, <1>5, ReturnKeeps DEF GiveUpWaiting, Outcomes
  <1>6. CASE SendOnClosed(j)
    BY <1>1, <1>6, ReturnKeeps DEF SendOnClosed, Outcomes
  <1>7. QED
    BY <1>2, <1>3, <1>4, <1>5, <1>6 DEF Publish
(* A worker takes the head of the channel: the next job of the history.     *)
LEMMA DequeueKeeps ==
  ASSUME IInv, NEW w \in Workers, Dequeue(w)
  PROVE  IInv'
  <1> USE DEF IInv
  <1> DEFINE next == entered[Taken + 1]
  <1>1. TypeOK'
    BY WorkerTypeOK DEF WorkerStep
  <1>2. /\ queue \in Seq(Jobs) /\ queue # <<>> /\ queue' = Tail(queue)
        /\ entered \in Seq(Jobs) /\ Len(entered) \in Nat /\ DOMAIN entered = 1..Len(entered)
        /\ holding[w] = NoJob
        /\ holding' = [holding EXCEPT ![w] = Head(queue)]
        /\ UNCHANGED <<phase, outcome, tries, late, exited, log, failed, entered>>
    BY LenProperties DEF TypeOK, Dequeue, Idle
  <1>3. /\ Head(queue) = queue[1]
        /\ Len(queue) \in Nat \ {0}
        /\ Len(queue') = Len(queue) - 1
        /\ DOMAIN queue = 1..Len(queue)
        /\ DOMAIN queue' = 1..(Len(queue) - 1)
        /\ \A i \in 1..(Len(queue) - 1) : queue'[i] = queue[i + 1]
    BY <1>2, TailFacts
  <1>4. Taken \in 0..(Len(entered) - 1) /\ Taken' = Taken + 1
    BY <1>2, <1>3 DEF Taken, QueueIsSuffix
  <1>5. Head(queue) = next
    BY <1>2, <1>3 DEF QueueIsSuffix
  <1>6. TakenJobs' = TakenJobs \cup {next}
    <2>1. 1..(Taken + 1) = (1..Taken) \cup {Taken + 1}
      BY <1>4
    <2>2. QED
      BY <2>1, <1>2, <1>4 DEF TakenJobs
  <1>7. next \notin TakenJobs
    <2> SUFFICES ASSUME NEW n \in 1..Taken, entered[n] = entered[Taken + 1] PROVE FALSE
      BY DEF TakenJobs
    <2>1. n \in DOMAIN entered /\ Taken + 1 \in DOMAIN entered /\ n # Taken + 1
      BY <1>2, <1>4
    <2>2. QED
      BY <2>1 DEF EnteredOnce
  <1>8. next \in Jobs /\ next # NoJob
    BY <1>2, <1>4, PublisherAssumption, ElementOfSeq
  <1>9. holding'[w] = next /\ \A v \in Workers \ {w} : holding'[v] = holding[v]
    BY <1>2, <1>5 DEF TypeOK
  <1>10. EnteredOnce' /\ EnteredAreAccepted'
    BY <1>2 DEF EnteredOnce, EnteredAreAccepted, InSeq
  <1>11. QueueIsSuffix'
    <2>1. ASSUME NEW i \in 1..(Len(queue) - 1) PROVE queue'[i] = entered[Taken + 1 + i]
      <3>1. queue'[i] = queue[i + 1] /\ i + 1 \in 1..Len(queue)
        BY <1>3
      <3>2. queue[i + 1] = entered[Taken + (i + 1)]
        BY <3>1, <1>3 DEF QueueIsSuffix
      <3>3. Taken + (i + 1) = Taken + 1 + i
        BY <1>3, <1>4
      <3>4. QED
        BY <3>1, <3>2, <3>3
    <2>2. Len(queue') <= Len(entered') /\ entered' = entered
      BY <1>2, <1>3 DEF QueueIsSuffix
    <2>3. \A i \in DOMAIN queue' : queue'[i] = entered'[Taken' + i]
      BY <2>1, <2>2, <1>3, <1>4
    <2>4. QED
      BY <2>2, <2>3 DEF QueueIsSuffix
  <1>12. HandledWereTaken'
    BY <1>2, <1>6, <1>9 DEF HandledWereTaken
  <1>13. HeldByOne'
    BY <1>7, <1>9 DEF HeldByOne, HandledWereTaken
  <1>14. TakenAreHandled'
    <2> SUFFICES ASSUME NEW j \in TakenJobs \cup {next}
                 PROVE  (\E v \in Workers : holding'[v] = j) \/ InSeq(j, log) \/ j \in failed
      BY <1>2, <1>6 DEF TakenAreHandled, Held, InSeq
    <2>1. CASE j = next
      BY <2>1, <1>9
    <2>2. CASE j \in TakenJobs /\ Held(j)
      <3>1. j # NoJob
        BY <2>2, <1>2, <1>4, ElementOfSeq, PublisherAssumption DEF TakenJobs
      <3>2. QED
        BY <2>2, <3>1, <1>2, <1>9 DEF Held
    <2>3. CASE j \in TakenJobs /\ ~Held(j)
      BY <2>3 DEF TakenAreHandled
    <2>4. QED
      BY <2>1, <2>2, <2>3
  <1>15. ExitedAreDone' /\ FailedAreReleased'
    <2>1. exited = {}
      BY <1>2 DEF ExitedAreDone
    <2>2. next \notin failed
      BY <1>7 DEF HandledWereTaken
    <2>3. FailedAreReleased'
      BY <2>2, <1>2, <1>9 DEF FailedAreReleased
    <2>4. QED
      BY <2>1, <2>3, <1>2 DEF ExitedAreDone
  <1>16. QED
    BY <1>1, <1>10, <1>11, <1>12, <1>13, <1>14, <1>15

(* What an attempt does to the topic: nothing, or one more copy of its job. *)
LEMMA LogGrows ==
  ASSUME TypeOK, NEW j \in Jobs, Store(j) \/ UNCHANGED log
  PROVE  /\ \A k : InSeq(k, log) => InSeq(k, log')
         /\ \A i \in DOMAIN log' : (i \in DOMAIN log /\ log'[i] = log[i]) \/ log'[i] = j
         /\ Store(j) => InSeq(j, log')
  <1>1. CASE UNCHANGED log /\ ~Store(j)
    BY <1>1 DEF InSeq
  <1>2. CASE Store(j)
    <2>1. log \in Seq(Jobs) /\ log' = Append(log, j)
      BY <1>2 DEF TypeOK, Store
    <2>2. /\ DOMAIN log' = 1..(Len(log) + 1) /\ DOMAIN log = 1..Len(log) /\ Len(log) \in Nat
          /\ \A i \in 1..Len(log) : log'[i] = log[i]
          /\ log'[Len(log) + 1] = j
      BY <2>1, AppendFacts
    <2>3. QED
      BY <2>2 DEF InSeq
  <1>3. QED
    BY <1>1, <1>2

Writes(w) == WriteOk(w) \/ AttemptFails(w) \/ WriteFails(w) \/ WriteTimesOut(w)

LEMMA WriteKeeps ==
  ASSUME IInv, NEW w \in Workers, Writes(w)
  PROVE  IInv'
  <1> USE DEF IInv
  <1>1. TypeOK'
    BY WorkerTypeOK DEF WorkerStep, Writes
  <1>2. /\ UNCHANGED <<queue, phase, outcome, exited, entered>>
        /\ holding[w] # NoJob /\ holding[w] \in Jobs
        /\ Store(holding[w]) \/ UNCHANGED log
        /\ failed' = failed \/ failed' = failed \cup {holding[w]}
        /\ holding' = holding \/ holding' = [holding EXCEPT ![w] = NoJob]
    BY DEF Writes, WriteOk, AttemptFails, WriteFails, WriteTimesOut, Release, TypeOK
  <1>3. \A v \in Workers : holding'[v] = holding[v] \/ (v = w /\ holding'[v] = NoJob)
    <2>1. CASE holding' = holding
      BY <2>1
    <2>2. CASE holding' = [holding EXCEPT ![w] = NoJob]
      BY <2>2 DEF TypeOK
    <2>3. QED
      BY <1>2, <2>1, <2>2
  <1>4. /\ \A j : InSeq(j, log) => InSeq(j, log')
        /\ \A i \in DOMAIN log' : (i \in DOMAIN log /\ log'[i] = log[i]) \/ log'[i] = holding[w]
        /\ Store(holding[w]) => InSeq(holding[w], log')
    BY <1>2, LogGrows
  <1>5. Taken' = Taken /\ TakenJobs' = TakenJobs
    BY <1>2 DEF Taken, TakenJobs
  <1>6. EnteredOnce' /\ QueueIsSuffix' /\ EnteredAreAccepted'
    BY <1>2, <1>5 DEF EnteredOnce, QueueIsSuffix, EnteredAreAccepted, InSeq
  <1>7. HandledWereTaken'
    BY <1>2, <1>3, <1>4, <1>5 DEF HandledWereTaken
  <1>8. HeldByOne'
    BY <1>3 DEF HeldByOne
  <1>9. TakenAreHandled'
    <2> SUFFICES ASSUME NEW j \in TakenJobs
                 PROVE  Held(j)' \/ InSeq(j, log') \/ j \in failed'
      BY <1>5 DEF TakenAreHandled, InSeq
    <2>1. CASE InSeq(j, log) \/ j \in failed
      BY <2>1, <1>2, <1>4
    <2>2. CASE \E v \in Workers \ {w} : holding[v] = j
      BY <2>2, <1>3 DEF Held
    <2>3. CASE holding[w] = j /\ holding' = holding
      BY <2>3 DEF Held
    <2>4. CASE holding[w] = j /\ holding' # holding
      BY <2>4, <1>4 DEF Writes, WriteOk, AttemptFails, WriteFails, WriteTimesOut
    <2>5. QED
      BY <2>1, <2>2, <2>3, <2>4 DEF TakenAreHandled, Held
  <1>10. ExitedAreDone'
    BY <1>2, <1>3, <1>1 DEF ExitedAreDone, TypeOK
  <1>11. FailedAreReleased'
    <2>1. \A v \in Workers : holding'[v] \notin failed'
      <3> SUFFICES ASSUME NEW v \in Workers, holding'[v] # NoJob PROVE holding'[v] \notin failed'
        BY <1>1, PublisherAssumption DEF TypeOK
      <3>1. holding'[v] = holding[v] /\ holding[v] \notin failed
        BY <1>3 DEF FailedAreReleased
      <3>2. CASE failed' = failed
        BY <3>1, <3>2
      <3>3. CASE failed' # failed
        <4>1. holding'[w] = NoJob
          BY <3>3 DEF Writes, WriteOk, AttemptFails, WriteFails, WriteTimesOut, Release, TypeOK
        <4>2. v # w
          BY <4>1
        <4>3. QED
          BY <3>1, <4>2, <1>2 DEF HeldByOne
      <3>4. QED
        BY <3>2, <3>3
    <2>2. ASSUME NEW j \in Jobs, late'[j] > 0 PROVE j \in failed' /\ phase' # "closed"
      <3>1. w \notin exited
        BY <1>2 DEF ExitedAreDone
      <3>2. CASE late'[j] = late[j]
        BY <2>2, <3>2, <1>2 DEF FailedAreReleased
      <3>3. CASE late'[j] # late[j]
        <4>1. WriteTimesOut(w) /\ j = holding[w]
          BY <3>3 DEF Writes, WriteOk, AttemptFails, WriteFails, WriteTimesOut, TypeOK
        <4>2. QED
          BY <4>1, <3>1 DEF WriteTimesOut, ExitedAreDone
      <3>4. QED
        BY <3>2, <3>3
    <2>3. QED
      BY <2>1, <2>2 DEF FailedAreReleased
  <1>12. QED
    BY <1>1, <1>6, <1>7, <1>8, <1>9, <1>10, <1>11

(* An attempt nobody waits for adds to the topic what was taken before.     *)
LEMMA LateKeeps ==
  ASSUME IInv, NEW j \in Jobs, LateAttempt(j)
  PROVE  IInv'
  <1> USE DEF IInv
  <1>1. TypeOK'
    BY LateTypeOK
  <1>2. /\ UNCHANGED <<queue, phase, outcome, holding, exited, failed, entered>>
        /\ late[j] > 0
        /\ Store(j) \/ UNCHANGED log
    BY DEF LateAttempt
  <1>3. /\ \A k : InSeq(k, log) => InSeq(k, log')
        /\ \A i \in DOMAIN log' : (i \in DOMAIN log /\ log'[i] = log[i]) \/ log'[i] = j
    BY <1>2, LogGrows
  <1>4. j \in failed /\ phase # "closed" /\ j \in TakenJobs
    BY <1>2 DEF FailedAreReleased, HandledWereTaken
  <1>5. Taken' = Taken /\ TakenJobs' = TakenJobs
    BY <1>2 DEF Taken, TakenJobs
  <1>6. EnteredOnce' /\ QueueIsSuffix' /\ EnteredAreAccepted' /\ HeldByOne' /\ ExitedAreDone'
    BY <1>2, <1>5
    DEF EnteredOnce, QueueIsSuffix, EnteredAreAccepted, HeldByOne, ExitedAreDone, InSeq
  <1>7. HandledWereTaken'
    BY <1>2, <1>3, <1>4, <1>5 DEF HandledWereTaken
  <1>8. TakenAreHandled'
    BY <1>2, <1>3, <1>5 DEF TakenAreHandled, Held
  <1>9. FailedAreReleased'
    <2>1. \A k \in Jobs : late'[k] = late[k] \/ k = j
      BY DEF LateAttempt, TypeOK
    <2>2. QED
      BY <2>1, <1>2, <1>4 DEF FailedAreReleased
  <1>10. QED
    BY <1>1, <1>6, <1>7, <1>8, <1>9

LEMMA NextIInv == IInv /\ [Next]_pubVars => IInv'
  <1> SUFFICES ASSUME IInv, [Next]_pubVars PROVE IInv'
    OBVIOUS
  <1> DEFINE Frame == UNCHANGED <<queue, outcome, holding, tries, late, log, failed, entered>>
  <1>1. ASSUME Frame, TypeOK', ExitedAreDone', FailedAreReleased' PROVE IInv'
    BY <1>1 DEF IInv, EnteredOnce, EnteredAreAccepted, QueueIsSuffix, HandledWereTaken,
                HeldByOne, TakenAreHandled, Held, InSeq, Taken, TakenJobs
  <1>2. TypeOK'
    BY NextTypeOK DEF IInv
  <1>3. CASE \E j \in Jobs : Publish(j)
    BY <1>3, PublishKeeps
  <1>4. ASSUME NEW w \in Workers, WorkerStep(w) PROVE IInv'
    <2>1. CASE Dequeue(w)
      BY <2>1, DequeueKeeps
    <2>2. CASE Writes(w)
      BY <2>2, WriteKeeps
    <2>3. CASE WorkerExit(w)
      <3>1. ExitedAreDone' /\ FailedAreReleased'
        BY <2>3 DEF IInv, WorkerExit, Idle, ExitedAreDone, FailedAreReleased, TypeOK
      <3>2. QED
        BY <2>3, <3>1, <1>1, <1>2 DEF WorkerExit
    <2>4. QED
      BY <1>4, <2>1, <2>2, <2>3 DEF WorkerStep, Writes
  <1>5. CASE CloseQueue
    <2>1. ExitedAreDone' /\ FailedAreReleased'
      BY <1>5 DEF IInv, CloseQueue, ExitedAreDone, FailedAreReleased
    <2>2. QED
      BY <1>5, <2>1, <1>1, <1>2 DEF CloseQueue
  <1>6. CASE CloseWriter
    <2>1. ExitedAreDone' /\ FailedAreReleased'
      BY <1>6 DEF IInv, CloseWriter, ExitedAreDone, FailedAreReleased
    <2>2. QED
      BY <1>6, <2>1, <1>1, <1>2 DEF CloseWriter
  <1>7. CASE UNCHANGED pubVars
    <2>1. ExitedAreDone' /\ FailedAreReleased'
      BY <1>7 DEF IInv, pubVars, ExitedAreDone, FailedAreReleased
    <2>2. QED
      BY <1>7, <2>1, <1>1, <1>2 DEF pubVars
  <1>8. CASE \E j \in Jobs : LateAttempt(j)
    BY <1>8, LateKeeps
  <1>9. QED
    BY <1>3, <1>4, <1>5, <1>6, <1>7, <1>8 DEF Next

(* publish.go:121-191: the channel is always the part of the history the    *)
(* workers have not reached, and whatever they reached is in one worker's   *)
(* hand, in the topic, or counted as an error.                              *)
THEOREM Inductive == Spec => []IInv
  BY InitIInv, NextIInv, PTL DEF Spec
-----------------------------------------------------------------------------
(* What follows from it.                                                    *)

LEMMA WaitingIsNotTaken == IInv => \A j \in Jobs : Waiting(j) => j \notin TakenJobs
  <1> SUFFICES ASSUME IInv, NEW i \in DOMAIN queue, NEW n \in 1..Taken,
                      queue[i] = entered[n]
               PROVE  FALSE
    BY DEF Waiting, InSeq, TakenJobs
  <1>1. /\ Len(queue) \in Nat /\ DOMAIN queue = 1..Len(queue)
        /\ Len(entered) \in Nat /\ DOMAIN entered = 1..Len(entered)
    BY LenProperties DEF IInv, TypeOK
  <1>2. queue[i] = entered[Taken + i] /\ Len(queue) <= Len(entered)
    BY DEF IInv, QueueIsSuffix
  <1>3. n \in DOMAIN entered /\ Taken + i \in DOMAIN entered /\ n # Taken + i
    BY <1>1, <1>2 DEF Taken
  <1>4. QED
    BY <1>2, <1>3 DEF IInv, EnteredOnce

LEMMA EnteredIsTakenOrWaiting ==
  IInv => \A j \in Jobs : InSeq(j, entered) <=> (j \in TakenJobs \/ Waiting(j))
  <1> SUFFICES ASSUME IInv, NEW j \in Jobs
               PROVE  InSeq(j, entered) <=> (j \in TakenJobs \/ Waiting(j))
    OBVIOUS
  <1>1. /\ Len(queue) \in Nat /\ DOMAIN queue = 1..Len(queue)
        /\ Len(entered) \in Nat /\ DOMAIN entered = 1..Len(entered)
    BY LenProperties DEF IInv, TypeOK
  <1>2. /\ Len(queue) <= Len(entered)
        /\ \A i \in DOMAIN queue : queue[i] = entered[Taken + i]
    BY DEF IInv, QueueIsSuffix
  <1>3. ASSUME NEW n \in DOMAIN entered, entered[n] = j
        PROVE  j \in TakenJobs \/ Waiting(j)
    <2>1. CASE n <= Taken
      BY <2>1, <1>1, <1>3 DEF TakenJobs
    <2>2. CASE n > Taken
      <3>1. n - Taken \in DOMAIN queue /\ Taken + (n - Taken) = n
        BY <2>2, <1>1, <1>2 DEF Taken
      <3>2. QED
        BY <3>1, <1>2, <1>3 DEF Waiting, InSeq
    <2>3. QED
      BY <2>1, <2>2, <1>1 DEF Taken
  <1>4. ASSUME NEW n \in 1..Taken, entered[n] = j PROVE InSeq(j, entered)
    <2>1. n \in DOMAIN entered
      BY <1>1, <1>2 DEF Taken
    <2>2. QED
      BY <2>1, <1>4 DEF InSeq
  <1>5. ASSUME NEW i \in DOMAIN queue, queue[i] = j PROVE InSeq(j, entered)
    <2>1. Taken + i \in DOMAIN entered
      BY <1>1, <1>2 DEF Taken
    <2>2. QED
      BY <2>1, <1>2, <1>5 DEF InSeq
  <1>6. QED
    BY <1>3, <1>4, <1>5 DEF InSeq, TakenJobs, Waiting

LEMMA TakenJobsAreJobs == IInv => TakenJobs \subseteq Jobs
  <1> SUFFICES ASSUME IInv, NEW n \in 1..Taken PROVE entered[n] \in Jobs
    BY DEF TakenJobs
  <1>1. Len(queue) \in Nat /\ Len(entered) \in Nat /\ entered \in Seq(Jobs)
    BY LenProperties DEF IInv, TypeOK
  <1>2. n \in 1..Len(entered)
    BY <1>1 DEF Taken
  <1>3. QED
    BY <1>1, <1>2, ElementOfSeq

(* publish.go:121-180: whatever happens, a job whose caller was told nil    *)
(* for a place in the channel is in the channel, in one worker's hand, or   *)
(* settled.                                                                 *)
THEOREM Accounting == Spec => []AcceptedIsAccountedFor
  <1>1. IInv => AcceptedIsAccountedFor
    <2> SUFFICES ASSUME IInv, NEW j \in Jobs, outcome[j] = "accepted"
                 PROVE  /\ Waiting(j) \/ Held(j) \/ Settled(j)
                        /\ ~(Waiting(j) /\ Held(j))
                        /\ late[j] > 0 => Settled(j) /\ j \in failed
      BY DEF AcceptedIsAccountedFor
    <2>1. j \in TakenJobs \/ Waiting(j)
      BY EnteredIsTakenOrWaiting DEF IInv, EnteredAreAccepted
    <2>2. j \in TakenJobs => Held(j) \/ InSeq(j, log) \/ j \in failed
      BY DEF IInv, TakenAreHandled
    <2>3. Held(j) => j \in TakenJobs
      BY PublisherAssumption DEF IInv, HandledWereTaken, Held
    <2>4. Waiting(j) => j \notin TakenJobs
      BY WaitingIsNotTaken
    <2>5. j \in failed => ~Held(j)
      BY DEF IInv, FailedAreReleased, Held
    <2>6. late[j] > 0 => j \in failed
      BY DEF IInv, FailedAreReleased
    <2>7. j \in failed => j \in TakenJobs
      BY DEF IInv, HandledWereTaken
    <2>8. QED
      BY <2>1, <2>2, <2>3, <2>4, <2>5, <2>6, <2>7 DEF Settled
  <1>2. QED
    BY <1>1, Inductive, PTL

(* publish.go:158-180: no job is ever in the channel twice or written by    *)
(* two workers.                                                             *)
THEOREM SingleWriter == Spec => []WrittenByOne
  <1>1. IInv => WrittenByOne
    <2> SUFFICES ASSUME IInv PROVE WrittenByOne
      OBVIOUS
    <2>1. /\ Len(queue) \in Nat /\ DOMAIN queue = 1..Len(queue)
          /\ Len(entered) \in Nat /\ DOMAIN entered = 1..Len(entered)
      BY LenProperties DEF IInv, TypeOK
    <2>2. ASSUME NEW i \in DOMAIN queue, NEW k \in DOMAIN queue, queue[i] = queue[k]
          PROVE  i = k
      <3>1. Taken + i \in DOMAIN entered /\ Taken + k \in DOMAIN entered
        BY <2>1 DEF IInv, QueueIsSuffix, Taken
      <3>2. entered[Taken + i] = entered[Taken + k]
        BY <2>2 DEF IInv, QueueIsSuffix
      <3>3. Taken + i = Taken + k
        BY <3>1, <3>2 DEF IInv, EnteredOnce
      <3>4. QED
        BY <3>3, <2>1 DEF Taken
    <2>3. QED
      BY <2>2 DEF WrittenByOne, IInv, HeldByOne
  <1>2. QED
    BY <1>1, Inductive, PTL

(* publish.go:136-155: a segment whose caller was told "shed", or that was  *)
(* dropped, is never in the topic nor among the failed writes.              *)
THEOREM NothingElseStored == Spec => []OnlyAcceptedIsStored
  <1>1. IInv => OnlyAcceptedIsStored
    <2> SUFFICES ASSUME IInv, NEW j \in Jobs, InSeq(j, log) \/ j \in failed
                 PROVE  outcome[j] = "accepted"
      BY DEF OnlyAcceptedIsStored
    <2>1. j \in TakenJobs
      BY DEF IInv, HandledWereTaken, InSeq
    <2>2. InSeq(j, entered)
      BY <2>1, EnteredIsTakenOrWaiting
    <2>3. QED
      BY <2>2 DEF IInv, EnteredAreAccepted
  <1>2. QED
    BY <1>1, Inductive, PTL

(* publish.go:86-119, 158-180: the worker pool lets a job overtake only the *)
(* jobs other workers already hold.                                         *)
THEOREM BoundedReordering == Spec => []OvertakesOnlyHeld
  <1>1. IInv => OvertakesOnlyHeld
    <2> SUFFICES ASSUME IInv, NEW i \in DOMAIN entered, NEW k \in DOMAIN entered,
                        i < k, InSeq(entered[k], log), Waiting(entered[i])
                 PROVE  FALSE
      BY DEF OvertakesOnlyHeld
    <2>1. /\ Len(queue) \in Nat /\ DOMAIN queue = 1..Len(queue)
          /\ Len(entered) \in Nat /\ DOMAIN entered = 1..Len(entered)
          /\ entered[i] \in Jobs
      BY LenProperties, ElementOfSeq DEF IInv, TypeOK
    <2>2. entered[k] \in TakenJobs
      BY DEF IInv, HandledWereTaken, InSeq
    <2>3. PICK n \in 1..Taken : entered[n] = entered[k]
      BY <2>2 DEF TakenJobs
    <2>4. n \in DOMAIN entered /\ n <= Taken
      BY <2>1 DEF IInv, QueueIsSuffix, Taken
    <2>5. n = k
      BY <2>3, <2>4 DEF IInv, EnteredOnce
    <2>6. i \in 1..Taken
      BY <2>1, <2>4, <2>5 DEF Taken
    <2>7. QED
      BY <2>1, <2>6, WaitingIsNotTaken DEF TakenJobs
  <1>2. QED
    BY <1>1, Inductive, PTL

LEMMA ClosedIsSettled ==
  IInv /\ exited = Workers => \A j \in Jobs : ~Waiting(j) /\ ~Held(j)
  <1> SUFFICES ASSUME IInv, exited = Workers, NEW j \in Jobs
               PROVE  ~Waiting(j) /\ ~Held(j)
    OBVIOUS
  <1>1. queue = <<>>
    BY PublisherAssumption DEF IInv, ExitedAreDone
  <1>2. ~Waiting(j)
    BY <1>1 DEF Waiting, InSeq
  <1>3. ~Held(j)
    BY PublisherAssumption DEF IInv, ExitedAreDone, Held
  <1>4. QED
    BY <1>2, <1>3

(* publish.go:182-191: when Close returns nothing accepted is left behind.  *)
THEOREM Draining == Spec => []CloseDrains
  <1>1. IInv /\ AcceptedIsAccountedFor => CloseDrains
    <2> SUFFICES ASSUME IInv, AcceptedIsAccountedFor, phase = "closed", NEW j \in Jobs
                 PROVE  late[j] = 0 /\ (outcome[j] = "accepted" => Settled(j))
      BY DEF CloseDrains
    <2>1. late[j] = 0
      BY PublisherAssumption DEF IInv, FailedAreReleased, TypeOK
    <2>2. QED
      BY <2>1, ClosedIsSettled DEF AcceptedIsAccountedFor, IInv, ExitedAreDone
  <1>2. QED
    BY <1>1, Inductive, Accounting, PTL
-----------------------------------------------------------------------------
(* The publisher implements SegmentChannel.                                 *)

PendingJobs == {j \in Jobs : Unsettled(j)}
StoredJobs == {j \in Jobs : InSeq(j, log)}

LEMMA InitRefines == Init => Channel!Init
  <1> SUFFICES ASSUME Init PROVE Channel!Init
    OBVIOUS
  <1>1. Len(queue) = 0 /\ Len(log) = 0 /\ DOMAIN queue = {} /\ DOMAIN log = {}
    BY DEF Init
  <1>2. PendingJobs = {} /\ StoredJobs = {}
    BY <1>1, PublisherAssumption
    DEF Init, PendingJobs, StoredJobs, Unsettled, Waiting, Held, InSeq
  <1>3. QED
    BY <1>2 DEF Channel!Init, PendingJobs, StoredJobs, Init

LEMMA PublishRefines ==
  ASSUME IInv, NEW j \in Jobs, Publish(j)
  PROVE  Channel!JobStep(j)
  <1> USE DEF IInv
  <1>1. StoredJobs' = StoredJobs
    BY DEF Publish, Enqueue, Unblock, Push, DropPartial, BlockFinal, GiveUpWaiting,
           SendOnClosed, Return, StoredJobs, InSeq
  <1>2. CASE Enqueue(j) \/ Unblock(j)
    <2>1. queue' = Append(queue, j) /\ queue \in Seq(Jobs) /\ holding' = holding
      BY <1>2 DEF Enqueue, Unblock, Push, Return, TypeOK
    <2>2. /\ DOMAIN queue' = 1..(Len(queue) + 1) /\ DOMAIN queue = 1..Len(queue)
          /\ Len(queue) \in Nat
          /\ \A i \in 1..Len(queue) : queue'[i] = queue[i]
          /\ queue'[Len(queue) + 1] = j
      BY <2>1, AppendFacts
    <2>3. \A k \in Jobs : InSeq(k, queue') <=> InSeq(k, queue) \/ k = j
      BY <2>2 DEF InSeq
    <2>4. PendingJobs' = PendingJobs \cup {j}
      BY <2>1, <2>3 DEF PendingJobs, Unsettled, Waiting, Held, InSeq
    <2>5. Channel!Accept(j)
      BY <1>1, <1>2, <2>4 DEF Channel!Accept, Channel!Tell, PendingJobs, StoredJobs, Enqueue,
         Unblock, Calls, Push, Return
    <2>6. QED
      BY <2>5 DEF Channel!JobStep
  <1>3. CASE ~Enqueue(j) /\ ~Unblock(j)
    <2>1. PendingJobs' = PendingJobs
      BY <1>3 DEF Publish, DropPartial, BlockFinal, GiveUpWaiting, SendOnClosed, Return,
                  PendingJobs, Unsettled, Waiting, Held, InSeq
    <2>2. QED
      BY <1>1, <1>3, <2>1
      DEF Publish, DropPartial, BlockFinal, GiveUpWaiting, SendOnClosed, Return, Calls,
          PendingJobs, StoredJobs, Channel!JobStep, Channel!DropPartial, Channel!MakeWait,
          Channel!Shed, Channel!Panic, Channel!Tell
  <1>4. QED
    BY <1>2, <1>3
LEMMA DequeueRefines ==
  ASSUME IInv, NEW w \in Workers, Dequeue(w)
  PROVE  UNCHANGED <<outcome, PendingJobs, StoredJobs, failed, phase>>
  <1> USE DEF IInv
  <1>1. /\ queue \in Seq(Jobs) /\ queue # <<>> /\ queue' = Tail(queue)
        /\ holding \in [Workers -> Jobs \cup {NoJob}] /\ holding[w] = NoJob
        /\ holding' = [holding EXCEPT ![w] = Head(queue)]
        /\ UNCHANGED <<outcome, failed, phase, log>>
    BY DEF Dequeue, Idle, TypeOK
  <1>2. /\ Head(queue) = queue[1] /\ Head(queue) \in Jobs /\ Len(queue) \in Nat \ {0}
        /\ DOMAIN queue = 1..Len(queue)
        /\ DOMAIN queue' = 1..(Len(queue) - 1)
        /\ \A i \in 1..(Len(queue) - 1) : queue'[i] = queue[i + 1]
    BY <1>1, TailFacts
  <1>3. \A k \in Jobs : InSeq(k, queue) <=> InSeq(k, queue') \/ k = Head(queue)
    <2> TAKE k \in Jobs
    <2>1. ASSUME NEW i \in DOMAIN queue, queue[i] = k
          PROVE  InSeq(k, queue') \/ k = Head(queue)
      <3>1. CASE i = 1
        BY <3>1, <2>1, <1>2
      <3>2. CASE i # 1
        <4>1. i - 1 \in DOMAIN queue' /\ queue'[i - 1] = queue[i]
          BY <3>2, <1>2
        <4>2. QED
          BY <4>1, <2>1 DEF InSeq
      <3>3. QED
        BY <3>1, <3>2
    <2>2. ASSUME NEW i \in DOMAIN queue', queue'[i] = k PROVE InSeq(k, queue)
      <3>1. i + 1 \in DOMAIN queue /\ queue[i + 1] = k
        BY <2>2, <1>2
      <3>2. QED
        BY <3>1 DEF InSeq
    <2>3. InSeq(Head(queue), queue)
      BY <1>2 DEF InSeq
    <2>4. QED
      BY <2>1, <2>2, <2>3 DEF InSeq
  <1>4. \A k \in Jobs : (\E v \in Workers : holding'[v] = k) <=> Held(k) \/ k = Head(queue)
    BY <1>1, <1>2, PublisherAssumption DEF Held
  <1>5. PendingJobs' = PendingJobs
    BY <1>3, <1>4 DEF PendingJobs, Unsettled, Waiting, Held, InSeq
  <1>6. QED
    BY <1>1, <1>5 DEF StoredJobs, InSeq

LEMMA WriteRefines ==
  ASSUME IInv, NEW w \in Workers, Writes(w)
  PROVE  \/ \E j \in Jobs : Channel!JobStep(j)
         \/ UNCHANGED <<outcome, PendingJobs, StoredJobs, failed, phase>>
  <1> USE DEF IInv
  <1> DEFINE j == holding[w]
  <1>1. /\ j # NoJob /\ j \in Jobs
        /\ Store(j) \/ UNCHANGED log
        /\ UNCHANGED <<queue, outcome, phase>>
    BY DEF Writes, WriteOk, AttemptFails, WriteFails, WriteTimesOut, TypeOK
  <1>2. Held(j) /\ ~Waiting(j) /\ j \in PendingJobs
    <2>1. Held(j)
      BY DEF Held
    <2>2. j \in TakenJobs
      BY <1>1 DEF HandledWereTaken
    <2>3. QED
      BY <2>1, <2>2, <1>1, WaitingIsNotTaken DEF PendingJobs, Unsettled
  <1>3. /\ \A k : InSeq(k, log) => InSeq(k, log')
        /\ \A i \in DOMAIN log' : (i \in DOMAIN log /\ log'[i] = log[i]) \/ log'[i] = j
        /\ Store(j) => InSeq(j, log')
    BY <1>1, LogGrows
  <1>4. Store(j) => StoredJobs' = StoredJobs \cup {j}
    BY <1>1, <1>3 DEF StoredJobs, InSeq
  <1>5. UNCHANGED log => StoredJobs' = StoredJobs
    BY DEF StoredJobs, InSeq
  <1>6. holding' = [holding EXCEPT ![w] = NoJob] => PendingJobs' = PendingJobs \ {j}
    <2> SUFFICES ASSUME holding' = [holding EXCEPT ![w] = NoJob]
                 PROVE  PendingJobs' = PendingJobs \ {j}
      OBVIOUS
    <2>1. \A v \in Workers : holding'[v] = IF v = w THEN NoJob ELSE holding[v]
      BY DEF TypeOK
    <2>2. \A k \in Jobs : (\E v \in Workers : holding'[v] = k) <=> Held(k) /\ k # j
      <3> TAKE k \in Jobs
      <3>1. ASSUME NEW v \in Workers, holding'[v] = k PROVE Held(k) /\ k # j
        BY <3>1, <2>1, <1>1, PublisherAssumption DEF Held, HeldByOne
      <3>2. ASSUME Held(k), k # j PROVE \E v \in Workers : holding'[v] = k
        BY <3>2, <2>1 DEF Held
      <3>3. QED
        BY <3>1, <3>2
    <2>3. QED
      BY <2>2, <1>1, <1>2 DEF PendingJobs, Unsettled, Waiting, Held, InSeq
  <1>7. holding' = holding => PendingJobs' = PendingJobs
    BY <1>1 DEF PendingJobs, Unsettled, Waiting, Held, InSeq
  <1>8. CASE WriteOk(w)
    <2>1. Channel!Store(j)
      BY <1>8, <1>2, <1>4, <1>6
      DEF WriteOk, Release, Channel!Store, PendingJobs, StoredJobs
    <2>2. QED
      BY <1>1, <2>1 DEF Channel!JobStep
  <1>9. CASE AttemptFails(w)
    <2>1. CASE Store(j)
      <3>1. Channel!StoreUnacknowledged(j)
        BY <1>9, <2>1, <1>2, <1>4, <1>7
        DEF AttemptFails, Channel!StoreUnacknowledged, PendingJobs, StoredJobs
      <3>2. QED
        BY <1>1, <3>1 DEF Channel!JobStep
    <2>2. CASE UNCHANGED log
      BY <1>9, <2>2, <1>1, <1>5, <1>7 DEF AttemptFails
    <2>3. QED
      BY <1>1, <2>1, <2>2
  <1>10. CASE WriteFails(w)
    <2>1. Channel!Fail(j)
      BY <1>10, <1>2, <1>5, <1>6
      DEF WriteFails, Release, Channel!Fail, PendingJobs, StoredJobs
    <2>2. QED
      BY <1>1, <2>1 DEF Channel!JobStep
  <1>11. CASE WriteTimesOut(w)
    <2>1. log' = log
      BY <1>11 DEF WriteTimesOut
    <2>2. Channel!Fail(j)
      BY <1>11, <2>1, <1>2, <1>5, <1>6
      DEF WriteTimesOut, Release, Channel!Fail, PendingJobs, StoredJobs
    <2>3. QED
      BY <1>1, <2>2 DEF Channel!JobStep
  <1>12. QED
    BY <1>8, <1>9, <1>10, <1>11 DEF Writes

LEMMA LateRefines ==
  ASSUME IInv, NEW j \in Jobs, LateAttempt(j)
  PROVE  \/ Channel!JobStep(j)
         \/ UNCHANGED <<outcome, PendingJobs, StoredJobs, failed, phase>>
  <1>1. /\ UNCHANGED <<queue, outcome, holding, failed, phase>>
        /\ Store(j) \/ UNCHANGED log
        /\ j \in failed /\ phase # "closed"
    BY DEF LateAttempt, IInv, FailedAreReleased
  <1>2. UNCHANGED PendingJobs
    BY <1>1 DEF PendingJobs, Unsettled, Waiting, Held, InSeq
  <1>3. CASE UNCHANGED log
    BY <1>1, <1>2, <1>3 DEF StoredJobs, InSeq
  <1>4. CASE Store(j)
    <2>1. /\ \A k : InSeq(k, log) => InSeq(k, log')
          /\ \A i \in DOMAIN log' : (i \in DOMAIN log /\ log'[i] = log[i]) \/ log'[i] = j
          /\ InSeq(j, log')
      BY <1>4, LogGrows DEF IInv
    <2>2. StoredJobs' = StoredJobs \cup {j}
      BY <2>1 DEF StoredJobs, InSeq
    <2>3. Channel!StoreLate(j)
      BY <1>1, <1>2, <2>2 DEF Channel!StoreLate, PendingJobs, StoredJobs
    <2>4. QED
      BY <2>3 DEF Channel!JobStep
  <1>5. QED
    BY <1>1, <1>3, <1>4


LEMMA NextRefines == IInv /\ [Next]_pubVars => [Channel!Next]_(Channel!chanVars)
  <1> SUFFICES ASSUME IInv, [Next]_pubVars
               PROVE  \/ Channel!Next
                      \/ UNCHANGED <<outcome, PendingJobs, StoredJobs, failed, phase>>
    BY DEF Channel!chanVars, PendingJobs, StoredJobs
  <1>1. CASE \E j \in Jobs : Publish(j)
    BY <1>1, PublishRefines DEF Channel!Next
  <1>2. ASSUME NEW w \in Workers, WorkerStep(w)
        PROVE  \/ Channel!Next
               \/ UNCHANGED <<outcome, PendingJobs, StoredJobs, failed, phase>>
    <2>1. CASE Dequeue(w)
      BY <2>1, DequeueRefines
    <2>2. CASE Writes(w)
      BY <2>2, WriteRefines DEF Channel!Next
    <2>3. CASE WorkerExit(w)
      BY <2>3 DEF WorkerExit, PendingJobs, StoredJobs, Unsettled, Waiting, Held, InSeq
    <2>4. QED
      BY <1>2, <2>1, <2>2, <2>3 DEF WorkerStep, Writes
  <1>3. CASE CloseQueue
    <2>1. UNCHANGED <<PendingJobs, StoredJobs>>
      BY <1>3 DEF CloseQueue, PendingJobs, StoredJobs, Unsettled, Waiting, Held, InSeq
    <2>2. Channel!StartClose
      BY <1>3, <2>1 DEF CloseQueue, Channel!StartClose, PendingJobs, StoredJobs
    <2>3. QED
      BY <2>2 DEF Channel!Next
  <1>4. CASE CloseWriter
    <2>1. PendingJobs = {}
      BY <1>4, ClosedIsSettled DEF CloseWriter, PendingJobs, Unsettled
    <2>2. UNCHANGED <<PendingJobs, StoredJobs>>
      BY <1>4 DEF CloseWriter, PendingJobs, StoredJobs, Unsettled, Waiting, Held, InSeq
    <2>3. Channel!FinishClose
      BY <1>4, <2>1, <2>2 DEF CloseWriter, Channel!FinishClose, PendingJobs, StoredJobs
    <2>4. QED
      BY <2>3 DEF Channel!Next
  <1>5. CASE UNCHANGED pubVars
    BY <1>5 DEF pubVars, PendingJobs, StoredJobs, Unsettled, Waiting, Held, InSeq
  <1>6. CASE \E j \in Jobs : LateAttempt(j)
    BY <1>6, LateRefines DEF Channel!Next
  <1>7. QED
    BY <1>1, <1>2, <1>3, <1>4, <1>5, <1>6 DEF Next

(* publish.go:18-35: the publisher, with its channel, its workers, Kafka's  *)
(* failures and its shutdown, keeps the policy its type comment states.     *)
THEOREM Refinement == Spec => ImplementsChannel
  BY InitRefines, NextRefines, Inductive, PTL DEF Spec, ImplementsChannel, Channel!Spec
=============================================================================
