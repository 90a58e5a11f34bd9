------------------------------ MODULE Publisher ------------------------------
(***************************************************************************)
(* The bounded queue between the ingest service's connection handlers and  *)
(* Kafka: services/ingest/internal/publish/publish.go.                     *)
(*                                                                         *)
(* Handlers call Publish; a pool of worker goroutines takes jobs off the   *)
(* channel and writes them synchronously; Close stops the intake and waits *)
(* for the workers.  A job is one call of Publish, so a segment that is    *)
(* sent twice is two jobs.  Kafka is modelled by what WriteMessages        *)
(* promises its caller: every attempt may fail, may store the message and  *)
(* lose the acknowledgement, or may succeed; a call that returns because   *)
(* its context ended leaves its attempts going on behind it.               *)
(***************************************************************************)
EXTENDS Naturals, Sequences, FiniteSets

CONSTANTS
  Callers,     (* goroutines that call Publish, one per open connection    *)
  Workers,     (* goroutines of Publisher.worker (Config.Workers)          *)
  Jobs,        (* calls of Publish                                         *)
  FinalJobs,   (* the jobs whose segment is final                          *)
  CallerOf,    (* the goroutine that makes the call                        *)
  QueueSize,   (* capacity of the channel (Config.QueueSize)               *)
  MaxAttempts, (* attempts WriteMessages makes (kafka.Writer.MaxAttempts)  *)
  NoJob        (* an idle worker                                           *)

ASSUME PublisherAssumption ==
  /\ FinalJobs \subseteq Jobs
  /\ CallerOf \in [Jobs -> Callers]
  /\ QueueSize \in Nat \ {0}
  /\ MaxAttempts \in Nat \ {0}
  /\ Workers # {}          \* withDefaults replaces a pool of none
  /\ NoJob \notin Jobs

VARIABLES
  queue,    (* contents of the channel p.queue, head first                  *)
  phase,    (* "open", "closing" once close(queue) ran, "closed" after Wait *)
  outcome,  (* what each call of Publish has come to                        *)
  holding,  (* the job each worker is writing                               *)
  tries,    (* attempts WriteMessages has made for that job                 *)
  late,     (* attempts left of a job whose call returned before its write  *)
  exited,   (* workers that left their range loop                           *)
  log,      (* the Kafka topic: every stored copy, in storage order         *)
  failed,   (* jobs given up on and counted in PublishErrors                *)
  entered   (* history: jobs in the order they entered the channel          *)

pubVars == <<queue, phase, outcome, holding, tries, late, exited, log, failed, entered>>

Outcomes == {"none", "blocked", "accepted", "dropped", "shed", "panicked"}

InSeq(j, s) == \E i \in DOMAIN s : s[i] = j

Held(j) == \E w \in Workers : holding[w] = j

TypeOK ==
  /\ queue \in Seq(Jobs)
  /\ Len(queue) <= QueueSize
  /\ phase \in {"open", "closing", "closed"}
  /\ outcome \in [Jobs -> Outcomes]
  /\ holding \in [Workers -> Jobs \cup {NoJob}]
  /\ tries \in [Workers -> 0..MaxAttempts]
  /\ late \in [Jobs -> 0..MaxAttempts]
  /\ exited \subseteq Workers
  /\ log \in Seq(Jobs)
  /\ failed \subseteq Jobs
  /\ entered \in Seq(Jobs)

Init ==
  /\ queue = <<>>
  /\ phase = "open"
  /\ outcome = [j \in Jobs |-> "none"]
  /\ holding = [w \in Workers |-> NoJob]
  /\ tries = [w \in Workers |-> 0]
  /\ late = [j \in Jobs |-> 0]
  /\ exited = {}
  /\ log = <<>>
  /\ failed = {}
  /\ entered = <<>>

-----------------------------------------------------------------------------
(* Publish, run by the goroutine CallerOf[j].  A goroutine makes one call   *)
(* at a time.                                                               *)

CallerFree(c) == \A j \in Jobs : CallerOf[j] = c => outcome[j] # "blocked"

Calls(j) == outcome[j] = "none" /\ CallerFree(CallerOf[j])

HasRoom == Len(queue) < QueueSize

Return(j, result) ==
  /\ outcome' = [outcome EXCEPT ![j] = result]
  /\ UNCHANGED <<phase, holding, tries, late, exited, log, failed>>

(* Mutants of Push: the capacity is not looked at; a job goes to the head.  *)
PushWithoutRoom(j) ==
  /\ phase = "open"
  /\ queue' = Append(queue, j)
  /\ entered' = Append(entered, j)
  /\ Return(j, "accepted")

PushFront(j) ==
  /\ phase = "open"
  /\ HasRoom
  /\ queue' = <<j>> \o queue
  /\ entered' = Append(entered, j)
  /\ Return(j, "accepted")

Push(j) ==
  /\ phase = "open"
  /\ HasRoom
  /\ queue' = Append(queue, j)
  /\ entered' = Append(entered, j)
  /\ Return(j, "accepted")

(* The first select finds room.                                             *)
Enqueue(j) == Calls(j) /\ Push(j)

(* The channel is full: a partial is dropped and nil is returned.           *)
DropPartial(j) ==
  /\ Calls(j)
  /\ phase = "open"
  /\ ~HasRoom
  /\ j \notin FinalJobs
  /\ Return(j, "dropped")
  /\ UNCHANGED <<queue, entered>>

(* The channel is full: a final waits in the second select.                 *)
BlockFinal(j) ==
  /\ Calls(j)
  /\ phase = "open"
  /\ ~HasRoom
  /\ j \in FinalJobs
  /\ Return(j, "blocked")
  /\ UNCHANGED <<queue, entered>>

(* A waiting final gets the place a worker made.                            *)
Unblock(j) == outcome[j] = "blocked" /\ Push(j)

(* A waiting final meets BlockTimeout, or its context ends: an error.       *)
GiveUpWaiting(j) ==
  /\ outcome[j] = "blocked"
  /\ phase = "open"
  /\ Return(j, "shed")
  /\ UNCHANGED <<queue, entered>>

(* A send on the closed channel panics: a new call at its first select, a   *)
(* waiting final as soon as close(queue) has run.                           *)
SendOnClosed(j) ==
  /\ Calls(j) \/ outcome[j] = "blocked"
  /\ phase # "open"
  /\ Return(j, "panicked")
  /\ UNCHANGED <<queue, entered>>

Publish(j) ==
  \/ Enqueue(j)
  \/ DropPartial(j)
  \/ BlockFinal(j)
  \/ Unblock(j)
  \/ GiveUpWaiting(j)
  \/ SendOnClosed(j)

-----------------------------------------------------------------------------
(* The worker loop.                                                         *)

Idle(w) == w \notin exited /\ holding[w] = NoJob

Dequeue(w) ==
  /\ Idle(w)
  /\ queue # <<>>
  /\ holding' = [holding EXCEPT ![w] = Head(queue)]
  /\ queue' = Tail(queue)
  /\ UNCHANGED <<phase, outcome, tries, late, exited, log, failed, entered>>

Store(j) == log' = Append(log, j)

Release(w) ==
  /\ holding' = [holding EXCEPT ![w] = NoJob]
  /\ tries' = [tries EXCEPT ![w] = 0]

(* The broker stores the message and the acknowledgement arrives.           *)
WriteOk(w) ==
  /\ holding[w] # NoJob
  /\ tries[w] < MaxAttempts
  /\ Store(holding[w])
  /\ Release(w)
  /\ UNCHANGED <<queue, phase, outcome, late, exited, failed, entered>>

(* An attempt fails, before or after the broker stored the message.         *)
AttemptFails(w) ==
  /\ holding[w] # NoJob
  /\ tries[w] < MaxAttempts
  /\ tries' = [tries EXCEPT ![w] = @ + 1]
  /\ Store(holding[w]) \/ UNCHANGED log
  /\ UNCHANGED <<queue, phase, outcome, holding, late, exited, failed, entered>>

(* Mutant of WriteFails: the error is not counted.                          *)
WriteFailsUncounted(w) ==
  /\ holding[w] # NoJob
  /\ tries[w] = MaxAttempts
  /\ Release(w)
  /\ UNCHANGED <<queue, phase, outcome, late, exited, failed, log, entered>>

(* WriteMessages returns an error: counted, logged, and on to the next job. *)
WriteFails(w) ==
  /\ holding[w] # NoJob
  /\ tries[w] = MaxAttempts
  /\ failed' = failed \cup {holding[w]}
  /\ Release(w)
  /\ UNCHANGED <<queue, phase, outcome, late, exited, log, entered>>

(* The ten seconds of the context are over: the call returns an error, the  *)
(* writer goes on with the attempts it has left.                            *)
WriteTimesOut(w) ==
  /\ holding[w] # NoJob
  /\ tries[w] < MaxAttempts
  /\ failed' = failed \cup {holding[w]}
  /\ late' = [late EXCEPT ![holding[w]] = MaxAttempts - tries[w]]
  /\ Release(w)
  /\ UNCHANGED <<queue, phase, outcome, exited, log, entered>>

(* An attempt nobody waits for: it is the last if it is acknowledged.       *)
LateAttempt(j) ==
  /\ late[j] > 0
  /\ \/ Store(j) /\ late' = [late EXCEPT ![j] = 0]
     \/ (Store(j) \/ UNCHANGED log) /\ late' = [late EXCEPT ![j] = @ - 1]
  /\ UNCHANGED <<queue, phase, outcome, holding, tries, exited, failed, entered>>

(* Mutant of WorkerExit: the loop ends as soon as the intake is closed.     *)
ExitBeforeDrained(w) ==
  /\ Idle(w)
  /\ phase # "open"
  /\ exited' = exited \cup {w}
  /\ UNCHANGED <<queue, phase, outcome, holding, tries, late, log, failed, entered>>

(* range over a closed, empty channel ends the loop; wg.Done runs.          *)
WorkerExit(w) ==
  /\ Idle(w)
  /\ phase # "open"
  /\ queue = <<>>
  /\ exited' = exited \cup {w}
  /\ UNCHANGED <<queue, phase, outcome, holding, tries, late, log, failed, entered>>

WorkerStep(w) ==
  \/ Dequeue(w)
  \/ WriteOk(w)
  \/ AttemptFails(w)
  \/ WriteFails(w)
  \/ WriteTimesOut(w)
  \/ WorkerExit(w)

-----------------------------------------------------------------------------
(* Close: the channel is closed, the workers are waited for, the writer is  *)
(* closed, which waits for the attempts it is still making.                 *)

CloseQueue ==
  /\ phase = "open"
  /\ phase' = "closing"
  /\ UNCHANGED <<queue, outcome, holding, tries, late, exited, log, failed, entered>>

(* Mutant of CloseWriter: Wait is missing.                                  *)
CloseWithoutWait ==
  /\ phase = "closing"
  /\ phase' = "closed"
  /\ UNCHANGED <<queue, outcome, holding, tries, late, exited, log, failed, entered>>

CloseWriter ==
  /\ phase = "closing"
  /\ exited = Workers
  /\ \A j \in Jobs : late[j] = 0
  /\ phase' = "closed"
  /\ UNCHANGED <<queue, outcome, holding, tries, late, exited, log, failed, entered>>

Next ==
  \/ \E j \in Jobs : Publish(j)
  \/ \E w \in Workers : WorkerStep(w)
  \/ \E j \in Jobs : LateAttempt(j)
  \/ CloseQueue
  \/ CloseWriter

Spec == Init /\ [][Next]_pubVars

(* A goroutine that can run is run: the blocked select has a timer, the     *)
(* wait in WriteMessages is bounded by its ten-second context, the writer's *)
(* attempts by their own timeouts, and Close returns from Wait.  Nobody is  *)
(* obliged to call Publish or Close.                                        *)
Fairness ==
  /\ \A j \in Jobs : /\ WF_pubVars(GiveUpWaiting(j))
                     /\ WF_pubVars(outcome[j] = "blocked" /\ SendOnClosed(j))
                     /\ WF_pubVars(LateAttempt(j))
  /\ \A w \in Workers : WF_pubVars(WorkerStep(w))
  /\ WF_pubVars(CloseWriter)

FairSpec == Spec /\ Fairness

-----------------------------------------------------------------------------
(* Properties.                                                              *)

(* publish.go, Publish returning nil for an enqueued job: from then on the  *)
(* job is in exactly one place -- the channel, one worker's hand, or        *)
(* settled, stored or counted as an error.  Nothing accepted vanishes, and  *)
(* only what was counted as an error may still be on its way to Kafka.      *)
Waiting(j) == InSeq(j, queue)
Settled(j) == ~Waiting(j) /\ ~Held(j) /\ (InSeq(j, log) \/ j \in failed)

AcceptedIsAccountedFor ==
  \A j \in Jobs : outcome[j] = "accepted" =>
    /\ Waiting(j) \/ Held(j) \/ Settled(j)
    /\ ~(Waiting(j) /\ Held(j))
    /\ late[j] > 0 => Settled(j) /\ j \in failed

(* A job is written by one goroutine only: it is not in the channel twice   *)
(* and no two workers hold it, so copies in Kafka come from lost            *)
(* acknowledgements alone and a caller that was told "shed" or "dropped"    *)
(* never finds its segment in the topic.                                    *)
WrittenByOne ==
  /\ \A i, k \in DOMAIN queue : queue[i] = queue[k] => i = k
  /\ \A v, w \in Workers : holding[v] # NoJob /\ holding[v] = holding[w] => v = w

OnlyAcceptedIsStored ==
  \A j \in Jobs : InSeq(j, log) \/ j \in failed => outcome[j] = "accepted"

(* Reordering by the worker pool is bounded: a job that is stored while an  *)
(* earlier one is not, overtook one that a worker has in its hand (or gave  *)
(* up on), never one still in the channel.                                  *)
OvertakesOnlyHeld ==
  \A i, k \in DOMAIN entered :
    i < k /\ InSeq(entered[k], log) => ~Waiting(entered[i])

(* publish.go:182, "Close drains the queue": once Close has returned, every *)
(* accepted job is stored or was counted as an error, and the writer has    *)
(* nothing left that could still reach the topic.                           *)
CloseDrains ==
  phase = "closed" =>
    \A j \in Jobs : late[j] = 0 /\ (outcome[j] = "accepted" => Settled(j))

-----------------------------------------------------------------------------
(* Why they hold: the channel is what is left of the history after the jobs *)
(* the workers took from its front, and every job taken is in a hand,       *)
(* stored or counted.                                                       *)

Taken == Len(entered) - Len(queue)
TakenJobs == {entered[n] : n \in 1..Taken}

EnteredOnce == \A m, n \in DOMAIN entered : entered[m] = entered[n] => m = n

EnteredAreAccepted == \A j \in Jobs : outcome[j] = "accepted" <=> InSeq(j, entered)

QueueIsSuffix ==
  /\ Len(queue) <= Len(entered)
  /\ \A i \in DOMAIN queue : queue[i] = entered[Taken + i]

HandledWereTaken ==
  /\ \A w \in Workers : holding[w] # NoJob => holding[w] \in TakenJobs
  /\ \A i \in DOMAIN log : log[i] \in TakenJobs
  /\ failed \subseteq TakenJobs

HeldByOne == \A v, w \in Workers : holding[v] # NoJob /\ holding[v] = holding[w] => v = w

TakenAreHandled == \A j \in TakenJobs : Held(j) \/ InSeq(j, log) \/ j \in failed

FailedAreReleased ==
  /\ \A w \in Workers : holding[w] \notin failed
  /\ \A j \in Jobs : late[j] > 0 => j \in failed /\ phase # "closed"

ExitedAreDone ==
  /\ exited # {} => phase # "open" /\ queue = <<>>
  /\ \A w \in exited : holding[w] = NoJob
  /\ phase = "closed" => exited = Workers

(* publish.go:121-191: the inductive invariant behind the properties above, *)
(* relating the channel, the workers' hands, the topic and the history.     *)
IInv ==
  /\ TypeOK
  /\ EnteredOnce
  /\ EnteredAreAccepted
  /\ QueueIsSuffix
  /\ HandledWereTaken
  /\ HeldByOne
  /\ TakenAreHandled
  /\ FailedAreReleased
  /\ ExitedAreDone

-----------------------------------------------------------------------------
(* The publisher implements the channel its callers are promised.           *)

Unsettled(j) == Waiting(j) \/ Held(j)

Channel == INSTANCE SegmentChannel WITH
  verdict <- outcome,
  pending <- {j \in Jobs : Unsettled(j)},
  stored  <- {j \in Jobs : InSeq(j, log)},
  intake  <- phase

(* publish.go:18-35: seen through this mapping every step of the handlers,  *)
(* the workers and Close is one the policy allows.                          *)
ImplementsChannel == Channel!Spec

(* ... and what is accepted does leave the process.                         *)
ImplementsFairChannel == Channel!FairSpec
=============================================================================
