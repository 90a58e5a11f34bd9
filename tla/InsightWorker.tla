---------------------------- MODULE InsightWorker ----------------------------
(***************************************************************************)
(* The worker (services/worker/worker/consumer.py, state.py, main.py): one *)
(* event loop on which three tasks share the tracked calls.                *)
(*                                                                         *)
(*   Consumer  takes segments off the topic one at a time, adds each to    *)
(*             its call and analyses the call's window when it has grown;  *)
(*             at the ceiling it first finalises the oldest call           *)
(*   Sweeper   now and then finalises the calls that look idle             *)
(*   Main      on a signal, or when the consumer has died, cancels the     *)
(*             others and finalises what is left                           *)
(*                                                                         *)
(* Tasks switch at their awaits only, so a step here is what runs between  *)
(* two awaits.  A CallState outlives its entry in `calls` while a task     *)
(* still refers to it, so the states are numbered and `calls` maps a call  *)
(* to the number of its state.  Each state has an asyncio.Lock: the        *)
(* sequence of the tasks that hold (head) or wait for it, first in first   *)
(* out.  Kafka is modelled by what the loop sees: a partition read from a  *)
(* position that a rebalance may move back to the committed one, and       *)
(* send_and_wait, which may fail with the record stored or not.            *)
(***************************************************************************)
EXTENDS Integers, Sequences, FiniteSets, SequencesExt

CONSTANTS
  CallIds,       (* calls whose segments are in the partition               *)
  Other,         (* a record _handle skips: a partial, or unparseable       *)
  Topics,        (* contents of the partition a run starts from             *)
  Stride,        (* LiveConfig.stride                                       *)
  MaxTracked,    (* ConsumerConfig.max_tracked_calls                        *)
  MaxRebalances, (* bound: times the position moves back                    *)
  LateFeed,      (* segments may be so late that a live call looks idle     *)
  MayMisanswer,  (* the model's answer may stay invalid after all repairs   *)
  MayBreakDown,  (* a live analysis may raise: the model's endpoint sends a *)
                 (* success whose body is not JSON                          *)
  SendMayFail,   (* send_and_wait may raise                                 *)
  MayStop        (* SIGTERM may arrive                                      *)

ASSUME InsightWorkerAssumption ==
  /\ Other \notin CallIds /\ IsFiniteSet(CallIds)
  /\ Topics \subseteq Seq(CallIds \cup {Other})
  /\ Stride \in Nat \ {0} /\ MaxTracked \in Nat \ {0} /\ MaxRebalances \in Nat
  /\ {LateFeed, MayMisanswer, MayBreakDown, SendMayFail, MayStop} \subseteq BOOLEAN

Tasks == {"Consumer", "Sweeper", "Main"}

VARIABLES
  topic,      (* the partition                                              *)
  position,   (* records the consumer has taken                             *)
  segment,    (* offset of the one it is handling                           *)
  committed,  (* the offset the last rebalance found committed              *)
  rebalances, (* times the position was moved back                          *)
  states,     (* every CallState made, in creation order, with its lock     *)
  calls,      (* self.calls: the state of a tracked call, 0 if untracked    *)
  pc,         (* the await each task is at                                  *)
  on,         (* the state a task works on or waits for                     *)
  todo,       (* what is left of the list(self.calls) a task goes through   *)
  read,       (* turns of the transcript the task's summary was made from   *)
  cancelled,  (* tasks with a pending CancelledError                        *)
  insights,   (* the topic call.insights, in order                          *)
  postFailed, (* states counted in stats.post_failed                        *)
  abandoned   (* history: states whose finaliser was cut off by an error    *)

kafkaVars == <<topic, committed, rebalances>>
taskVars == <<pc, on, todo, read, cancelled>>
vars == <<kafkaVars, position, segment, states, calls, taskVars, insights, postFailed, abandoned>>

Ids == 1..Len(states)
Tracked == {c \in CallIds : calls[c] # 0}
IsTracked(s) == calls[states[s].call] = s
Finalising(t) == pc[t] \in {"summarising", "reporting"}

TypeOK ==
  /\ topic \in Topics
  /\ {position, segment, committed} \subseteq 0..Len(topic)
  /\ rebalances \in 0..MaxRebalances
  /\ states \in Seq([call : CallIds, turns : Seq(Nat), analysed : Nat,
                     ended : BOOLEAN, lock : Seq(Tasks)])
  /\ calls \in [CallIds -> 0..Len(states)]
  /\ pc \in [Tasks -> {"idle", "iterating", "queued", "summarising", "reporting",
                       "admitting", "live_queued", "analysing", "sending",
                       "unwinding", "done", "crashed"}]
  /\ on \in [Tasks -> 0..Len(states)]
  /\ todo \in [Tasks -> Seq(CallIds)]
  /\ read \in [Tasks -> Nat]
  /\ cancelled \subseteq Tasks
  /\ insights \in Seq([kind : {"live", "post_call"}, state : Ids, from : Nat, upto : Nat])
  /\ postFailed \subseteq Ids /\ abandoned \subseteq Ids

Init ==
  /\ topic \in Topics
  /\ position = 0 /\ segment = 0 /\ committed = 0 /\ rebalances = 0
  /\ states = <<>>
  /\ calls = [c \in CallIds |-> 0]
  /\ pc = [t \in Tasks |-> "idle"]
  /\ on = [t \in Tasks |-> 0]
  /\ todo = [t \in Tasks |-> <<>>]
  /\ read = [t \in Tasks |-> 0]
  /\ cancelled = {}
  /\ insights = <<>>
  /\ postFailed = {}
  /\ abandoned = {}

-----------------------------------------------------------------------------
(* What the tasks share.                                                    *)

At(t, where) == pc[t] = where /\ t \notin cancelled

(* A thread or a send that a task awaits has come back, with a result or an *)
(* exception.  A CancelledError that is pending is delivered first: it      *)
(* takes one turn of the loop.                                              *)
Back(t, where) == pc[t] = where /\ cancelled = {}

Goto(t, where) == pc' = [pc EXCEPT ![t] = where]

(* A lock without one of the tasks that hold or wait for it.                *)
Without(lock, t) == RemoveAt(lock, CHOOSE i \in 1..Len(lock) : lock[i] = t)

Leave(s, t) == [states EXCEPT ![s].lock = Without(@, t)]

HasLock(t) == states[on[t]].lock[1] = t

(* list(self.calls): dictionaries keep the order of insertion.              *)
TrackedInOrder ==
  [k \in 1..Cardinality(Tracked) |->
     CHOOSE c \in Tracked : Cardinality({d \in Tracked : calls[d] <= calls[c]}) = k]

(* _finalise up to its first await.  A free lock is taken without one.      *)
Claim(t, c) ==
  LET s == calls[c] IN
  /\ s # 0
  /\ ~states[s].ended
  /\ on' = [on EXCEPT ![t] = s]
  /\ IF states[s].lock = <<>>
     THEN /\ states' = [states EXCEPT ![s].lock = <<t>>, ![s].ended = TRUE]
          /\ Goto(t, "summarising")
     ELSE /\ states' = [states EXCEPT ![s].lock = Append(@, t)]
          /\ Goto(t, "queued")

(* _finalise returns at once: untracked, or somebody has ended it already.  *)
NotMine(c) == calls[c] # 0 => states[calls[c]].ended

(* _finalise gets the lock it waited for; `ended` is not looked at again.   *)
Acquire(t) ==
  /\ At(t, "queued")
  /\ HasLock(t)
  /\ states' = [states EXCEPT ![on[t]].ended = TRUE]
  /\ Goto(t, "summarising")
  /\ UNCHANGED <<kafkaVars, position, segment, calls, on, todo, read, cancelled, insights,
                 postFailed, abandoned>>

(* post_call.summarise, in a thread, ends with a valid summary.             *)
Summarise(t) ==
  /\ Back(t, "summarising")
  /\ read' = [read EXCEPT ![t] = Len(states[on[t]].turns)]
  /\ Goto(t, "reporting")
  /\ UNCHANGED <<kafkaVars, position, segment, states, calls, on, todo, cancelled, insights,
                 postFailed, abandoned>>

(* Mutant of Forget: the entry stays and is open again.                     *)
ForgetAndReopen(t) ==
  /\ states' = [Leave(on[t], t) EXCEPT ![on[t]].ended = FALSE]
  /\ Goto(t, IF t = "Consumer" THEN "admitting" ELSE "iterating")
  /\ on' = [on EXCEPT ![t] = 0]
  /\ UNCHANGED <<kafkaVars, position, segment, calls, todo, read, cancelled, abandoned>>

(* The end of _finalise: the lock is released, then the entry is removed.   *)
Forget(t) ==
  /\ states' = Leave(on[t], t)
  /\ calls' = [calls EXCEPT ![states[on[t]].call] = 0]
  /\ Goto(t, IF t = "Consumer" THEN "admitting" ELSE "iterating")
  /\ on' = [on EXCEPT ![t] = 0]
  /\ UNCHANGED <<kafkaVars, position, segment, todo, read, cancelled, abandoned>>

(* summarise returns without a summary: counted, nothing published.         *)
NoSummary(t) ==
  /\ Back(t, "summarising")
  /\ MayMisanswer
  /\ postFailed' = postFailed \cup {on[t]}
  /\ Forget(t)
  /\ UNCHANGED insights

Summary(t) == [kind |-> "post_call", state |-> on[t], from |-> 0, upto |-> read[t]]

Report(t) ==
  /\ Back(t, "reporting")
  /\ insights' = Append(insights, Summary(t))
  /\ Forget(t)
  /\ UNCHANGED postFailed

(* An exception or a CancelledError leaves the task where it stands: locks  *)
(* are released, `ended` stays set.  The consumer's finally cancels the     *)
(* sweeper and waits for it.                                                *)
Unwind(t) ==
  /\ states' = IF on[t] = 0 THEN states ELSE Leave(on[t], t)
  /\ abandoned' = IF Finalising(t) THEN abandoned \cup {on[t]} ELSE abandoned
  /\ Goto(t, CASE t = "Consumer" -> "unwinding" [] t = "Sweeper" -> "done"
               [] t = "Main" -> "crashed")
  /\ on' = [on EXCEPT ![t] = 0]
  /\ cancelled' = IF t = "Consumer" /\ pc["Sweeper"] # "done"
                  THEN (cancelled \ {t}) \cup {"Sweeper"} ELSE cancelled \ {t}
  /\ UNCHANGED <<kafkaVars, position, segment, calls, todo, read, postFailed>>

(* _build raises a plain ValueError for an intent or a resolution that is   *)
(* still invalid; summarise catches ValidationError only.                   *)
SummariseRaises(t) ==
  /\ Back(t, "summarising")
  /\ MayMisanswer
  /\ Unwind(t)
  /\ UNCHANGED insights

(* Mutant of ReportFails: the error is swallowed and the call forgotten.    *)
ReportFailsQuietly(t) ==
  /\ Back(t, "reporting")
  /\ SendMayFail
  /\ Forget(t)
  /\ UNCHANGED <<insights, postFailed>>

ReportFails(t) ==
  /\ Back(t, "reporting")
  /\ SendMayFail
  /\ insights' \in {insights, Append(insights, Summary(t))}
  /\ Unwind(t)

Finalise(t) ==
  Acquire(t) \/ Summarise(t) \/ NoSummary(t) \/ Report(t) \/ SummariseRaises(t) \/ ReportFails(t)

-----------------------------------------------------------------------------
(* The consumer: run and _handle.                                           *)

FinalFor(c) == topic[position + 1] = c

(* Mutant of SkipRecord: the position moves past the next record too.       *)
SkipTwoRecords ==
  /\ At("Consumer", "idle")
  /\ position < Len(topic)
  /\ FinalFor(Other)
  /\ position' = position + 2
  /\ UNCHANGED <<kafkaVars, segment, states, calls, taskVars, insights, postFailed, abandoned>>

SkipRecord ==
  /\ At("Consumer", "idle")
  /\ position < Len(topic)
  /\ FinalFor(Other)
  /\ position' = position + 1
  /\ UNCHANGED <<kafkaVars, segment, states, calls, taskVars, insights, postFailed, abandoned>>

(* min(self.calls.values(), key=started_at), as records of a partition are  *)
(* emitted in order.                                                        *)
Oldest(c) ==
  \A d \in Tracked : states[calls[c]].turns[1] <= states[calls[d]].turns[1]

AtCeiling(c) == calls[c] = 0 /\ Cardinality(Tracked) >= MaxTracked

TakeFinal(c) ==
  /\ At("Consumer", "idle")
  /\ position < Len(topic)
  /\ FinalFor(c)
  /\ position' = position + 1
  /\ segment' = position + 1
  /\ \/ /\ AtCeiling(c) => \E o \in Tracked : Oldest(o) /\ NotMine(o)
        /\ Goto("Consumer", "admitting")
        /\ UNCHANGED <<states, on>>
     \/ /\ AtCeiling(c)
        /\ \E o \in Tracked : Oldest(o) /\ Claim("Consumer", o)
  /\ UNCHANGED <<kafkaVars, calls, todo, read, cancelled, insights, postFailed, abandoned>>

ShouldAnalyse(state) == Len(state.turns) - state.analysed >= Stride

(* Mutant of Admit: with the lock taken the analysis is left out.           *)
AdmitWithoutWaiting ==
  /\ At("Consumer", "admitting")
  /\ LET c == topic[segment]
         s == IF calls[c] # 0 THEN calls[c] ELSE Len(states) + 1
         known == IF calls[c] # 0 THEN states
                  ELSE Append(states, [call |-> c, turns |-> <<>>, analysed |-> 0,
                                       ended |-> FALSE, lock |-> <<>>])
     IN  /\ calls' = [calls EXCEPT ![c] = s]
         /\ states' = [known EXCEPT ![s].turns = Append(@, segment)]
  /\ Goto("Consumer", "idle")
  /\ UNCHANGED <<kafkaVars, position, segment, on, todo, read, cancelled, insights,
                 postFailed, abandoned>>

(* The turn is added before the lock of its call is asked for.              *)
Admit ==
  /\ At("Consumer", "admitting")
  /\ LET c == topic[segment]
         s == IF calls[c] # 0 THEN calls[c] ELSE Len(states) + 1
         known == IF calls[c] # 0 THEN states
                  ELSE Append(states, [call |-> c, turns |-> <<>>, analysed |-> 0,
                                       ended |-> FALSE, lock |-> <<>>])
         added == [known EXCEPT ![s].turns = Append(@, segment)]
         busy == added[s].lock # <<>>
         due == ShouldAnalyse(added[s])
     IN  /\ calls' = [calls EXCEPT ![c] = s]
         /\ states' = IF busy \/ due
                      THEN [added EXCEPT ![s].lock = Append(@, "Consumer")] ELSE added
         /\ on' = [on EXCEPT !["Consumer"] = IF busy \/ due THEN s ELSE 0]
         /\ Goto("Consumer", IF busy THEN "live_queued" ELSE IF due THEN "analysing"
                                                                    ELSE "idle")
  /\ UNCHANGED <<kafkaVars, position, segment, todo, read, cancelled, insights,
                 postFailed, abandoned>>

ReleaseIdle ==
  /\ states' = Leave(on["Consumer"], "Consumer")
  /\ Goto("Consumer", "idle")
  /\ on' = [on EXCEPT !["Consumer"] = 0]

LiveAcquire ==
  /\ At("Consumer", "live_queued")
  /\ HasLock("Consumer")
  /\ IF ShouldAnalyse(states[on["Consumer"]])
     THEN Goto("Consumer", "analysing") /\ UNCHANGED <<states, on>>
     ELSE ReleaseIdle
  /\ UNCHANGED <<kafkaVars, position, segment, calls, todo, read, cancelled, insights,
                 postFailed, abandoned>>

(* live.analyse, in a thread, returns: with signals to publish or none.     *)
Analyse ==
  /\ Back("Consumer", "analysing")
  /\ LET s == on["Consumer"]
         seen == [states EXCEPT ![s].analysed = Len(states[s].turns)]
     IN  \/ /\ states' = [seen EXCEPT ![s].lock = Without(@, "Consumer")]
            /\ Goto("Consumer", "idle")
            /\ on' = [on EXCEPT !["Consumer"] = 0]
            /\ UNCHANGED read
         \/ /\ states' = seen
            /\ Goto("Consumer", "sending")
            /\ read' = [read EXCEPT !["Consumer"] = states[s].analysed]
            /\ UNCHANGED on
  /\ UNCHANGED <<kafkaVars, position, segment, calls, todo, cancelled, insights,
                 postFailed, abandoned>>

(* live.analyse raises, out of _handle and of the consumer's loop: nothing  *)
(* between the model's client and run catches what is not a ProviderError.  *)
AnalyseRaises ==
  /\ Back("Consumer", "analysing")
  /\ MayBreakDown
  /\ Unwind("Consumer")
  /\ UNCHANGED insights

(* Signals of a window whose turns after the first `from` are new.          *)
Signals == [kind |-> "live", state |-> on["Consumer"], from |-> read["Consumer"],
            upto |-> states[on["Consumer"]].analysed]

Send ==
  /\ Back("Consumer", "sending")
  /\ insights' = Append(insights, Signals)
  /\ ReleaseIdle
  /\ UNCHANGED <<kafkaVars, position, segment, calls, todo, read, cancelled, postFailed,
                 abandoned>>

SendFails ==
  /\ Back("Consumer", "sending")
  /\ SendMayFail
  /\ insights' \in {insights, Append(insights, Signals)}
  /\ Unwind("Consumer")

ConsumerEnds ==
  /\ pc["Consumer"] = "unwinding"
  /\ pc["Sweeper"] = "done"
  /\ Goto("Consumer", "done")
  /\ UNCHANGED <<kafkaVars, position, segment, states, calls, on, todo, read, cancelled,
                 insights, postFailed, abandoned>>

Consume ==
  \/ SkipRecord \/ (\E c \in CallIds : TakeFinal(c)) \/ Admit \/ LiveAcquire \/ Analyse
  \/ AnalyseRaises \/ Send \/ SendFails \/ ConsumerEnds

-----------------------------------------------------------------------------
(* The sweeper and the main task go through a list of calls.                *)

Unread(c) == \E i \in (position + 1)..Len(topic) : topic[i] = c

InHand(c) == pc["Consumer"] = "admitting" /\ topic[segment] = c

(* idle_seconds compares the clock with the time the last segment was       *)
(* emitted: a late feed makes a live call look idle.                        *)
MayLookIdle(c) == LateFeed \/ ~(Unread(c) \/ InHand(c))

Sweep ==
  /\ At("Sweeper", "idle")
  /\ Tracked # {}
  /\ todo' = [todo EXCEPT !["Sweeper"] = TrackedInOrder]
  /\ Goto("Sweeper", "iterating")
  /\ UNCHANGED <<kafkaVars, position, segment, states, calls, on, read, cancelled,
                 insights, postFailed, abandoned>>

Visiting(t, c) == At(t, "iterating") /\ todo[t] # <<>> /\ Head(todo[t]) = c

Visited(t) == todo' = [todo EXCEPT ![t] = Tail(@)]

(* A call that is gone, ended or (for the sweeper) not idle is passed over. *)
PassOver(t, c) ==
  /\ Visiting(t, c)
  /\ NotMine(c) \/ t = "Sweeper"
  /\ Visited(t)
  /\ UNCHANGED <<kafkaVars, position, segment, states, calls, pc, on, read, cancelled,
                 insights, postFailed, abandoned>>

FinaliseNext(t, c) ==
  /\ Visiting(t, c)
  /\ t = "Sweeper" => MayLookIdle(c)
  /\ Claim(t, c)
  /\ Visited(t)
  /\ UNCHANGED <<kafkaVars, position, segment, calls, read, cancelled, insights,
                 postFailed, abandoned>>

(* Mutant of EndOfList: the sweeper goes through the calls only once.       *)
EndOfOnlyList(t) ==
  /\ At(t, "iterating")
  /\ todo[t] = <<>>
  /\ Goto(t, "done")
  /\ UNCHANGED <<kafkaVars, position, segment, states, calls, on, todo, read, cancelled,
                 insights, postFailed, abandoned>>

EndOfList(t) ==
  /\ At(t, "iterating")
  /\ todo[t] = <<>>
  /\ Goto(t, IF t = "Main" THEN "done" ELSE "idle")
  /\ UNCHANGED <<kafkaVars, position, segment, states, calls, on, todo, read, cancelled,
                 insights, postFailed, abandoned>>

GoThrough(t) == EndOfList(t) \/ \E c \in CallIds : PassOver(t, c) \/ FinaliseNext(t, c)

(* amain wakes up: the signal came, or run has ended.  The task that still  *)
(* runs is cancelled, and worker.stop() begins.                             *)
Stop ==
  /\ pc["Main"] = "idle"
  /\ MayStop \/ pc["Consumer"] = "done"
  /\ cancelled' = IF pc["Consumer"] \in {"unwinding", "done"} THEN cancelled
                  ELSE cancelled \cup {"Consumer"}
  /\ todo' = [todo EXCEPT !["Main"] = TrackedInOrder]
  /\ Goto("Main", "iterating")
  /\ UNCHANGED <<kafkaVars, position, segment, states, calls, on, read, insights,
                 postFailed, abandoned>>

(* A cancelled task gets the CancelledError at its await.  A record it was  *)
(* sending may be on its way already.                                       *)
Cancelled(t) ==
  /\ t \in cancelled
  /\ insights' \in {insights} \cup
       (IF pc[t] = "reporting" THEN {Append(insights, Summary(t))}
        ELSE IF pc[t] = "sending" THEN {Append(insights, Signals)} ELSE {})
  /\ Unwind(t)

-----------------------------------------------------------------------------
(* Kafka.                                                                   *)

(* The partition comes back, and with it the position committed last: some  *)
(* position the consumer has had since the one committed before it.         *)
Rebalance ==
  /\ pc["Consumer"] # "done"
  /\ rebalances < MaxRebalances
  /\ committed' \in committed..(position - 1)
  /\ position' = committed'
  /\ rebalances' = rebalances + 1
  /\ UNCHANGED <<topic, segment, states, calls, taskVars, insights, postFailed, abandoned>>

Step(t) == Finalise(t) \/ Cancelled(t)

Next ==
  \/ \E t \in Tasks : Step(t)
  \/ \E t \in {"Sweeper", "Main"} : GoThrough(t)
  \/ Consume
  \/ Sweep
  \/ Stop
  \/ Rebalance

Spec == Init /\ [][Next]_vars

(* The event loop runs every task that can run; threads return; a call      *)
(* that stays quiet is found idle sooner or later by a sweep that looks at  *)
(* it again and again.                                                      *)
Fairness ==
  /\ \A t \in Tasks : WF_vars(Step(t))
  /\ \A t \in {"Sweeper", "Main"} : WF_vars(GoThrough(t))
  /\ \A c \in CallIds : SF_vars(FinaliseNext("Sweeper", c))
  /\ WF_vars(Consume)
  /\ WF_vars(Sweep)
  /\ WF_vars(pc["Consumer"] = "done" /\ Stop)

FairSpec == Spec /\ Fairness

-----------------------------------------------------------------------------
(* Properties.                                                              *)

Posts(s) == {k \in DOMAIN insights : insights[k].kind = "post_call" /\ insights[k].state = s}
Lives(s) == {k \in DOMAIN insights : insights[k].kind = "live" /\ insights[k].state = s}
Settled(s) == Posts(s) # {} \/ s \in postFailed

(* consumer.py:252-266: every call the worker has heard of is in exactly    *)
(* one way accounted for: tracked and open, being finalised, settled by a   *)
(* summary or a counted failure, or -- only if an error cut its finaliser   *)
(* off -- abandoned.  A state never leaves `calls` unsettled.               *)
EveryCallIsAccountedFor ==
  \A s \in Ids :
    /\ ~IsTracked(s) => Settled(s)
    /\ IsTracked(s) /\ states[s].ended =>
         s \in abandoned \/ \E t \in Tasks : Finalising(t) /\ on[t] = s

(* consumer.py:183-187: turns are added without the lock, so a summary can  *)
(* miss what arrives while it is made; the lock and the one-by-one consumer *)
(* limit that to a single turn.                                             *)
SummaryMissesOneTurnAtMost ==
  \A k \in DOMAIN insights :
    LET s == insights[k].state IN
    insights[k].kind = "post_call" /\ ~IsTracked(s) =>
      Len(states[s].turns) - insights[k].upto <= 1

(* consumer.py:252-266: `ended` is tested before the lock and not after it, *)
(* so a second summary of one state is possible, but only where the         *)
(* consumer itself finalises (at the ceiling); never a third.               *)
SecondSummaryOnlyAtCeiling ==
  \A s \in Ids :
    Cardinality(Posts(s)) <= IF Cardinality(CallIds) > MaxTracked THEN 2 ELSE 1

(* consumer.py:185-187: a live signal can follow the summary of its call,   *)
(* from the one analysis that was waiting for the lock.                     *)
OneLateLiveAtMost ==
  \A s \in Ids \ abandoned :
    Cardinality({l \in Lives(s) : \E k \in Posts(s) : k < l}) <= 1

(* consumer.py:140-183: no final the consumer took off the topic is lost to *)
(* the ceiling or to a rebalance: it is a turn of some state, or in the     *)
(* hand of a consumer that still runs or was cut off holding it.            *)
EveryFinalIsHeard ==
  \A i \in 1..position :
    \/ topic[i] = Other
    \/ \E s \in Ids : Contains(states[s].turns, i)
    \/ segment = i /\ pc["Consumer"] # "idle"

(* Whatever the worker took from the topic, turn or call, is in its books.  *)
BooksBalance == EveryCallIsAccountedFor /\ EveryFinalIsHeard

(* What the late look at `ended` costs: one summary, one signal.            *)
LateWorkIsBounded == SecondSummaryOnlyAtCeiling /\ OneLateLiveAtMost

(* consumer.py:242, "Finalise calls that have gone quiet", and :122: every  *)
(* tracked call is settled in the end.                                      *)
QuietCallsAreFinalised == \A c \in CallIds : calls[c] # 0 ~> calls[c] = 0
=============================================================================
