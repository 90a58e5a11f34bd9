------------------------------ MODULE SinkWriter ------------------------------
(***************************************************************************)
(* The sink (services/sink/sink/writer.py, main.py): envelopes from        *)
(* call.insights become rows, rows are buffered per table and inserted     *)
(* into ClickHouse in batches.                                             *)
(*                                                                         *)
(* Three threads use one ClickHouseWriter: the Handler that adds the rows  *)
(* of an envelope, the Ticker that flushes what has aged, and at the end   *)
(* the Closer.  writer._lock guards the buffers but not the inserts, so a  *)
(* batch is out of the buffer while it is written and comes back to the    *)
(* front of it when its attempts have failed.                              *)
(***************************************************************************)
EXTENDS Naturals, Sequences, FiniteSets, SequencesExt

CONSTANTS
  Tables,
  Envelopes,     (* the topic: for each envelope, the tables of its rows    *)
  BatchSize,     (* WriterConfig.batch_size                                 *)
  MaxBuffer,     (* WriterConfig.max_buffer                                 *)
  MaxRetries,    (* WriterConfig.max_retries                                *)
  Courses        (* the envelopes of the topic that come (first to last)    *)
                 (* and what may happen: SIGTERM arrives (stops), ClickHouse    *)
                 (* refuses or times out (refuses) and may yet have stored  *)
                 (* the batch (losesAck), the process dies and is started   *)
                 (* again so many times (crashes)                           *)

ASSUME SinkWriterAssumption ==
  /\ Tables # {}
  /\ Envelopes \in Seq(Seq(Tables))
  /\ {BatchSize, MaxBuffer, MaxRetries} \subseteq Nat \ {0}
  /\ Courses \subseteq [first : 1..Len(Envelopes), last : 1..Len(Envelopes), stops : BOOLEAN,
                        refuses : BOOLEAN, losesAck : BOOLEAN, crashes : Nat]

Threads == {"Handler", "Ticker", "Closer"}

(* A row is named by its envelope and its place there.                      *)
Rows == UNION {{m} \X (1..Len(Envelopes[m])) : m \in 1..Len(Envelopes)}
TableOf(r) == Envelopes[r[1]][r[2]]

VARIABLES
  course,   (* what may happen                                              *)
  loop,     (* the coroutine: "running", "closing", "closed"                *)
  stopping, (* the signal has arrived                                       *)
  position, (* envelopes taken off the topic                                *)
  buffer,   (* rows of each table, oldest first as far as add knows         *)
  at,       (* where each thread is                                         *)
  due,      (* tables a flush of the ticker or the closer has still to see  *)
  table,    (* the table a thread works on                                  *)
  batch,    (* the rows it took out of the buffer                           *)
  attempt,  (* inserts of that batch that have failed                       *)
  next,     (* the row of the envelope the handler adds next                *)
  stored,   (* of each table: the batches ClickHouse has inserted           *)
  shed,     (* rows dropped at the ceiling, counted in ROWS_DROPPED         *)
  requeued, (* history: tables a flush of which has failed for good         *)
  crashes,  (* how often the process has died                               *)
  offset,   (* the least the group may have committed, <<>> if nothing      *)
  lost      (* history: rows the break or a start has passed over           *)

crashVars == <<course, crashes, offset, lost>>
rowVars == <<stored, shed, requeued, crashVars>>
threadVars == <<at, due, table, batch, attempt, next>>
vars == <<loop, stopping, position, buffer, threadVars, rowVars>>

TypeOK ==
  /\ loop \in {"running", "closing", "closed"}
  /\ stopping \in BOOLEAN
  /\ position \in 0..Len(Envelopes)
  /\ buffer \in [Tables -> Seq(Rows)]
  /\ at \in [Threads -> {"idle", "adding", "visiting", "checking", "flushing", "writing",
                        "ended"}]
  /\ due \in [Threads -> SUBSET Tables]
  /\ table \in [Threads -> Tables]
  /\ batch \in [Threads -> Seq(Rows)]
  /\ attempt \in [Threads -> 0..MaxRetries]
  /\ next \in Nat
  /\ stored \in [Tables -> Seq(Seq(Rows))]
  /\ shed \subseteq Rows /\ requeued \subseteq Tables
  /\ course \in Courses /\ crashes \in 0..course.crashes /\ lost \subseteq Rows

Init ==
  /\ course \in Courses
  /\ loop = "running" /\ stopping = FALSE /\ position = course.first - 1
  /\ buffer = [tb \in Tables |-> <<>>]
  /\ at = [t \in Threads |-> "idle"]
  /\ due = [t \in Threads |-> {}]
  /\ table = [t \in Threads |-> CHOOSE tb \in Tables : TRUE]
  /\ batch = [t \in Threads |-> <<>>]
  /\ attempt = [t \in Threads |-> 0]
  /\ next = 1
  /\ stored = [tb \in Tables |-> <<>>]
  /\ shed = {} /\ requeued = {}
  /\ crashes = 0 /\ offset = <<>> /\ lost = {r \in Rows : r[1] < course.first}

InStore(r) == \E k \in DOMAIN stored[TableOf(r)] : Contains(stored[TableOf(r)][k], r)
Done(r) == InStore(r) \/ r \in shed

Goto(t, where) == at' = [at EXCEPT ![t] = where]

(* A thread that is through with a table goes back to its list.             *)
Resume(t) == Goto(t, IF t = "Handler" THEN "adding" ELSE "visiting")

-----------------------------------------------------------------------------
(* The coroutine and the handler.                                           *)

(* The loop takes an envelope and hands it to a thread ...                  *)
Consume ==
  /\ loop = "running" /\ at["Handler"] = "idle"
  /\ position < course.last
  /\ ~stopping
  /\ position' = position + 1
  /\ next' = 1
  /\ Goto("Handler", "adding")
  /\ UNCHANGED <<loop, stopping, buffer, due, table, batch, attempt, rowVars>>

(* ... or, after the signal, takes one, breaks and drops it; consumer.stop  *)
(* commits it, and no start will see it again.  The ticker is cancelled,    *)
(* but a flush it began goes on in its thread.                              *)
Break ==
  /\ loop = "running" /\ at["Handler"] = "idle"
  /\ position < course.last
  /\ stopping
  /\ position' = position + 1
  /\ offset' = <<position'>>
  /\ lost' = lost \cup {r \in Rows : r[1] = position' /\ ~Done(r)}
  /\ loop' = "closing"
  /\ due' = [due EXCEPT !["Closer"] = Tables]
  /\ Goto("Closer", "visiting")
  /\ UNCHANGED <<stopping, buffer, table, batch, attempt, next, stored, shed, requeued,
                 course, crashes>>

Signal ==
  /\ course.stops
  /\ ~stopping
  /\ stopping' = TRUE
  /\ UNCHANGED <<loop, position, buffer, threadVars, rowVars>>

(* add, under the lock: append, and shed what exceeds the ceiling.          *)
Add ==
  /\ at["Handler"] = "adding"
  /\ next <= Len(Envelopes[position])
  /\ LET tb == Envelopes[position][next]
         rows == Append(buffer[tb], <<position, next>>)
         excess == IF Len(rows) > MaxBuffer THEN Len(rows) - MaxBuffer ELSE 0
     IN  /\ buffer' = [buffer EXCEPT ![tb] = SubSeq(rows, excess + 1, Len(rows))]
         /\ shed' = shed \cup ToSet(SubSeq(rows, 1, excess))
         /\ table' = [table EXCEPT !["Handler"] = tb]
  /\ next' = next + 1
  /\ Goto("Handler", "checking")
  /\ UNCHANGED <<loop, stopping, position, due, batch, attempt, stored, requeued, crashVars>>

Handled ==
  /\ at["Handler"] = "adding"
  /\ next > Len(Envelopes[position])
  /\ Goto("Handler", "idle")
  /\ UNCHANGED <<loop, stopping, position, buffer, due, table, batch, attempt, next, rowVars>>

-----------------------------------------------------------------------------
(* Flushing, by any thread.                                                 *)

(* Mutant of Tick: only full buffers are flushed, whatever their age.       *)
TickWhenFull ==
  /\ loop = "running"
  /\ at["Ticker"] = "idle"
  /\ due' = [due EXCEPT !["Ticker"] = {tb \in Tables : Len(buffer[tb]) >= BatchSize}]
  /\ due'["Ticker"] # {}
  /\ Goto("Ticker", "visiting")
  /\ UNCHANGED <<loop, stopping, position, buffer, table, batch, attempt, next, rowVars>>

(* The ticker's second is up: flush_due, once more if the signal came while *)
(* it slept.  A tick that finds nothing to flush is left out.               *)
Tick ==
  /\ loop = "running"
  /\ at["Ticker"] = "idle"
  /\ due' = [due EXCEPT !["Ticker"] = {tb \in Tables : buffer[tb] # <<>>}]
  /\ due'["Ticker"] # {} \/ stopping
  /\ Goto("Ticker", "visiting")
  /\ UNCHANGED <<loop, stopping, position, buffer, table, batch, attempt, next, rowVars>>

(* Mutant of Visit: close, too, flushes only what is due.                   *)
VisitDue(t, tb) ==
  /\ at[t] = "visiting"
  /\ tb \in due[t]
  /\ due' = [due EXCEPT ![t] = @ \ {tb}]
  /\ table' = [table EXCEPT ![t] = tb]
  /\ Goto(t, "checking")
  /\ UNCHANGED <<loop, stopping, position, buffer, batch, attempt, next, rowVars>>

(* The closer's flush looks at every table, due or not.                     *)
Visit(t, tb) ==
  /\ at[t] = "visiting"
  /\ tb \in due[t]
  /\ due' = [due EXCEPT ![t] = @ \ {tb}]
  /\ table' = [table EXCEPT ![t] = tb]
  /\ Goto(t, IF t = "Closer" THEN "flushing" ELSE "checking")
  /\ UNCHANGED <<loop, stopping, position, buffer, batch, attempt, next, rowVars>>

(* flush_due returns, and the ticker looks at the signal; close returns and *)
(* the process ends.                                                        *)
Through(t) ==
  /\ at[t] = "visiting"
  /\ due[t] = {}
  /\ Goto(t, IF t = "Ticker" /\ ~stopping THEN "idle" ELSE "ended")
  /\ loop' = IF t = "Closer" THEN "closed" ELSE loop
  /\ UNCHANGED <<stopping, position, buffer, due, table, batch, attempt, next, rowVars>>

(* _should_flush: the buffer is full enough, or its oldest row has aged.    *)
ShouldFlush(t) ==
  /\ at[t] = "checking"
  /\ buffer[table[t]] # <<>>
  /\ Goto(t, "flushing")
  /\ UNCHANGED <<loop, stopping, position, buffer, due, table, batch, attempt, next, rowVars>>

NotYet(t) ==
  /\ at[t] = "checking"
  /\ Len(buffer[table[t]]) < BatchSize
  /\ Resume(t)
  /\ UNCHANGED <<loop, stopping, position, buffer, due, table, batch, attempt, next, rowVars>>

(* Mutant of TakeBatch: the rows stay in the buffer while written.          *)
CopyBatch(t) ==
  /\ at[t] = "flushing"
  /\ buffer[table[t]] # <<>>
  /\ batch' = [batch EXCEPT ![t] = buffer[table[t]]]
  /\ attempt' = [attempt EXCEPT ![t] = 0]
  /\ Goto(t, "writing")
  /\ UNCHANGED <<loop, stopping, position, buffer, due, table, next, rowVars>>

(* flush, under the lock: the rows leave the buffer.                        *)
TakeBatch(t) ==
  /\ at[t] = "flushing"
  /\ buffer[table[t]] # <<>>
  /\ batch' = [batch EXCEPT ![t] = buffer[table[t]]]
  /\ buffer' = [buffer EXCEPT ![table[t]] = <<>>]
  /\ attempt' = [attempt EXCEPT ![t] = 0]
  /\ Goto(t, "writing")
  /\ UNCHANGED <<loop, stopping, position, due, table, next, rowVars>>

(* Another thread took them meanwhile.                                      *)
NothingLeft(t) ==
  /\ at[t] = "flushing"
  /\ buffer[table[t]] = <<>>
  /\ Resume(t)
  /\ UNCHANGED <<loop, stopping, position, buffer, due, table, batch, attempt, next, rowVars>>

Insert(t) ==
  /\ at[t] = "writing"
  /\ stored' = [stored EXCEPT ![table[t]] = Append(@, batch[t])]
  /\ batch' = [batch EXCEPT ![t] = <<>>]
  /\ Resume(t)
  /\ UNCHANGED <<loop, stopping, position, buffer, due, table, attempt, next, shed,
                 requeued, crashVars>>

(* To bound the copies, the answer of a batch is lost only while ClickHouse *)
(* has none of it.                                                          *)
InsertRaises(t) ==
  /\ at[t] = "writing"
  /\ course.refuses
  /\ \/ UNCHANGED stored
     \/ /\ course.losesAck
        /\ \A k \in DOMAIN batch[t] : ~InStore(batch[t][k])
        /\ stored' = [stored EXCEPT ![table[t]] = Append(@, batch[t])]

(* Mutant of Retry: the attempts are not counted against the limit.         *)
RetryForever(t) ==
  /\ InsertRaises(t)
  /\ attempt' = [attempt EXCEPT ![t] = @ + 1]
  /\ UNCHANGED <<loop, stopping, position, buffer, at, due, table, batch, next, shed,
                 requeued, crashVars>>

(* Not the last attempt: sleep and try again.                               *)
Retry(t) ==
  /\ InsertRaises(t)
  /\ attempt[t] < MaxRetries - 1
  /\ attempt' = [attempt EXCEPT ![t] = @ + 1]
  /\ UNCHANGED <<loop, stopping, position, buffer, at, due, table, batch, next, shed,
                 requeued, crashVars>>

(* The last: the rows go back to the front, whatever the ceiling is.        *)
Requeue(t) ==
  /\ InsertRaises(t)
  /\ attempt[t] = MaxRetries - 1
  /\ buffer' = [buffer EXCEPT ![table[t]] = batch[t] \o @]
  /\ batch' = [batch EXCEPT ![t] = <<>>]
  /\ Resume(t)
  /\ requeued' = requeued \cup {table[t]}
  /\ UNCHANGED <<loop, stopping, position, due, table, attempt, next, shed, crashVars>>

-----------------------------------------------------------------------------
(* The process dies with all it has in memory and is started again.         *)

(* The consumer commits by a timer what it has handed out, stored or not: a *)
(* group that has committed goes on there, one that has not starts at the   *)
(* end of the topic.                                                        *)
Resumed(committed) ==
  IF committed THEN (IF offset = <<>> THEN course.first - 1 ELSE offset[1])..position
  ELSE position..course.last

Crash ==
  /\ loop # "closed" /\ crashes < course.crashes
  /\ crashes' = crashes + 1
  /\ \E committed \in BOOLEAN :
       /\ offset # <<>> => committed
       /\ position' \in Resumed(committed)
       /\ offset' = IF committed THEN <<position'>> ELSE <<>>
  /\ lost' = lost \cup {r \in Rows : r[1] <= position' /\ ~Done(r)}
  /\ loop' = "running" /\ stopping' = FALSE
  /\ buffer' = [tb \in Tables |-> <<>>]
  /\ at' = [t \in Threads |-> "idle"] /\ due' = [t \in Threads |-> {}]
  /\ batch' = [t \in Threads |-> <<>>] /\ attempt' = [t \in Threads |-> 0]
  /\ next' = 1
  /\ UNCHANGED <<course, table, stored, shed, requeued>>

Handle == Add \/ Handled
Write(t) == Insert(t) \/ Retry(t) \/ Requeue(t)

Flush(t) ==
  \/ \E tb \in Tables : Visit(t, tb)
  \/ Through(t)
  \/ ShouldFlush(t) \/ NotYet(t)
  \/ TakeBatch(t) \/ NothingLeft(t)

Next ==
  \/ Consume \/ Break \/ Signal \/ Crash
  \/ Handle
  \/ Tick
  \/ \E t \in Threads : Flush(t) \/ Write(t)

Spec == Init /\ [][Next]_vars

(* The loop takes envelopes that are there, threads run, the ticker ticks   *)
(* and in time finds a row old enough, and of the inserts it tries again    *)
(* and again ClickHouse accepts one.  Nobody owes the topic an envelope.    *)
Fairness ==
  /\ WF_vars(Consume \/ Break)
  /\ WF_vars(Handle)
  /\ WF_vars(Tick)
  /\ \A t \in Threads : WF_vars(Flush(t) \/ Write(t))
  /\ SF_vars(ShouldFlush("Ticker"))
  /\ SF_vars(Insert("Ticker"))

FairSpec == Spec /\ Fairness

-----------------------------------------------------------------------------
(* Properties.                                                              *)

PlacesIn(r, s) == {i \in DOMAIN s : s[i] = r}
PlacesOf(r, parts) == UNION {{k} \X PlacesIn(r, parts[k]) : k \in DOMAIN parts}
Copies(r, s) == Cardinality(PlacesIn(r, s))
Taken(r) == r[1] < position \/ (r[1] = position /\ (loop = "running" => r[2] < next))
Kept(r) == Contains(buffer[TableOf(r)], r) \/ \E t \in Threads : Contains(batch[t], r)

(* writer.py:86-153, main.py:118-119: a row that was added is in the        *)
(* buffer, in a batch, stored, or was shed and counted: swapping the        *)
(* buffer, writing without the lock and putting rows back loses none,       *)
(* whichever threads do it; only the break that drops its envelope and a    *)
(* start that passes over it do.                                            *)
NoRowIsLost ==
  \A r \in Rows : Taken(r) => Kept(r) \/ Done(r) \/ r \in lost

(* writer.py:124-153 and main.py:97: a row is in one place at a time, so it *)
(* is stored twice only if ClickHouse stored a batch and its answer was     *)
(* lost, or if the process died after that and before the commit.           *)
RowInOnePlace ==
  \A r \in Rows :
    LET inMemory == Copies(r, buffer[TableOf(r)]) + Copies(r, batch["Handler"])
                      + Copies(r, batch["Ticker"]) + Copies(r, batch["Closer"])
    IN /\ inMemory <= 1
       /\ ~course.losesAck => inMemory + Cardinality(PlacesOf(r, stored[TableOf(r)]))
                           + (IF r \in shed THEN 1 ELSE 0) <= 1 + crashes

(* The rows are accounted for.                                              *)
RowsAreAccountedFor == NoRowIsLost /\ RowInOnePlace

(* writer.py:9-10 and 171-173: a row that is left when the process ends is  *)
(* of a table of which a flush failed for good, or in the ticker's last     *)
(* batch.                                                                   *)
CloseFlushes ==
  loop = "closed" =>
    \A r \in Rows : Kept(r) => TableOf(r) \in requeued \/ Contains(batch["Ticker"], r)

(* writer.py:12-15: "the oldest rows are dropped": of what a buffer holds   *)
(* none was added before a row that is shed.  The code breaks it: when two  *)
(* threads have taken a batch each and both fail, the later batch comes     *)
(* back in front of the earlier one, and its rows are shed first.           *)
ShedsTheOldest ==
  [][\A r \in shed' \ shed, u \in Rows :
       Contains(buffer'[TableOf(r)], u) => r[1] < u[1] \/ (r[1] = u[1] /\ r[2] < u[2])]_vars

(* writer.py:7-13: a row that was added is stored or shed in the end, by    *)
(* the size of its batch, its age or the ceiling, as long as the process is *)
(* not told to stop and no start has passed it over.                        *)
RowsGoOut ==
  \A m \in 1..Len(Envelopes) :
    LET Of == {r \in Rows : r[1] = m} IN
    position = m ~> stopping \/ \A r \in Of : Done(r) \/ r \in lost
=============================================================================
