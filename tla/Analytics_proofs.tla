--------------------------- MODULE Analytics_proofs ---------------------------
(***************************************************************************)
(* Proofs about the sink and the tables it fills.  Of SinkWriter: its      *)
(* types, that no row is lost and none is in two places, and what is left  *)
(* when it closes, for any topic, any tables, any bounds of the buffers    *)
(* and the retries, and any number of crashes.  Of Analytics: which of the *)
(* dashboard's figures are those of calls and when, and that no merge      *)
(* takes anything from the page of a call.                                 *)
(***************************************************************************)
EXTENDS Analytics, SequenceTheorems, FiniteSetTheorems, TLAPS

LEMMA AppendHas ==
  ASSUME NEW S, NEW s \in Seq(S), NEW e \in S
  PROVE  /\ Append(s, e) \in Seq(S)
         /\ Len(Append(s, e)) = Len(s) + 1
         /\ Contains(Append(s, e), e)
         /\ \A x : Contains(Append(s, e), x) <=> Contains(s, x) \/ x = e
  BY AppendProperties DEF Contains

LEMMA ConcatHas ==
  ASSUME NEW S, NEW s \in Seq(S), NEW t \in Seq(S)
  PROVE  /\ s \o t \in Seq(S)
         /\ \A x : Contains(s \o t, x) <=> Contains(s, x) \/ Contains(t, x)
  <1>1. s \o t \in Seq(S) /\ Len(s \o t) = Len(s) + Len(t) /\ Len(s) \in Nat /\ Len(t) \in Nat
    BY ConcatProperties, LenProperties
  <1>2. \A i \in 1..Len(s) : (s \o t)[i] = s[i]
    BY ConcatProperties, <1>1
  <1>3. \A i \in 1..Len(t) : (s \o t)[Len(s) + i] = t[i]
    BY ConcatProperties, <1>1
  <1>4. ASSUME NEW x, Contains(s \o t, x) PROVE Contains(s, x) \/ Contains(t, x)
    <2>1. PICK i \in 1..(Len(s) + Len(t)) : (s \o t)[i] = x
      BY <1>1, <1>4 DEF Contains
    <2>2. CASE i <= Len(s)
      BY <2>1, <2>2, <1>1, <1>2 DEF Contains
    <2>3. CASE i > Len(s)
      <3>1. i - Len(s) \in 1..Len(t) /\ i = Len(s) + (i - Len(s))
        BY <2>1, <2>3, <1>1
      <3>2. t[i - Len(s)] = x
        BY <3>1, <2>1, <1>3
      <3>3. QED
        BY <3>1, <3>2 DEF Contains
    <2>4. QED
      BY <2>1, <2>2, <2>3, <1>1
  <1>5. ASSUME NEW x, Contains(s, x) \/ Contains(t, x) PROVE Contains(s \o t, x)
    <2>1. CASE Contains(s, x)
      BY <2>1, <1>1, <1>2 DEF Contains
    <2>2. CASE Contains(t, x)
      <3>1. PICK i \in 1..Len(t) : t[i] = x
        BY <2>2 DEF Contains
      <3>2. Len(s) + i \in 1..Len(s \o t) /\ (s \o t)[Len(s) + i] = x
        BY <3>1, <1>1, <1>3
      <3>3. QED
        BY <3>2 DEF Contains
    <2>3. QED
      BY <1>5, <2>1, <2>2
  <1>6. QED
    BY <1>1, <1>4, <1>5

(* The last part of a sequence, and the elements that are cut off before.   *)
LEMMA CutHas ==
  ASSUME NEW S, NEW s \in Seq(S), NEW n \in 0..Len(s)
  PROVE  /\ SubSeq(s, n + 1, Len(s)) \in Seq(S)
         /\ ToSet(SubSeq(s, 1, n)) \subseteq S
         /\ \A x : Contains(s, x) => Contains(SubSeq(s, n + 1, Len(s)), x)
                                    \/ x \in ToSet(SubSeq(s, 1, n))
         /\ \A x : Contains(SubSeq(s, n + 1, Len(s)), x) => Contains(s, x)
  <1> DEFINE back == SubSeq(s, n + 1, Len(s))
  <1> DEFINE front == SubSeq(s, 1, n)
  <1>1. Len(s) \in Nat /\ \A i \in 1..Len(s) : s[i] \in S
    BY LenProperties, ElementOfSeq
  <1>2. /\ back \in Seq(S) /\ Len(back) = Len(s) - n
        /\ \A i \in 1..(Len(s) - n) : back[i] = s[n + i]
    BY <1>1, SubSeqProperties
  <1>3. /\ front \in Seq(S) /\ Len(front) = n /\ DOMAIN front = 1..n
        /\ \A i \in 1..n : front[i] = s[i]
    BY <1>1, SubSeqProperties, LenProperties
  <1>4. ToSet(front) = {s[i] : i \in 1..n}
    BY <1>3 DEF ToSet
  <1>5. ToSet(front) \subseteq S
    BY <1>1, <1>4
  <1>6. ASSUME NEW x, Contains(s, x) PROVE Contains(back, x) \/ x \in ToSet(front)
    <2>1. PICK i \in 1..Len(s) : s[i] = x
      BY <1>6 DEF Contains
    <2>2. CASE i <= n
      BY <2>1, <2>2, <1>4
    <2>3. CASE i > n
      <3>1. i - n \in 1..(Len(s) - n) /\ n + (i - n) = i
        BY <2>1, <2>3, <1>1
      <3>2. back[i - n] = x
        BY <3>1, <2>1, <1>2
      <3>3. QED
        BY <3>1, <3>2, <1>2 DEF Contains
    <2>4. QED
      BY <2>1, <2>2, <2>3, <1>1
  <1>7. ASSUME NEW x, Contains(back, x) PROVE Contains(s, x)
    <2>1. PICK i \in 1..(Len(s) - n) : back[i] = x
      BY <1>7, <1>2 DEF Contains
    <2>2. n + i \in 1..Len(s) /\ s[n + i] = x
      BY <2>1, <1>1, <1>2
    <2>3. QED
      BY <2>2 DEF Contains
  <1>8. QED
    BY <1>2, <1>5, <1>6, <1>7

LEMMA EmptyHasNothing == ASSUME NEW x PROVE ~Contains(<<>>, x)
  BY DEF Contains

LEMMA RowFacts ==
  ASSUME NEW r \in Rows
  PROVE  /\ r[1] \in 1..Len(Envelopes)
         /\ r[2] \in 1..Len(Envelopes[r[1]])
         /\ TableOf(r) \in Tables
         /\ r = <<r[1], r[2]>>
  <1>1. PICK m \in 1..Len(Envelopes) : r \in {m} \X (1..Len(Envelopes[m]))
    BY DEF Rows
  <1>2. r[1] = m /\ r[2] \in 1..Len(Envelopes[m]) /\ r = <<r[1], r[2]>>
    BY <1>1
  <1>3. Envelopes[m] \in Seq(Tables)
    BY <1>1, SinkWriterAssumption, ElementOfSeq DEF SinkWriterAssumption
  <1>4. Envelopes[m][r[2]] \in Tables
    BY <1>2, <1>3, ElementOfSeq
  <1>5. QED
    BY <1>1, <1>2, <1>4 DEF TableOf

LEMMA RowIsThere ==
  ASSUME NEW m \in 1..Len(Envelopes), NEW k \in 1..Len(Envelopes[m])
  PROVE  <<m, k>> \in Rows /\ TableOf(<<m, k>>) = Envelopes[m][k]
  BY DEF Rows, TableOf

LEMMA CourseFacts ==
  ASSUME course \in Courses
  PROVE  /\ course.first \in 1..Len(Envelopes) /\ course.last \in 1..Len(Envelopes)
         /\ course.crashes \in Nat
         /\ Len(Envelopes) \in Nat
         /\ BatchSize \in Nat \ {0} /\ MaxBuffer \in Nat \ {0} /\ MaxRetries \in Nat \ {0}
  BY SinkWriterAssumption, LenProperties DEF SinkWriterAssumption

-----------------------------------------------------------------------------
(* The inductive invariant.                                                 *)

Safe(r) == Kept(r) \/ Done(r) \/ r \in lost

(* What the process has committed is a place in the topic.                  *)
OffsetInTopic == offset \in {<<>>} \cup {<<n>> : n \in 0..Len(Envelopes)}

(* Where the three threads may be, at each stage of the coroutine.          *)
Stages ==
  /\ at["Handler"] \in {"idle", "adding", "checking", "flushing", "writing"}
  /\ at["Closer"] \in {"idle", "visiting", "flushing", "writing", "ended"}
  /\ loop = "running" => at["Closer"] = "idle"
  /\ loop # "running" => at["Handler"] = "idle"
  /\ loop = "closed" => at["Closer"] = "ended" /\ due["Closer"] = {}
  /\ at["Handler"] # "idle" => position \in 1..Len(Envelopes)
  /\ next >= 1

(* A buffer, and a batch that was taken from it, hold rows of one table.    *)
RowsOfOneTable ==
  /\ \A tb \in Tables, r \in Rows : Contains(buffer[tb], r) => TableOf(r) = tb
  /\ \A t \in Threads, r \in Rows : Contains(batch[t], r) => TableOf(r) = table[t]
  /\ \A t \in Threads : at[t] # "writing" => batch[t] = <<>>

(* When the handler is free the envelopes it has had are dealt with.        *)
FreeMeansDealtWith ==
  at["Handler"] = "idle" /\ loop = "running" =>
    \A r \in Rows : r[1] <= position => Safe(r)

(* The closer has emptied what it has seen, or a flush of it has failed.    *)
ClosingEmpties ==
  loop # "running" =>
    \A tb \in Tables :
      \/ buffer[tb] = <<>> \/ tb \in requeued
      \/ tb \in due["Closer"]
      \/ at["Closer"] = "flushing" /\ table["Closer"] = tb

IInv ==
  /\ TypeOK /\ OffsetInTopic /\ Stages
  /\ RowsOfOneTable
  /\ FreeMeansDealtWith /\ NoRowIsLost
  /\ ClosingEmpties

-----------------------------------------------------------------------------
(* Type correctness.                                                        *)

Types == TypeOK /\ OffsetInTopic /\ Stages

LEMMA NoneChosen == (CHOOSE tb \in Tables : TRUE) \in Tables
  BY SinkWriterAssumption DEF SinkWriterAssumption

Spots == {"idle", "adding", "visiting", "checking", "flushing", "writing", "ended"}

LEMMA GotoTyped ==
  ASSUME TypeOK, NEW t \in Threads, NEW where \in Spots, Goto(t, where)
  PROVE  at' \in [Threads -> Spots]
  BY DEF TypeOK, Goto, Spots

LEMMA InitTypes == Init => Types
  <1> SUFFICES ASSUME Init PROVE Types
    OBVIOUS
  <1>1. course.first \in 1..Len(Envelopes) /\ course.crashes \in Nat /\ Len(Envelopes) \in Nat
        /\ MaxRetries \in Nat \ {0}
    BY CourseFacts DEF Init
  <1>2. <<>> \in Seq(Rows) /\ <<>> \in Seq(Seq(Rows))
    OBVIOUS
  <1>3. lost \subseteq Rows
    BY DEF Init
  <1>4. /\ buffer \in [Tables -> Seq(Rows)] /\ stored \in [Tables -> Seq(Seq(Rows))]
        /\ at \in [Threads -> Spots] /\ due \in [Threads -> SUBSET Tables]
        /\ table \in [Threads -> Tables] /\ batch \in [Threads -> Seq(Rows)]
        /\ attempt \in [Threads -> 0..MaxRetries]
    BY <1>1, <1>2, NoneChosen DEF Init, Spots
  <1>5. TypeOK
    <2>1. position \in 0..Len(Envelopes) /\ crashes \in 0..course.crashes /\ next \in Nat
      BY <1>1 DEF Init
    <2>2. QED
      BY <1>3, <1>4, <2>1 DEF Init, TypeOK, Spots
  <1>6. QED
    BY <1>5, <1>1 DEF Init, Types, OffsetInTopic, Stages, Threads

LEMMA ConsumeTypes ==
  ASSUME Types, Consume \/ Break \/ Signal
  PROVE  Types'
  <1>1. /\ course.last \in 1..Len(Envelopes) /\ Len(Envelopes) \in Nat
        /\ position \in 0..Len(Envelopes) /\ course \in Courses
    BY CourseFacts DEF Types, TypeOK
  <1>2. TypeOK'
    <2> "Handler" \in Threads /\ "Closer" \in Threads
      BY DEF Threads
    <2>1. CASE Consume
      <3>1. at' \in [Threads -> Spots]
        BY <2>1, GotoTyped DEF Consume, Types, Spots
      <3>2. QED
        BY <2>1, <3>1, <1>1 DEF Consume, Types, TypeOK, Spots, rowVars, crashVars
    <2>2. CASE Break
      <3>1. at' \in [Threads -> Spots] /\ due' \in [Threads -> SUBSET Tables]
        BY <2>2, GotoTyped DEF Break, Types, TypeOK, Spots
      <3>2. /\ UNCHANGED <<stopping, buffer, table, batch, attempt, next>>
            /\ UNCHANGED <<stored, shed, requeued, course, crashes>>
            /\ loop' = "closing" /\ position' \in 0..Len(Envelopes) /\ lost' \subseteq Rows
        BY <2>2, <1>1 DEF Break, Types, TypeOK
      <3>3. QED
        BY <3>1, <3>2 DEF Types, TypeOK, Spots, rowVars, crashVars
    <2>3. CASE Signal
      BY <2>3, <1>1 DEF Signal, Types, TypeOK, rowVars, crashVars, threadVars, Threads
    <2>4. QED
      BY <2>1, <2>2, <2>3
  <1>3. OffsetInTopic'
    <2>1. CASE Consume \/ Signal
      BY <2>1 DEF Consume, Signal, Types, OffsetInTopic, rowVars, crashVars
    <2>2. CASE Break
      <3>1. offset' = <<position'>> /\ position' \in 0..Len(Envelopes)
        BY <2>2, <1>1 DEF Break
      <3>2. QED
        BY <3>1 DEF OffsetInTopic
    <2>3. QED
      BY <2>1, <2>2
  <1>4. Stages'
    <2>1. CASE Consume
      BY <2>1, <1>1 DEF Consume, Goto, Types, TypeOK, Stages, rowVars, crashVars,
                        threadVars, Threads
    <2>2. CASE Break
      BY <2>2, <1>1 DEF Break, Goto, Types, TypeOK, Stages, rowVars, crashVars, threadVars,
                        Threads
    <2>3. CASE Signal
      BY <2>3 DEF Signal, Types, Stages, rowVars, crashVars, threadVars
    <2>4. QED
      BY <2>1, <2>2, <2>3
  <1>5. QED
    BY <1>2, <1>3, <1>4 DEF Types

LEMMA AddTypes ==
  ASSUME Types, Add
  PROVE  Types'
  <1> DEFINE tb == Envelopes[position][next]
  <1> DEFINE rows == Append(buffer[tb], <<position, next>>)
  <1> DEFINE excess == IF Len(rows) > MaxBuffer THEN Len(rows) - MaxBuffer ELSE 0
  <1>1. position \in 1..Len(Envelopes) /\ next \in 1..Len(Envelopes[position])
        /\ MaxBuffer \in Nat \ {0} /\ next \in Nat
    BY CourseFacts DEF Types, TypeOK, Stages, Add
  <1>2. <<position, next>> \in Rows /\ tb \in Tables
    BY <1>1, RowIsThere, RowFacts
  <1>3. rows \in Seq(Rows) /\ Len(rows) \in Nat
    BY <1>2, AppendHas, LenProperties DEF Types, TypeOK
  <1>4. excess \in 0..Len(rows)
    BY <1>1, <1>3
  <1> HIDE DEF tb, rows, excess
  <1>5. /\ SubSeq(rows, excess + 1, Len(rows)) \in Seq(Rows)
        /\ ToSet(SubSeq(rows, 1, excess)) \subseteq Rows
    BY <1>3, <1>4, CutHas
  <1>6. /\ buffer' = [buffer EXCEPT ![tb] = SubSeq(rows, excess + 1, Len(rows))]
        /\ shed' = shed \cup ToSet(SubSeq(rows, 1, excess))
        /\ table' = [table EXCEPT !["Handler"] = tb]
    BY DEF Add, tb, rows, excess
  <1>7. /\ buffer' \in [Tables -> Seq(Rows)] /\ shed' \subseteq Rows
        /\ table' \in [Threads -> Tables]
    BY <1>2, <1>5, <1>6 DEF Types, TypeOK
  <1>8. at' \in [Threads -> Spots] /\ at' = [at EXCEPT !["Handler"] = "checking"] /\ next' \in Nat
    BY <1>1, GotoTyped DEF Add, Goto, Types, Spots, Threads
  <1>9. TypeOK'
    BY <1>7, <1>8 DEF Add, Types, TypeOK, Spots, crashVars
  <1>10. Stages'
    BY <1>1, <1>8 DEF Add, Types, TypeOK, Stages, Threads
  <1>11. QED
    BY <1>9, <1>10 DEF Add, Types, OffsetInTopic, crashVars

LEMMA CalmTypes ==
  ASSUME Types, NEW t \in Threads, NEW tb \in Tables,
         \/ Handled \/ Tick \/ Visit(t, tb) \/ Through(t)
         \/ ShouldFlush(t) \/ NotYet(t) \/ NothingLeft(t)
  PROVE  Types'
  <1>1. CASE Handled
    BY <1>1 DEF Handled, Goto, Types, TypeOK, OffsetInTopic, Stages, rowVars, crashVars,
                threadVars, Threads
  <1>2. CASE Tick
    BY <1>2 DEF Tick, Goto, Types, TypeOK, OffsetInTopic, Stages, rowVars, crashVars,
                threadVars, Threads
  <1>3. CASE Visit(t, tb)
    BY <1>3 DEF Visit, Goto, Types, TypeOK, OffsetInTopic, Stages, rowVars, crashVars,
                threadVars, Threads
  <1>4. CASE Through(t)
    BY <1>4 DEF Through, Goto, Types, TypeOK, OffsetInTopic, Stages, rowVars, crashVars,
                threadVars, Threads
  <1>5. CASE ShouldFlush(t)
    BY <1>5 DEF ShouldFlush, Goto, Types, TypeOK, OffsetInTopic, Stages, rowVars,
                crashVars, threadVars, Threads
  <1>6. CASE NotYet(t)
    BY <1>6 DEF NotYet, Resume, Goto, Types, TypeOK, OffsetInTopic, Stages, rowVars,
                crashVars, threadVars, Threads
  <1>7. CASE NothingLeft(t)
    BY <1>7 DEF NothingLeft, Resume, Goto, Types, TypeOK, OffsetInTopic, Stages, rowVars,
                crashVars, threadVars, Threads
  <1>8. QED
    BY <1>1, <1>2, <1>3, <1>4, <1>5, <1>6, <1>7

LEMMA WriteTypes ==
  ASSUME Types, NEW t \in Threads, TakeBatch(t) \/ Write(t)
  PROVE  Types'
  <1>1. /\ table[t] \in Tables /\ batch[t] \in Seq(Rows) /\ buffer[table[t]] \in Seq(Rows)
        /\ stored[table[t]] \in Seq(Seq(Rows)) /\ MaxRetries \in Nat \ {0} /\ <<>> \in Seq(Rows)
    BY CourseFacts DEF Types, TypeOK
  <1>2. Append(stored[table[t]], batch[t]) \in Seq(Seq(Rows))
    BY <1>1, AppendHas
  <1>3. CASE TakeBatch(t)
    <2>1. /\ batch' \in [Threads -> Seq(Rows)] /\ buffer' \in [Tables -> Seq(Rows)]
          /\ attempt' \in [Threads -> 0..MaxRetries] /\ at' \in [Threads -> Spots]
      BY <1>1, <1>3, GotoTyped DEF TakeBatch, Types, TypeOK, Spots
    <2>2. TypeOK'
      BY <2>1, <1>3 DEF TakeBatch, Types, TypeOK, Spots, rowVars, crashVars
    <2>3. OffsetInTopic' /\ Stages'
      BY <1>3 DEF TakeBatch, Goto, Types, TypeOK, OffsetInTopic, Stages, rowVars,
                  crashVars, Threads
    <2>4. QED
      BY <2>2, <2>3 DEF Types
  <1>4. CASE Insert(t)
    BY <1>1, <1>2, <1>4 DEF Insert, Resume, Goto, Types, TypeOK, OffsetInTopic, Stages,
                            crashVars, Threads
  <1>5. ASSUME InsertRaises(t) PROVE stored' \in [Tables -> Seq(Seq(Rows))]
    BY <1>1, <1>2, <1>5 DEF InsertRaises, Types, TypeOK
  <1>6. CASE Retry(t)
    <2>1. attempt' \in [Threads -> 0..MaxRetries] /\ stored' \in [Tables -> Seq(Seq(Rows))]
      BY <1>1, <1>5, <1>6 DEF Retry, Types, TypeOK
    <2>2. QED
      BY <2>1, <1>6 DEF Retry, Types, TypeOK, OffsetInTopic, Stages, crashVars, Threads
  <1>7. CASE Requeue(t)
    <2>1. batch[t] \o buffer[table[t]] \in Seq(Rows)
      BY <1>1, ConcatHas
    <2>2. stored' \in [Tables -> Seq(Seq(Rows))]
      BY <1>5, <1>7 DEF Requeue
    <2>3. /\ batch' \in [Threads -> Seq(Rows)] /\ buffer' \in [Tables -> Seq(Rows)]
          /\ at' \in [Threads -> Spots] /\ requeued' \subseteq Tables
      BY <1>1, <1>7, <2>1, GotoTyped DEF Requeue, Resume, Types, TypeOK, Spots
    <2>4. TypeOK'
      BY <2>2, <2>3, <1>7 DEF Requeue, Types, TypeOK, Spots, crashVars
    <2>5. Stages'
      <3>1. at' = [at EXCEPT ![t] = IF t = "Handler" THEN "adding" ELSE "visiting"]
            /\ at[t] = "writing" /\ UNCHANGED <<loop, due, position, next>>
        BY <1>7 DEF Requeue, InsertRaises, Resume, Goto
      <3>2. QED
        BY <3>1 DEF Types, TypeOK, Stages, Threads
    <2>6. QED
      BY <2>4, <2>5, <1>7 DEF Requeue, Types, OffsetInTopic, crashVars
  <1>8. QED
    BY <1>3, <1>4, <1>6, <1>7 DEF Write

LEMMA CrashTypes ==
  ASSUME Types, Crash
  PROVE  Types'
  <1>1. /\ course.first \in 1..Len(Envelopes) /\ course.last \in 1..Len(Envelopes)
        /\ Len(Envelopes) \in Nat /\ course.crashes \in Nat
        /\ position \in 0..Len(Envelopes) /\ MaxRetries \in Nat \ {0}
    BY CourseFacts DEF Types, TypeOK
  <1>2. PICK committed \in BOOLEAN :
           /\ position' \in Resumed(committed)
           /\ offset' = IF committed THEN <<position'>> ELSE <<>>
    BY DEF Crash
  <1>3. position' \in 0..Len(Envelopes)
    <2>1. offset # <<>> => offset[1] \in 0..Len(Envelopes)
      BY DEF Types, OffsetInTopic
    <2>2. QED
      BY <1>1, <1>2, <2>1 DEF Resumed
  <1>4. OffsetInTopic'
    BY <1>2, <1>3 DEF OffsetInTopic
  <1>5. lost' \subseteq Rows
    BY DEF Crash, Types, TypeOK
  <1>6. crashes' \in 0..course.crashes
    BY <1>1 DEF Crash, Types, TypeOK
  <1>7. TypeOK'
    <2>1. /\ buffer' \in [Tables -> Seq(Rows)] /\ at' \in [Threads -> Spots]
          /\ due' \in [Threads -> SUBSET Tables] /\ batch' \in [Threads -> Seq(Rows)]
          /\ attempt' \in [Threads -> 0..MaxRetries]
      BY <1>1 DEF Crash, Spots
    <2>2. QED
      BY <2>1, <1>3, <1>5, <1>6 DEF Crash, Types, TypeOK, Spots
  <1>8. Stages'
    BY DEF Crash, Stages, Threads
  <1>9. QED
    BY <1>4, <1>7, <1>8 DEF Types

LEMMA NextTypes == Types /\ [Next]_vars => Types'
  <1> SUFFICES ASSUME Types, [Next]_vars PROVE Types'
    OBVIOUS
  <1>1. CASE UNCHANGED vars
    BY <1>1 DEF vars, Types, TypeOK, OffsetInTopic, Stages, rowVars, crashVars, threadVars
  <1>2. CASE \E t \in Threads : Flush(t) \/ Write(t)
    <2>1. PICK t \in Threads : Flush(t) \/ Write(t)
      BY <1>2
    <2>2. PICK some \in Tables : TRUE
      BY NoneChosen
    <2>3. QED
      BY <2>1, <2>2, CalmTypes, WriteTypes DEF Flush
  <1>3. CASE Handle \/ Tick
    <2>1. PICK some \in Tables : TRUE
      BY NoneChosen
    <2>2. "Handler" \in Threads
      BY DEF Threads
    <2>3. QED
      BY <1>3, <2>1, <2>2, AddTypes, CalmTypes DEF Handle
  <1>4. QED
    BY <1>1, <1>2, <1>3, ConsumeTypes, CrashTypes DEF Next

(* writer.py:52-101 and main.py:80-150: the variables of the sink keep      *)
(* their types; in particular a batch is tried no more often than allowed.  *)
THEOREM TypeCorrect == Spec => []TypeOK
  <1>1. Types => TypeOK
    BY DEF Types
  <1>2. QED
    BY <1>1, InitTypes, NextTypes, PTL DEF Spec

-----------------------------------------------------------------------------
(* No row is lost.                                                          *)

SafeStays == \A r \in Rows : Safe(r) => Safe(r)'
Rests == UNCHANGED <<buffer, batch, stored, shed>> /\ lost \subseteq lost'

LEMMA RestIsSafe == ASSUME Rests PROVE SafeStays
  BY DEF Rests, SafeStays, Safe, Kept, Done, InStore

(* A step that touches no row, and no table of a batch.                     *)
LEMMA RestKeepsTables ==
  ASSUME RowsOfOneTable, Rests,
         \A t \in Threads : at[t] = "writing" => at'[t] = "writing" /\ table'[t] = table[t]
  PROVE  RowsOfOneTable'
  <1>1. ASSUME NEW t \in Threads, NEW r \in Rows, Contains(batch'[t], r)
        PROVE  TableOf(r) = table'[t]
    <2>1. Contains(batch[t], r)
      BY <1>1 DEF Rests
    <2>2. batch[t] # <<>>
      BY <2>1, EmptyHasNothing
    <2>3. QED
      BY <2>1, <2>2 DEF RowsOfOneTable
  <1>2. QED
    BY <1>1 DEF RowsOfOneTable, Rests

Flushing(t) ==
  \/ \E tb \in Tables : Visit(t, tb)
  \/ Through(t) \/ ShouldFlush(t) \/ NotYet(t) \/ NothingLeft(t)

LEMMA FlushingRests ==
  ASSUME Types, RowsOfOneTable, NEW t \in Threads, Flushing(t) \/ Tick
  PROVE  /\ RowsOfOneTable' /\ SafeStays
         /\ UNCHANGED <<position, next>>
         /\ loop' = "running" <=> loop = "running"
         /\ at'["Handler"] = "idle" => at["Handler"] = "idle"
  <1>1. Rests /\ UNCHANGED <<position, next>>
    BY DEF Flushing, Tick, Visit, Through, ShouldFlush, NotYet, NothingLeft, Rests,
           rowVars, crashVars
  <1>2. \A u \in Threads : at[u] = "writing" => at'[u] = "writing" /\ table'[u] = table[u]
    BY DEF Flushing, Tick, Visit, Through, ShouldFlush, NotYet, NothingLeft, Resume, Goto,
           Types, TypeOK, Threads
  <1>3. at'["Handler"] = "idle" => at["Handler"] = "idle"
    BY DEF Flushing, Tick, Visit, Through, ShouldFlush, NotYet, NothingLeft, Resume, Goto,
           Types, TypeOK, Stages, Threads
  <1>4. loop' = "running" <=> loop = "running"
    BY DEF Flushing, Tick, Visit, Through, ShouldFlush, NotYet, NothingLeft, Types, Stages
  <1>5. QED
    BY <1>1, <1>2, <1>3, <1>4, RestIsSafe, RestKeepsTables

LEMMA AddMoves ==
  ASSUME Types, RowsOfOneTable, Add
  PROVE  /\ RowsOfOneTable' /\ SafeStays
         /\ \A r \in Rows : r = <<position, next>> => Safe(r)'
  <1> DEFINE tb == Envelopes[position][next]
  <1> DEFINE new == <<position, next>>
  <1> DEFINE rows == Append(buffer[tb], new)
  <1> DEFINE excess == IF Len(rows) > MaxBuffer THEN Len(rows) - MaxBuffer ELSE 0
  <1> DEFINE back == SubSeq(rows, excess + 1, Len(rows))
  <1> DEFINE front == ToSet(SubSeq(rows, 1, excess))
  <1>1. position \in 1..Len(Envelopes) /\ next \in 1..Len(Envelopes[position])
        /\ MaxBuffer \in Nat \ {0}
    BY CourseFacts DEF Types, TypeOK, Stages, Add
  <1>2. new \in Rows /\ TableOf(new) = tb /\ tb \in Tables
    BY <1>1, RowIsThere, RowFacts
  <1>3. /\ buffer' = [buffer EXCEPT ![tb] = back] /\ shed' = shed \cup front
        /\ table' = [table EXCEPT !["Handler"] = tb] /\ UNCHANGED <<batch, stored, lost>>
        /\ at["Handler"] = "adding" /\ at' = [at EXCEPT !["Handler"] = "checking"]
    BY DEF Add, Goto, crashVars
  <1>4. buffer \in [Tables -> Seq(Rows)] /\ at \in [Threads -> Spots]
        /\ table \in [Threads -> Tables] /\ "Handler" \in Threads
    BY DEF Types, TypeOK, Spots, Threads
  <1> HIDE DEF tb, new
  <1>5. /\ rows \in Seq(Rows) /\ Len(rows) \in Nat
        /\ \A x : Contains(rows, x) <=> Contains(buffer[tb], x) \/ x = new
    BY <1>2, <1>4, AppendHas, LenProperties
  <1>6. excess \in 0..Len(rows)
    BY <1>1, <1>5
  <1> HIDE DEF rows, excess
  <1>7. /\ \A x : Contains(rows, x) => Contains(back, x) \/ x \in front
        /\ \A x : Contains(back, x) => Contains(rows, x)
    BY <1>5, <1>6, CutHas
  <1> HIDE DEF back, front
  <1>8. ASSUME NEW r \in Rows, Safe(r) PROVE Safe(r)'
    <2>1. CASE Contains(buffer[TableOf(r)], r)
      <3>1. TableOf(r) \in Tables
        BY RowFacts
      <3>2. Contains(buffer'[TableOf(r)], r) \/ r \in shed'
        BY <2>1, <3>1, <1>3, <1>4, <1>5, <1>7
      <3>3. QED
        BY <3>2 DEF Safe, Kept, Done
    <2>2. CASE ~Contains(buffer[TableOf(r)], r)
      BY <1>8, <2>2, <1>3 DEF Safe, Kept, Done, InStore
    <2>3. QED
      BY <2>1, <2>2
  <1>9. ASSUME NEW r \in Rows, r = new PROVE Safe(r)'
    <2>1. Contains(buffer'[TableOf(r)], r) \/ r \in shed'
      BY <1>2, <1>3, <1>4, <1>5, <1>7, <1>9
    <2>2. QED
      BY <2>1 DEF Safe, Kept, Done
  <1>10. RowsOfOneTable'
    <2>1. ASSUME NEW b \in Tables, NEW r \in Rows, Contains(buffer'[b], r) PROVE TableOf(r) = b
      BY <2>1, <1>2, <1>3, <1>4, <1>5, <1>7 DEF RowsOfOneTable
    <2>2. batch["Handler"] = <<>>
      BY <1>3, <1>4 DEF RowsOfOneTable
    <2>3. ASSUME NEW t \in Threads, NEW r \in Rows, Contains(batch'[t], r)
          PROVE  TableOf(r) = table'[t]
      BY <2>2, <2>3, <1>3, <1>4, EmptyHasNothing DEF RowsOfOneTable
    <2>4. \A t \in Threads : at'[t] # "writing" => batch'[t] = <<>>
      BY <2>2, <1>3, <1>4 DEF RowsOfOneTable
    <2>5. QED
      BY <2>1, <2>3, <2>4 DEF RowsOfOneTable
  <1>11. QED
    BY <1>2, <1>8, <1>9, <1>10 DEF SafeStays, new

LEMMA TakeMoves ==
  ASSUME Types, RowsOfOneTable, NEW t \in Threads, TakeBatch(t)
  PROVE  RowsOfOneTable' /\ SafeStays
  <1> DEFINE tb == table[t]
  <1>1. /\ tb \in Tables /\ at[t] = "flushing" /\ batch[t] = <<>>
        /\ batch' = [batch EXCEPT ![t] = buffer[tb]] /\ buffer' = [buffer EXCEPT ![tb] = <<>>]
        /\ at' = [at EXCEPT ![t] = "writing"] /\ UNCHANGED <<table, stored, shed, lost>>
    BY DEF TakeBatch, Goto, Types, TypeOK, RowsOfOneTable, rowVars, crashVars
  <1>2. buffer \in [Tables -> Seq(Rows)] /\ batch \in [Threads -> Seq(Rows)]
        /\ at \in [Threads -> Spots]
    BY DEF Types, TypeOK, Spots
  <1> HIDE DEF tb
  <1>3. ASSUME NEW r \in Rows, Safe(r) PROVE Safe(r)'
    <2>1. TableOf(r) \in Tables
      BY RowFacts
    <2>2. CASE Contains(buffer[TableOf(r)], r) /\ TableOf(r) = tb
      <3>1. Contains(batch'[t], r)
        BY <2>2, <1>1, <1>2
      <3>2. QED
        BY <3>1 DEF Safe, Kept
    <2>3. CASE Contains(buffer[TableOf(r)], r) /\ TableOf(r) # tb
      <3>1. Contains(buffer'[TableOf(r)], r)
        BY <2>1, <2>3, <1>1, <1>2
      <3>2. QED
        BY <3>1 DEF Safe, Kept
    <2>4. CASE \E u \in Threads : Contains(batch[u], r)
      <3>1. PICK u \in Threads : Contains(batch[u], r)
        BY <2>4
      <3>2. u # t
        BY <3>1, <1>1, EmptyHasNothing
      <3>3. Contains(batch'[u], r)
        BY <3>1, <3>2, <1>1, <1>2
      <3>4. QED
        BY <3>3 DEF Safe, Kept
    <2>5. CASE Done(r) \/ r \in lost
      BY <2>5, <1>1 DEF Safe, Done, InStore
    <2>6. QED
      BY <1>3, <2>2, <2>3, <2>4, <2>5 DEF Safe, Kept
  <1>4. ASSUME NEW b \in Tables, NEW r \in Rows, Contains(buffer'[b], r) PROVE TableOf(r) = b
    BY <1>4, <1>1, <1>2, EmptyHasNothing DEF RowsOfOneTable
  <1>5. ASSUME NEW u \in Threads, NEW r \in Rows, Contains(batch'[u], r)
        PROVE  TableOf(r) = table'[u]
    <2>1. CASE u = t
      BY <2>1, <1>1, <1>2, <1>5 DEF RowsOfOneTable, tb
    <2>2. CASE u # t
      BY <2>2, <1>1, <1>2, <1>5 DEF RowsOfOneTable
    <2>3. QED
      BY <2>1, <2>2
  <1>6. \A u \in Threads : at'[u] # "writing" => batch'[u] = <<>>
    BY <1>1, <1>2 DEF RowsOfOneTable
  <1>7. QED
    BY <1>3, <1>4, <1>5, <1>6 DEF SafeStays, RowsOfOneTable

(* Inserts never take a batch out of the store.                             *)
LEMMA StoreGrows ==
  ASSUME Types, NEW tb \in Tables, NEW rows \in Seq(Rows), NEW r \in Rows,
         stored' = [stored EXCEPT ![tb] = Append(@, rows)]
  PROVE  /\ InStore(r) => InStore(r)'
         /\ Contains(rows, r) /\ TableOf(r) = tb => InStore(r)'
  <1>1. stored[tb] \in Seq(Seq(Rows)) /\ stored \in [Tables -> Seq(Seq(Rows))]
        /\ TableOf(r) \in Tables
    BY RowFacts DEF Types, TypeOK
  <1>2. /\ stored'[tb] = Append(stored[tb], rows)
        /\ \A b \in Tables \ {tb} : stored'[b] = stored[b]
    BY <1>1
  <1>3. /\ DOMAIN stored[tb] = 1..Len(stored[tb]) /\ Len(stored[tb]) \in Nat
        /\ DOMAIN stored'[tb] = 1..(Len(stored[tb]) + 1)
        /\ \A k \in 1..Len(stored[tb]) : stored'[tb][k] = stored[tb][k]
        /\ stored'[tb][Len(stored[tb]) + 1] = rows
    BY <1>1, <1>2, AppendProperties, LenProperties
  <1>4. ASSUME InStore(r) PROVE InStore(r)'
    <2>1. PICK k \in DOMAIN stored[TableOf(r)] : Contains(stored[TableOf(r)][k], r)
      BY <1>4 DEF InStore
    <2>2. k \in DOMAIN stored'[TableOf(r)] /\ stored'[TableOf(r)][k] = stored[TableOf(r)][k]
      <3>1. CASE TableOf(r) = tb
        BY <2>1, <3>1, <1>3
      <3>2. CASE TableOf(r) # tb
        BY <2>1, <3>2, <1>1, <1>2
      <3>3. QED
        BY <3>1, <3>2
    <2>3. QED
      BY <2>1, <2>2 DEF InStore
  <1>5. ASSUME Contains(rows, r), TableOf(r) = tb PROVE InStore(r)'
    <2>1. Len(stored[tb]) + 1 \in DOMAIN stored'[tb]
      BY <1>3
    <2>2. QED
      BY <2>1, <1>3, <1>5 DEF InStore
  <1>6. QED
    BY <1>4, <1>5

LEMMA WriteMoves ==
  ASSUME Types, RowsOfOneTable, NEW t \in Threads, Write(t)
  PROVE  RowsOfOneTable' /\ SafeStays
  <1> DEFINE tb == table[t]
  <1>1. /\ tb \in Tables /\ batch[t] \in Seq(Rows) /\ at[t] = "writing"
        /\ UNCHANGED <<table, shed, lost>>
    BY DEF Write, Insert, Retry, Requeue, InsertRaises, Types, TypeOK, crashVars
  <1>2. buffer \in [Tables -> Seq(Rows)] /\ batch \in [Threads -> Seq(Rows)]
        /\ at \in [Threads -> Spots] /\ "writing" \in Spots
    BY DEF Types, TypeOK, Spots
  <1>3. stored' = stored \/ stored' = [stored EXCEPT ![tb] = Append(@, batch[t])]
    BY DEF Write, Insert, Retry, Requeue, InsertRaises
  <1> HIDE DEF tb
  <1>4. \A r \in Rows : Done(r) => Done(r)'
    BY <1>1, <1>3, StoreGrows DEF Done, InStore
  <1>5. CASE Insert(t)
    <2>1. /\ stored' = [stored EXCEPT ![tb] = Append(@, batch[t])]
          /\ batch' = [batch EXCEPT ![t] = <<>>] /\ UNCHANGED buffer
          /\ at' = [at EXCEPT ![t] = IF t = "Handler" THEN "adding" ELSE "visiting"]
      BY <1>5 DEF Insert, Resume, Goto, tb
    <2>2. ASSUME NEW r \in Rows, Safe(r) PROVE Safe(r)'
      <3>1. CASE Contains(batch[t], r)
        <4>1. TableOf(r) = tb
          BY <3>1 DEF RowsOfOneTable, tb
        <4>2. QED
          BY <4>1, <3>1, <2>1, <1>1, StoreGrows DEF Safe, Done
      <3>2. CASE Contains(buffer[TableOf(r)], r)
        BY <3>2, <2>1 DEF Safe, Kept
      <3>3. CASE \E u \in Threads \ {t} : Contains(batch[u], r)
        BY <3>3, <2>1, <1>2 DEF Safe, Kept
      <3>4. CASE Done(r) \/ r \in lost
        BY <3>4, <1>1, <1>4 DEF Safe
      <3>5. QED
        BY <2>2, <3>1, <3>2, <3>3, <3>4 DEF Safe, Kept
    <2>3. RowsOfOneTable'
      BY <2>1, <1>1, <1>2, EmptyHasNothing DEF RowsOfOneTable
    <2>4. QED
      BY <2>2, <2>3 DEF SafeStays
  <1>6. CASE Retry(t)
    <2>1. UNCHANGED <<buffer, batch, at>>
      BY <1>6 DEF Retry
    <2>2. QED
      BY <2>1, <1>1, <1>4 DEF SafeStays, Safe, Kept, RowsOfOneTable
  <1>7. CASE Requeue(t)
    <2>1. /\ buffer' = [buffer EXCEPT ![tb] = batch[t] \o @]
          /\ batch' = [batch EXCEPT ![t] = <<>>]
          /\ at' = [at EXCEPT ![t] = IF t = "Handler" THEN "adding" ELSE "visiting"]
      BY <1>7 DEF Requeue, Resume, Goto, tb
    <2>2. /\ buffer'[tb] = batch[t] \o buffer[tb]
          /\ \A b \in Tables \ {tb} : buffer'[b] = buffer[b]
          /\ \A x : Contains(buffer'[tb], x) <=> Contains(batch[t], x) \/ Contains(buffer[tb], x)
      BY <2>1, <1>1, <1>2, ConcatHas
    <2>3. ASSUME NEW r \in Rows, Safe(r) PROVE Safe(r)'
      <3>1. TableOf(r) \in Tables
        BY RowFacts
      <3>2. CASE Contains(batch[t], r)
        <4>1. TableOf(r) = tb
          BY <3>2 DEF RowsOfOneTable, tb
        <4>2. QED
          BY <4>1, <3>2, <2>2 DEF Safe, Kept
      <3>3. CASE Contains(buffer[TableOf(r)], r)
        <4>1. Contains(buffer'[TableOf(r)], r)
          BY <3>1, <3>3, <2>2
        <4>2. QED
          BY <4>1 DEF Safe, Kept
      <3>4. CASE \E u \in Threads \ {t} : Contains(batch[u], r)
        BY <3>4, <2>1, <1>2 DEF Safe, Kept
      <3>5. CASE Done(r) \/ r \in lost
        BY <3>5, <1>1, <1>4 DEF Safe
      <3>6. QED
        BY <2>3, <3>2, <3>3, <3>4, <3>5 DEF Safe, Kept
    <2>4. ASSUME NEW b \in Tables, NEW r \in Rows, Contains(buffer'[b], r) PROVE TableOf(r) = b
      <3>1. CASE b = tb
        BY <3>1, <2>2, <2>4, <1>1 DEF RowsOfOneTable, tb
      <3>2. CASE b # tb
        BY <3>2, <2>2, <2>4 DEF RowsOfOneTable
      <3>3. QED
        BY <3>1, <3>2
    <2>5. RowsOfOneTable'
      BY <2>1, <2>4, <1>1, <1>2, EmptyHasNothing DEF RowsOfOneTable
    <2>6. QED
      BY <2>3, <2>5 DEF SafeStays
  <1>8. QED
    BY <1>5, <1>6, <1>7 DEF Write

Accounted == FreeMeansDealtWith /\ NoRowIsLost

(* A step of a thread that leaves the envelope and the handler's place.     *)
LEMMA SafeAccounts ==
  ASSUME Accounted, SafeStays, UNCHANGED <<position, next>>,
         loop' = "running" <=> loop = "running",
         at'["Handler"] = "idle" => at["Handler"] = "idle"
  PROVE  Accounted'
  <1>1. \A r \in Rows : Taken(r)' => Taken(r)
    BY DEF Taken
  <1>2. NoRowIsLost'
    BY <1>1 DEF Accounted, NoRowIsLost, SafeStays, Safe
  <1>3. FreeMeansDealtWith'
    BY DEF Accounted, FreeMeansDealtWith, SafeStays
  <1>4. QED
    BY <1>2, <1>3 DEF Accounted

LEMMA LoopKeeps ==
  ASSUME Types, RowsOfOneTable, Accounted, Consume \/ Break \/ Signal \/ Handled
  PROVE  RowsOfOneTable' /\ Accounted'
  <1>1. Rests /\ UNCHANGED table
    BY DEF Consume, Break, Signal, Handled, Rests, rowVars, crashVars, threadVars
  <1>2. \A t \in Threads : at[t] = "writing" => at'[t] = "writing"
    BY DEF Consume, Break, Signal, Handled, Goto, threadVars, Types, TypeOK, Stages, Threads
  <1>3. RowsOfOneTable' /\ SafeStays
    BY <1>1, <1>2, RestIsSafe, RestKeepsTables
  <1>4. position \in Nat /\ \A r \in Rows : r[1] \in Nat /\ r[2] \in Nat
    BY RowFacts, CourseFacts DEF Types, TypeOK
  <1>5. CASE Consume \/ Break
    <2>1. \A r \in Rows : r[1] <= position => Safe(r)'
      BY <1>5, <1>3 DEF Consume, Break, Accounted, FreeMeansDealtWith, SafeStays
    <2>2. position' = position + 1
      BY <1>5 DEF Consume, Break
    <2>3. ASSUME NEW r \in Rows, Taken(r)' PROVE Safe(r)'
      <3>1. r[1] < position' \/ (r[1] = position' /\ (loop' = "running" => r[2] < next'))
        BY <2>3 DEF Taken
      <3>2. r[2] >= 1
        BY RowFacts
      <3>3. CASE r[1] <= position
        BY <2>1, <3>3
      <3>4. CASE r[1] = position'
        <4>1. CASE Consume
          <5>1. loop' = "running" /\ next' = 1
            BY <4>1 DEF Consume
          <5>2. FALSE
            BY <5>1, <3>1, <3>2, <3>4, <2>2, <1>4
          <5>3. QED
            BY <5>2
        <4>2. CASE Break
          <5>1. Done(r) => Done(r)'
            BY <4>2 DEF Break, Done, InStore
          <5>2. ~Done(r) => r \in lost'
            BY <4>2, <3>4 DEF Break
          <5>3. QED
            BY <5>1, <5>2 DEF Safe
        <4>3. QED
          BY <1>5, <4>1, <4>2
      <3>5. QED
        BY <3>1, <3>3, <3>4, <2>2, <1>4
    <2>4. NoRowIsLost'
      BY <2>3 DEF NoRowIsLost, Safe
    <2>5. ~(at'["Handler"] = "idle" /\ loop' = "running")
      BY <1>5 DEF Consume, Break, Goto, Types, TypeOK, Threads
    <2>6. QED
      BY <1>3, <2>4, <2>5 DEF Accounted, FreeMeansDealtWith
  <1>6. CASE Signal
    <2>1. UNCHANGED <<position, next, loop, at>>
      BY <1>6 DEF Signal, threadVars
    <2>2. QED
      BY <2>1, <1>3, SafeAccounts
  <1>7. CASE Handled
    <2>1. /\ UNCHANGED <<position, next, loop>> /\ next > Len(Envelopes[position])
          /\ loop = "running" /\ next \in Nat
      BY <1>7 DEF Handled, Types, TypeOK, Stages
    <2>2. NoRowIsLost'
      BY <2>1, <1>3 DEF Accounted, NoRowIsLost, Taken, SafeStays, Safe
    <2>3. ASSUME NEW r \in Rows, r[1] <= position PROVE Safe(r)'
      <3>1. r[2] \in 1..Len(Envelopes[r[1]])
        BY RowFacts
      <3>2. Taken(r)
        <4>1. CASE r[1] = position
          <5>1. Len(Envelopes[position]) \in Nat
            <6>1. position \in 1..Len(Envelopes)
              BY <4>1, RowFacts
            <6>2. Envelopes[position] \in Seq(Tables)
              BY <6>1, SinkWriterAssumption, ElementOfSeq DEF SinkWriterAssumption
            <6>3. QED
              BY <6>2, LenProperties
          <5>2. r[2] < next
            BY <4>1, <5>1, <3>1, <2>1, <1>4
          <5>3. QED
            BY <4>1, <5>2, <2>1 DEF Taken
        <4>2. CASE r[1] # position
          BY <4>2, <2>3, <1>4 DEF Taken
        <4>3. QED
          BY <4>1, <4>2
      <3>3. QED
        BY <3>2, <1>3 DEF Accounted, NoRowIsLost, SafeStays, Safe
    <2>4. FreeMeansDealtWith'
      BY <2>1, <2>3 DEF FreeMeansDealtWith
    <2>5. QED
      BY <1>3, <2>2, <2>4 DEF Accounted
  <1>8. QED
    BY <1>5, <1>6, <1>7

LEMMA AddKeeps ==
  ASSUME Types, RowsOfOneTable, Accounted, Add
  PROVE  RowsOfOneTable' /\ Accounted'
  <1>1. /\ RowsOfOneTable' /\ SafeStays
        /\ \A r \in Rows : r = <<position, next>> => Safe(r)'
    BY AddMoves
  <1>2. /\ position' = position /\ next' = next + 1 /\ loop' = loop /\ next \in Nat
        /\ at'["Handler"] = "checking"
    BY DEF Add, Goto, Types, TypeOK, Threads
  <1>3. ASSUME NEW r \in Rows, Taken(r)' PROVE Safe(r)'
    <2>1. r[2] \in Nat /\ r = <<r[1], r[2]>>
      BY RowFacts
    <2>2. CASE Taken(r)
      BY <2>2, <1>1 DEF Accounted, NoRowIsLost, SafeStays, Safe
    <2>3. CASE ~Taken(r)
      <3>1. r[1] = position /\ r[2] = next
        BY <1>2, <1>3, <2>1, <2>3 DEF Taken
      <3>2. r = <<position, next>>
        BY <3>1, <2>1
      <3>3. QED
        BY <3>2, <1>1
    <2>4. QED
      BY <2>2, <2>3
  <1>4. NoRowIsLost'
    BY <1>3 DEF NoRowIsLost, Safe
  <1>5. FreeMeansDealtWith'
    BY <1>2 DEF FreeMeansDealtWith
  <1>6. QED
    BY <1>1, <1>4, <1>5 DEF Accounted

(* What a dead process had in memory belongs to envelopes that come again,  *)
(* or is passed over.                                                       *)
LEMMA CrashKeeps ==
  ASSUME Types, Crash
  PROVE  RowsOfOneTable' /\ Accounted'
  <1>1. RowsOfOneTable'
    BY EmptyHasNothing DEF Crash, RowsOfOneTable
  <1>2. ASSUME NEW r \in Rows, r[1] <= position' PROVE Safe(r)'
    <2>1. Done(r) => Done(r)'
      BY DEF Crash, Done, InStore
    <2>2. ~Done(r) => r \in lost'
      BY <1>2 DEF Crash
    <2>3. QED
      BY <2>1, <2>2 DEF Safe
  <1>3. position' \in Nat
    BY CrashTypes, CourseFacts DEF Types, TypeOK
  <1>4. \A r \in Rows : Taken(r)' => r[1] <= position'
    <2>1. \A r \in Rows : r[1] \in Nat
      BY RowFacts
    <2>2. QED
      BY <2>1, <1>3 DEF Taken
  <1>5. QED
    BY <1>1, <1>2, <1>4 DEF Accounted, FreeMeansDealtWith, NoRowIsLost, Safe

-----------------------------------------------------------------------------
(* Closing.                                                                 *)

LEMMA ClosingKeeps ==
  ASSUME Types, ClosingEmpties, Next
  PROVE  ClosingEmpties'
  <1> USE DEF ClosingEmpties
  <1>1. CASE Consume \/ Crash \/ Handle \/ Tick
    <2>1. loop' = "running"
      BY <1>1 DEF Consume, Crash, Handle, Handled, Add, Tick, Types, Stages
    <2>2. QED
      BY <2>1
  <1>2. CASE Break
    BY <1>2 DEF Break, Types, TypeOK, Threads
  <1>3. CASE Signal
    BY <1>3 DEF Signal, rowVars, threadVars
  <1>4. ASSUME NEW t \in Threads, Flush(t) \/ Write(t) PROVE ClosingEmpties'
    <2> SUFFICES ASSUME loop' # "running", NEW tb \in Tables
                 PROVE  \/ buffer'[tb] = <<>> \/ tb \in requeued'
                        \/ tb \in due'["Closer"]
                        \/ at'["Closer"] = "flushing" /\ table'["Closer"] = tb
      OBVIOUS
    <2>0. loop # "running" /\ "Closer" \in Threads
      BY <1>4 DEF Flush, Write, Visit, Through, ShouldFlush, NotYet, TakeBatch, NothingLeft,
                  Insert, Retry, Requeue, Types, Stages, Threads
    <2>1. ASSUME NEW b \in Tables, Visit(t, b) PROVE ClosingEmpties'
      BY <2>1, <2>0 DEF Visit, Goto, Types, TypeOK, rowVars
    <2>2. CASE Through(t)
      BY <2>2, <2>0 DEF Through, Goto, Types, TypeOK, rowVars
    <2>3. CASE ShouldFlush(t) \/ NotYet(t)
      BY <2>3, <2>0 DEF ShouldFlush, NotYet, Resume, Goto, Types, TypeOK, Stages, rowVars
    <2>4. CASE TakeBatch(t) \/ NothingLeft(t)
      BY <2>4, <2>0 DEF TakeBatch, NothingLeft, Resume, Goto, Types, TypeOK, rowVars
    <2>5. CASE Insert(t)
      BY <2>5, <2>0 DEF Insert, Resume, Goto, Types, TypeOK
    <2>6. CASE Retry(t)
      BY <2>6, <2>0 DEF Retry
    <2>7. CASE Requeue(t)
      <3>1. at[t] = "writing" /\ table[t] \in requeued' /\ requeued \subseteq requeued'
        BY <2>7 DEF Requeue, InsertRaises
      <3>2. tb # table[t] => buffer'[tb] = buffer[tb]
        BY <2>7 DEF Requeue, Types, TypeOK
      <3>3. at["Closer"] = "flushing" => at'["Closer"] = "flushing"
        BY <3>1, <2>7 DEF Requeue, Resume, Goto, Types, TypeOK
      <3>4. QED
        BY <3>1, <3>2, <3>3, <2>0, <2>7 DEF Requeue
    <2>8. QED
      BY <1>4, <2>1, <2>2, <2>3, <2>4, <2>5, <2>6, <2>7 DEF Flush, Write
  <1>5. QED
    BY <1>1, <1>2, <1>3, <1>4 DEF Next

-----------------------------------------------------------------------------
(* The theorems.                                                            *)

LEMMA InitIInv == Init => IInv
  <1> SUFFICES ASSUME Init PROVE IInv
    OBVIOUS
  <1>1. Types
    BY InitTypes
  <1>2. RowsOfOneTable
    BY EmptyHasNothing DEF Init, RowsOfOneTable
  <1>3. course.first \in Nat /\ \A r \in Rows : r[1] \in Nat /\ r[2] \in Nat
    BY <1>1, CourseFacts, RowFacts DEF Types, TypeOK
  <1>4. \A r \in Rows : r[1] <= position => r \in lost
    BY <1>3 DEF Init
  <1>5. FreeMeansDealtWith
    BY <1>4 DEF FreeMeansDealtWith, Safe
  <1>6. NoRowIsLost
    <2>1. \A r \in Rows : Taken(r) => r[1] <= position
      BY <1>3 DEF Init, Taken
    <2>2. QED
      BY <1>4, <2>1 DEF NoRowIsLost
  <1>7. ClosingEmpties
    BY DEF Init, ClosingEmpties
  <1>8. QED
    BY <1>1, <1>2, <1>5, <1>6, <1>7 DEF IInv, Types

LEMMA NextIInv == IInv /\ [Next]_vars => IInv'
  <1> SUFFICES ASSUME IInv, [Next]_vars PROVE IInv'
    OBVIOUS
  <1>1. Types /\ RowsOfOneTable /\ Accounted /\ ClosingEmpties
    BY DEF IInv, Types, Accounted
  <1>2. Types'
    BY <1>1, NextTypes
  <1>3. CASE Next
    <2>1. ClosingEmpties'
      BY <1>1, <1>3, ClosingKeeps
    <2>2. RowsOfOneTable' /\ Accounted'
      <3>1. CASE Consume \/ Break \/ Signal
        BY <3>1, <1>1, LoopKeeps
      <3>2. CASE Crash
        BY <3>2, <1>1, CrashKeeps
      <3>3. CASE Handle
        BY <3>3, <1>1, AddKeeps, LoopKeeps DEF Handle
      <3>4. CASE Tick
        <4>1. PICK t \in Threads : TRUE
          BY DEF Threads
        <4>2. QED
          BY <3>4, <4>1, <1>1, FlushingRests, SafeAccounts
      <3>5. ASSUME NEW t \in Threads, Flush(t) \/ Write(t) PROVE RowsOfOneTable' /\ Accounted'
        <4>1. CASE Flushing(t)
          BY <4>1, <1>1, FlushingRests, SafeAccounts
        <4>2. CASE TakeBatch(t) \/ Write(t)
          <5>1. RowsOfOneTable' /\ SafeStays
            BY <4>2, <1>1, TakeMoves, WriteMoves
          <5>2. UNCHANGED <<position, next, loop>>
            BY <4>2 DEF TakeBatch, Write, Insert, Retry, Requeue
          <5>3. at'["Handler"] = "idle" => at["Handler"] = "idle"
            BY <4>2, <1>1 DEF TakeBatch, Write, Insert, Retry, Requeue, Resume, Goto,
                              Types, TypeOK,
                              Threads
          <5>4. QED
            BY <5>1, <5>2, <5>3, <1>1, SafeAccounts
        <4>3. QED
          BY <3>5, <4>1, <4>2 DEF Flush, Flushing
      <3>6. QED
        BY <1>3, <3>1, <3>2, <3>3, <3>4, <3>5 DEF Next
    <2>3. QED
      BY <1>2, <2>1, <2>2 DEF IInv, Types, Accounted
  <1>4. CASE UNCHANGED vars
    BY <1>4 DEF IInv, TypeOK, OffsetInTopic, Stages, RowsOfOneTable, FreeMeansDealtWith,
                NoRowIsLost,
                ClosingEmpties, Safe, Kept, Done, InStore, Taken, vars, rowVars, crashVars, threadVars
  <1>5. QED
    BY <1>3, <1>4

(* writer.py:86-153, main.py:97-150: the invariant the two results below    *)
(* rest on holds in every reachable state of the sink.                      *)
THEOREM Inductive == Spec => []IInv
  BY InitIInv, NextIInv, PTL DEF Spec

(* writer.py:86-153: whatever the three threads do, how often inserts fail  *)
(* and the process dies, a row that was added is in a buffer, in a batch,   *)
(* stored, or counted as shed, unless the break dropped its envelope or a   *)
(* start passed over it.                                                    *)
THEOREM NothingIsLost == Spec => []NoRowIsLost
  <1>1. IInv => NoRowIsLost
    BY DEF IInv
  <1>2. QED
    BY <1>1, Inductive, PTL

(* writer.py:171-173: what is left when the process ends is of a table of   *)
(* which a flush has failed for good, or in the ticker's last batch.        *)
THEOREM ClosingFlushes == Spec => []CloseFlushes
  <1>1. IInv => CloseFlushes
    <2> SUFFICES ASSUME IInv, loop = "closed", NEW r \in Rows, Kept(r)
                 PROVE  TableOf(r) \in requeued \/ Contains(batch["Ticker"], r)
      BY DEF CloseFlushes
    <2>1. at["Closer"] = "ended" /\ due["Closer"] = {} /\ at["Handler"] = "idle"
          /\ TableOf(r) \in Tables
      BY RowFacts DEF IInv, Stages
    <2>2. CASE Contains(buffer[TableOf(r)], r)
      <3>1. buffer[TableOf(r)] # <<>>
        BY <2>2, EmptyHasNothing
      <3>2. QED
        BY <3>1, <2>1 DEF IInv, ClosingEmpties
    <2>3. CASE \E t \in Threads : Contains(batch[t], r)
      <3>1. PICK t \in Threads : Contains(batch[t], r)
        BY <2>3
      <3>2. at[t] = "writing"
        BY <3>1, EmptyHasNothing DEF IInv, RowsOfOneTable
      <3>3. t = "Ticker"
        BY <3>2, <2>1 DEF Threads
      <3>4. QED
        BY <3>1, <3>3
    <2>4. QED
      BY <2>2, <2>3 DEF Kept
  <1>2. QED
    BY <1>1, Inductive, PTL

-----------------------------------------------------------------------------
(* How often a row is where: counting its places in a sequence ...          *)

LEMMA PlacesFinite ==
  ASSUME NEW S, NEW s \in Seq(S), NEW r
  PROVE  /\ IsFiniteSet(PlacesIn(r, s)) /\ Copies(r, s) \in Nat
         /\ ~Contains(s, r) => Copies(r, s) = 0
         /\ Contains(s, r) => Copies(r, s) >= 1
  <1>1. Len(s) \in Nat /\ DOMAIN s = 1..Len(s)
    BY LenProperties
  <1>2. IsFiniteSet(1..Len(s)) /\ PlacesIn(r, s) \in SUBSET (1..Len(s))
    BY <1>1, FS_Interval DEF PlacesIn
  <1>3. IsFiniteSet(PlacesIn(r, s))
    BY <1>2, FS_Subset
  <1>4. Copies(r, s) \in Nat /\ (Copies(r, s) = 0 <=> PlacesIn(r, s) = {})
    BY <1>3, FS_CardinalityType, FS_EmptySet DEF Copies
  <1>5. Contains(s, r) <=> PlacesIn(r, s) # {}
    BY <1>1 DEF PlacesIn, Contains
  <1>6. QED
    BY <1>3, <1>4, <1>5

LEMMA NoCopies == ASSUME NEW r PROVE Copies(r, <<>>) = 0
  <1>1. PlacesIn(r, <<>>) = {}
    BY DEF PlacesIn
  <1>2. QED
    BY <1>1, FS_EmptySet DEF Copies

LEMMA ConcatCopies ==
  ASSUME NEW S, NEW s \in Seq(S), NEW t \in Seq(S), NEW r
  PROVE  Copies(r, s \o t) = Copies(r, s) + Copies(r, t)
  <1> DEFINE n == Len(s)
  <1> DEFINE A == PlacesIn(r, s)
  <1> DEFINE B == PlacesIn(r, t)
  <1> DEFINE C == {n + i : i \in B}
  <1>1. /\ n \in Nat /\ Len(t) \in Nat /\ DOMAIN s = 1..n /\ DOMAIN t = 1..Len(t)
        /\ s \o t \in Seq(S) /\ Len(s \o t) = n + Len(t)
        /\ DOMAIN (s \o t) = 1..(n + Len(t))
    BY ConcatProperties, LenProperties
  <1>2. \A i \in 1..(n + Len(t)) : (s \o t)[i] = IF i <= n THEN s[i] ELSE t[i - n]
    BY ConcatProperties
  <1>3. A = {i \in 1..n : s[i] = r} /\ B = {i \in 1..Len(t) : t[i] = r}
    BY <1>1 DEF PlacesIn
  <1>4. PlacesIn(r, s \o t) = {i \in 1..(n + Len(t)) : (s \o t)[i] = r}
    BY <1>1 DEF PlacesIn
  <1>5. IsFiniteSet(A) /\ IsFiniteSet(B)
    BY PlacesFinite
  <1> HIDE DEF n, A, B
  <1>6. PlacesIn(r, s \o t) = A \cup C
    <2>1. ASSUME NEW i \in PlacesIn(r, s \o t) PROVE i \in A \cup C
      <3>1. i \in 1..(n + Len(t)) /\ (s \o t)[i] = r
        BY <2>1, <1>4
      <3>2. CASE i <= n
        BY <3>1, <3>2, <1>1, <1>2, <1>3
      <3>3. CASE ~(i <= n)
        <4>1. i - n \in 1..Len(t) /\ i = n + (i - n)
          BY <3>1, <3>3, <1>1
        <4>2. t[i - n] = r
          BY <3>1, <3>3, <1>2
        <4>3. i - n \in B
          BY <4>1, <4>2, <1>3
        <4>4. QED
          BY <4>1, <4>3
      <3>4. QED
        BY <3>2, <3>3
    <2>2. ASSUME NEW i \in A PROVE i \in PlacesIn(r, s \o t)
      <3>1. i \in 1..n /\ s[i] = r
        BY <1>3
      <3>2. i \in 1..(n + Len(t)) /\ i <= n
        BY <3>1, <1>1
      <3>3. QED
        BY <3>1, <3>2, <1>2, <1>4
    <2>3. ASSUME NEW i \in C PROVE i \in PlacesIn(r, s \o t)
      <3>1. PICK j \in B : i = n + j
        BY <2>3
      <3>2. j \in 1..Len(t) /\ t[j] = r
        BY <3>1, <1>3
      <3>3. i \in 1..(n + Len(t)) /\ ~(i <= n) /\ i - n = j
        BY <3>1, <3>2, <1>1
      <3>4. QED
        BY <3>2, <3>3, <1>2, <1>4
    <2>4. QED
      BY <2>1, <2>2, <2>3
  <1>7. A \cap C = {}
    BY <1>1, <1>3
  <1>8. IsFiniteSet(C) /\ Cardinality(C) = Cardinality(B)
    <2> DEFINE f == [i \in B |-> n + i]
    <2>1. \A i \in B : i \in Nat
      BY <1>3
    <2>2. f \in [B -> C] /\ \A i, j \in B : f[i] = f[j] => i = j
      BY <2>1, <1>1
    <2>3. \A c \in C : \E i \in B : f[i] = c
      OBVIOUS
    <2>4. f \in Bijection(B, C)
      BY <2>2, <2>3 DEF Bijection, Injection, Surjection, IsInjective
    <2>5. ExistsBijection(B, C)
      BY <2>4 DEF ExistsBijection
    <2>6. QED
      BY <2>5, <1>5, FS_Bijection
  <1> HIDE DEF C
  <1>9. Cardinality(A \cup C) = Cardinality(A) + Cardinality(C) - Cardinality({})
    BY <1>5, <1>7, <1>8, FS_Union
  <1>10. Cardinality(A) \in Nat /\ Cardinality(B) \in Nat /\ Cardinality({}) = 0
    BY <1>5, FS_CardinalityType, FS_EmptySet
  <1>11. Cardinality(A \cup C) = Cardinality(A) + Cardinality(B)
    BY <1>8, <1>9, <1>10
  <1>12. QED
    BY <1>6, <1>11 DEF Copies, A, B

LEMMA OneCopy == ASSUME NEW r, NEW e PROVE Copies(r, <<e>>) = IF e = r THEN 1 ELSE 0
  <1>1. PlacesIn(r, <<e>>) = IF e = r THEN {1} ELSE {}
    BY DEF PlacesIn
  <1>2. QED
    BY <1>1, FS_Singleton, FS_EmptySet DEF Copies

(* Cutting a sequence in two.                                               *)
LEMMA CutCopies ==
  ASSUME NEW S, NEW s \in Seq(S), NEW n \in 0..Len(s), NEW r
  PROVE  /\ Copies(r, SubSeq(s, 1, n)) \in Nat
         /\ Copies(r, SubSeq(s, n + 1, Len(s))) \in Nat
         /\ Copies(r, s) = Copies(r, SubSeq(s, 1, n)) + Copies(r, SubSeq(s, n + 1, Len(s)))
         /\ r \in ToSet(SubSeq(s, 1, n)) => Copies(r, SubSeq(s, 1, n)) >= 1
  <1> DEFINE front == SubSeq(s, 1, n)
  <1> DEFINE back == SubSeq(s, n + 1, Len(s))
  <1>1. Len(s) \in Nat /\ \A i \in 1..Len(s) : s[i] \in S
    BY LenProperties, ElementOfSeq
  <1>2. /\ back \in Seq(S) /\ Len(back) = Len(s) - n
        /\ \A i \in 1..(Len(s) - n) : back[i] = s[n + i]
    BY <1>1, SubSeqProperties
  <1>3. /\ front \in Seq(S) /\ Len(front) = n /\ DOMAIN front = 1..n
        /\ \A i \in 1..n : front[i] = s[i]
    BY <1>1, SubSeqProperties, LenProperties
  <1> HIDE DEF front, back
  <1>4. /\ front \o back \in Seq(S) /\ Len(front \o back) = Len(s)
        /\ \A i \in 1..Len(s) : (front \o back)[i] = IF i <= n THEN front[i] ELSE back[i - n]
    <2>1. /\ front \o back \in Seq(S) /\ Len(front \o back) = n + (Len(s) - n)
          /\ \A i \in 1..(n + (Len(s) - n)) :
               (front \o back)[i] = IF i <= n THEN front[i] ELSE back[i - n]
      BY <1>2, <1>3, ConcatProperties
    <2>2. n + (Len(s) - n) = Len(s)
      BY <1>1
    <2>3. QED
      BY <2>1, <2>2
  <1>5. \A i \in 1..Len(s) : (front \o back)[i] = s[i]
    <2> SUFFICES ASSUME NEW i \in 1..Len(s) PROVE (front \o back)[i] = s[i]
      OBVIOUS
    <2>1. CASE i <= n
      BY <2>1, <1>1, <1>3, <1>4
    <2>2. CASE ~(i <= n)
      <3>1. i - n \in 1..(Len(s) - n) /\ n + (i - n) = i
        BY <2>2, <1>1
      <3>2. QED
        BY <2>2, <3>1, <1>2, <1>4
    <2>3. QED
      BY <2>1, <2>2
  <1>6. s = front \o back
    BY <1>4, <1>5, SeqEqual
  <1>7. Copies(r, s) = Copies(r, front) + Copies(r, back)
    BY <1>2, <1>3, <1>6, ConcatCopies
  <1>8. r \in ToSet(front) => Contains(front, r)
    BY <1>3 DEF ToSet, Contains
  <1>9. QED
    BY <1>2, <1>3, <1>7, <1>8, PlacesFinite DEF front, back

(* ... and in the batches of a table.                                       *)
LEMMA AppendPlaces ==
  ASSUME NEW S, NEW parts \in Seq(Seq(S)), NEW rows \in Seq(S), NEW r,
         IsFiniteSet(PlacesOf(r, parts))
  PROVE  /\ IsFiniteSet(PlacesOf(r, Append(parts, rows)))
         /\ Cardinality(PlacesOf(r, Append(parts, rows)))
              = Cardinality(PlacesOf(r, parts)) + Copies(r, rows)
  <1> DEFINE n == Len(parts)
  <1> DEFINE more == Append(parts, rows)
  <1> DEFINE A == PlacesOf(r, parts)
  <1> DEFINE B == PlacesIn(r, rows)
  <1> DEFINE C == {n + 1} \X B
  <1>1. /\ more \in Seq(Seq(S)) /\ Len(more) = n + 1
        /\ \A i \in 1..n : more[i] = parts[i]
        /\ more[n + 1] = rows
    BY AppendProperties
  <1>2. n \in Nat /\ DOMAIN parts = 1..n /\ DOMAIN more = 1..(n + 1)
    BY <1>1, LenProperties
  <1>3. IsFiniteSet(B) /\ Cardinality(B) \in Nat /\ Copies(r, rows) = Cardinality(B)
    BY PlacesFinite DEF Copies
  <1> HIDE DEF n, more, B
  <1>4. PlacesOf(r, more) = A \cup C
    <2>1. \A k \in 1..n : {k} \X PlacesIn(r, more[k]) = {k} \X PlacesIn(r, parts[k])
      BY <1>1
    <2>2. {n + 1} \X PlacesIn(r, more[n + 1]) = C
      BY <1>1 DEF B
    <2>3. A = UNION {{k} \X PlacesIn(r, parts[k]) : k \in 1..n}
      BY <1>2 DEF PlacesOf
    <2>4. PlacesOf(r, more) = UNION {{k} \X PlacesIn(r, more[k]) : k \in 1..(n + 1)}
      BY <1>2 DEF PlacesOf
    <2>5. 1..(n + 1) = (1..n) \cup {n + 1}
      BY <1>2
    <2> HIDE DEF A, C
    <2>6. ASSUME NEW p \in PlacesOf(r, more) PROVE p \in A \cup C
      <3>1. PICK k \in 1..(n + 1) : p \in {k} \X PlacesIn(r, more[k])
        BY <2>4, <2>6
      <3>2. k \in 1..n \/ k = n + 1
        BY <2>5
      <3>3. CASE k \in 1..n
        BY <3>1, <3>3, <2>1, <2>3
      <3>4. CASE k = n + 1
        BY <3>1, <3>4, <2>2
      <3>5. QED
        BY <3>2, <3>3, <3>4
    <2>7. ASSUME NEW p \in A PROVE p \in PlacesOf(r, more)
      <3>1. PICK k \in 1..n : p \in {k} \X PlacesIn(r, parts[k])
        BY <2>3
      <3>2. k \in 1..(n + 1) /\ p \in {k} \X PlacesIn(r, more[k])
        BY <3>1, <2>1, <2>5
      <3>3. QED
        BY <3>2, <2>4
    <2>8. ASSUME NEW p \in C PROVE p \in PlacesOf(r, more)
      <3>1. n + 1 \in 1..(n + 1) /\ p \in {n + 1} \X PlacesIn(r, more[n + 1])
        BY <2>8, <2>2, <2>5
      <3>2. QED
        BY <3>1, <2>4
    <2>9. QED
      BY <2>6, <2>7, <2>8
  <1>5. A \cap C = {}
    <2>1. ASSUME NEW p \in A PROVE p \notin C
      <3>1. PICK k \in 1..n : p \in {k} \X PlacesIn(r, parts[k])
        BY <2>1, <1>2 DEF PlacesOf
      <3>2. p[1] = k
        BY <3>1
      <3>3. k # n + 1
        BY <1>2
      <3>4. QED
        BY <3>2, <3>3
    <2>2. QED
      BY <2>1
  <1>6. IsFiniteSet(C) /\ Cardinality(C) = Cardinality(B)
    <2>1. IsFiniteSet({n + 1}) /\ Cardinality({n + 1}) = 1
      BY FS_Singleton
    <2>2. IsFiniteSet(C) /\ Cardinality(C) = Cardinality({n + 1}) * Cardinality(B)
      BY <2>1, <1>3, FS_Product
    <2>3. QED
      BY <2>1, <2>2, <1>3
  <1> HIDE DEF A, C
  <1>7. /\ IsFiniteSet(A \cup C)
        /\ Cardinality(A \cup C) = Cardinality(A) + Cardinality(C) - Cardinality({})
    BY <1>5, <1>6, FS_Union DEF A
  <1>8. Cardinality(A) \in Nat /\ Cardinality({}) = 0
    BY FS_CardinalityType, FS_EmptySet DEF A
  <1>9. Cardinality(A \cup C) = Cardinality(A) + Cardinality(B)
    BY <1>3, <1>6, <1>7, <1>8
  <1>10. QED
    BY <1>3, <1>4, <1>7, <1>9 DEF A, more

-----------------------------------------------------------------------------
(* A row is in one place.  What is counted: a row in memory, in the table,  *)
(* and among those that were shed; a row that has not been added is         *)
(* nowhere, and before it is added once more the process has died.          *)

InBuffer(r) == Copies(r, buffer[TableOf(r)])
InBatches(r) == Copies(r, batch["Handler"]) + Copies(r, batch["Ticker"]) + Copies(r, batch["Closer"])
InMemory(r) == InBuffer(r) + InBatches(r)
InTable(r) == Cardinality(PlacesOf(r, stored[TableOf(r)]))
Shed(r) == IF r \in shed THEN 1 ELSE 0
(* The handler has had it.                                                  *)
Added(r) == r[1] < position \/ (r[1] = position /\ loop = "running" /\ r[2] < next)
Due(r) == crashes + (IF Added(r) THEN 1 ELSE 0)

Countable == \A r \in Rows : IsFiniteSet(PlacesOf(r, stored[TableOf(r)]))
OnceInMemory == \A r \in Rows : InMemory(r) <= IF Added(r) THEN 1 ELSE 0
OnceAltogether ==
  ~course.losesAck => \A r \in Rows : InMemory(r) + InTable(r) + Shed(r) <= Due(r)

Counted == Countable /\ OnceInMemory /\ OnceAltogether

LEMMA CountsAreNumbers ==
  ASSUME Types, Countable, NEW r \in Rows
  PROVE  /\ InBuffer(r) \in Nat /\ InTable(r) \in Nat /\ crashes \in Nat
         /\ \A t \in Threads : Copies(r, batch[t]) \in Nat
         /\ InBatches(r) \in Nat /\ InMemory(r) \in Nat
  <1>1. /\ buffer[TableOf(r)] \in Seq(Rows)
        /\ \A t \in Threads : batch[t] \in Seq(Rows)
        /\ crashes \in Nat
    BY RowFacts, CourseFacts DEF Types, TypeOK
  <1>2. InBuffer(r) \in Nat /\ \A t \in Threads : Copies(r, batch[t]) \in Nat
    BY <1>1, PlacesFinite DEF InBuffer
  <1>3. InTable(r) \in Nat
    BY FS_CardinalityType DEF Countable, InTable
  <1>4. InBatches(r) \in Nat
    BY <1>2 DEF InBatches, Threads
  <1>5. InMemory(r) \in Nat
    BY <1>2, <1>4 DEF InMemory
  <1>6. QED
    BY <1>1, <1>2, <1>3, <1>4, <1>5

(* The batch of one thread is replaced.                                     *)
LEMMA BatchReplaced ==
  ASSUME Types, Countable, NEW t \in Threads, NEW rows \in Seq(Rows), NEW r \in Rows,
         batch' = [batch EXCEPT ![t] = rows]
  PROVE  /\ InBatches(r)' \in Nat
         /\ InBatches(r)' + Copies(r, batch[t]) = InBatches(r) + Copies(r, rows)
  <1>1. /\ \A u \in Threads : Copies(r, batch[u]) \in Nat
        /\ Copies(r, rows) \in Nat
    BY CountsAreNumbers, PlacesFinite
  <1>2. /\ batch'[t] = rows
        /\ \A u \in Threads \ {t} : batch'[u] = batch[u]
    BY DEF Types, TypeOK
  <1>3. InBatches(r)' = Copies(r, batch'["Handler"]) + Copies(r, batch'["Ticker"])
                          + Copies(r, batch'["Closer"])
    BY DEF InBatches
  <1>4. CASE t = "Handler"
    BY <1>1, <1>2, <1>3, <1>4 DEF InBatches, Threads
  <1>5. CASE t = "Ticker"
    BY <1>1, <1>2, <1>3, <1>5 DEF InBatches, Threads
  <1>6. CASE t = "Closer"
    BY <1>1, <1>2, <1>3, <1>6 DEF InBatches, Threads
  <1>7. QED
    BY <1>4, <1>5, <1>6 DEF Threads

(* A step that moves rows within memory, or leaves them alone.              *)
LEMMA MovesCount ==
  ASSUME Types, Counted, UNCHANGED <<course, shed, crashes, stored>>,
         \A r \in Rows : Added(r) => Added(r)',
         \A r \in Rows : InMemory(r)' \in Nat /\ InMemory(r)' <= InMemory(r)
  PROVE  Counted'
  <1>1. Countable'
    BY DEF Counted, Countable
  <1>2. \A r \in Rows : /\ InMemory(r)' \in Nat /\ InMemory(r) \in Nat
                       /\ InTable(r) \in Nat /\ crashes \in Nat
    BY CountsAreNumbers DEF Counted
  <1>3. OnceInMemory'
    <2> SUFFICES ASSUME NEW r \in Rows
                 PROVE  InMemory(r)' <= IF Added(r)' THEN 1 ELSE 0
      BY DEF OnceInMemory
    <2>1. InMemory(r) <= IF Added(r) THEN 1 ELSE 0
      BY DEF Counted, OnceInMemory
    <2>2. QED
      BY <2>1, <1>2
  <1>4. OnceAltogether'
    <2> SUFFICES ASSUME ~course'.losesAck, NEW r \in Rows
                 PROVE  InMemory(r)' + InTable(r)' + Shed(r)' <= Due(r)'
      BY DEF OnceAltogether
    <2>1. InMemory(r) + InTable(r) + Shed(r) <= Due(r)
      BY DEF Counted, OnceAltogether
    <2>2. InTable(r)' = InTable(r) /\ Shed(r)' = Shed(r)
      BY DEF InTable, Shed
    <2>3. Shed(r) \in Nat
      BY DEF Shed
    <2>4. Due(r) <= Due(r)' /\ Due(r) \in Nat /\ Due(r)' \in Nat
      BY <1>2 DEF Due
    <2>5. QED
      BY <2>1, <2>2, <2>3, <2>4, <1>2
  <1>5. QED
    BY <1>1, <1>3, <1>4 DEF Counted

LEMMA RestsCount ==
  ASSUME Types, Counted, Rests, UNCHANGED <<course, crashes>>,
         \A r \in Rows : Added(r) => Added(r)'
  PROVE  Counted'
  <1>1. \A r \in Rows : InMemory(r)' = InMemory(r)
    BY DEF Rests, InMemory, InBuffer, InBatches
  <1>2. \A r \in Rows : InMemory(r) \in Nat
    BY CountsAreNumbers DEF Counted
  <1>3. QED
    BY <1>1, <1>2, MovesCount DEF Rests

(* A batch is stored: not in memory if it is then dropped, and at most once *)
(* more in the table.                                                       *)
LEMMA StoredCount ==
  ASSUME Types, Countable, NEW tb \in Tables, NEW rows \in Seq(Rows),
         stored' = [stored EXCEPT ![tb] = Append(@, rows)]
  PROVE  /\ Countable'
         /\ \A r \in Rows : InTable(r)' = InTable(r) + (IF TableOf(r) = tb THEN Copies(r, rows)
                                                         ELSE 0)
  <1>1. stored[tb] \in Seq(Seq(Rows)) /\ stored \in [Tables -> Seq(Seq(Rows))]
    BY DEF Types, TypeOK
  <1>2. ASSUME NEW r \in Rows
        PROVE  /\ IsFiniteSet(PlacesOf(r, stored'[TableOf(r)]))
               /\ Cardinality(PlacesOf(r, stored'[TableOf(r)]))
                    = InTable(r) + (IF TableOf(r) = tb THEN Copies(r, rows) ELSE 0)
    <2>1. TableOf(r) \in Tables
      BY RowFacts
    <2>2. IsFiniteSet(PlacesOf(r, stored[TableOf(r)])) /\ InTable(r) \in Nat
      BY CountsAreNumbers DEF Countable
    <2>3. CASE TableOf(r) = tb
      <3>1. stored'[TableOf(r)] = Append(stored[tb], rows)
        BY <2>3, <1>1
      <3>2. QED
        BY <2>2, <2>3, <3>1, <1>1, AppendPlaces DEF InTable
    <2>4. CASE TableOf(r) # tb
      <3>1. stored'[TableOf(r)] = stored[TableOf(r)]
        BY <2>1, <2>4, <1>1
      <3>2. QED
        BY <2>2, <2>4, <3>1 DEF InTable
    <2>5. QED
      BY <2>3, <2>4
  <1>3. QED
    BY <1>2 DEF Countable, InTable

LEMMA AddCounts ==
  ASSUME Types, RowsOfOneTable, Counted, Add
  PROVE  Counted'
  <1> DEFINE tb == Envelopes[position][next]
  <1> DEFINE new == <<position, next>>
  <1> DEFINE rows == Append(buffer[tb], new)
  <1> DEFINE excess == IF Len(rows) > MaxBuffer THEN Len(rows) - MaxBuffer ELSE 0
  <1> DEFINE front == SubSeq(rows, 1, excess)
  <1> DEFINE back == SubSeq(rows, excess + 1, Len(rows))
  <1>1. position \in 1..Len(Envelopes) /\ next \in 1..Len(Envelopes[position])
        /\ MaxBuffer \in Nat \ {0} /\ loop = "running" /\ next \in Nat /\ position \in Nat
    BY CourseFacts DEF Types, TypeOK, Stages, Add
  <1>2. new \in Rows /\ TableOf(new) = tb /\ tb \in Tables
    BY <1>1, RowIsThere, RowFacts
  <1>3. /\ buffer' = [buffer EXCEPT ![tb] = back] /\ shed' = shed \cup ToSet(front)
        /\ UNCHANGED <<batch, stored, course, crashes, position, loop>> /\ next' = next + 1
    BY DEF Add, crashVars
  <1>4. buffer \in [Tables -> Seq(Rows)] /\ buffer[tb] \in Seq(Rows)
    BY <1>2 DEF Types, TypeOK
  <1>5. \A r \in Rows : Added(r) => Added(r)'
    BY <1>1, <1>3, RowFacts DEF Added
  <1>6. \A r \in Rows : r = new => ~Added(r) /\ Added(r)'
    <2>1. \A r \in Rows : r = new => r[1] = position /\ r[2] = next
      OBVIOUS
    <2>2. QED
      BY <2>1, <1>1, <1>3 DEF Added
  <1> HIDE DEF tb, new
  <1>7. rows \in Seq(Rows) /\ Len(rows) \in Nat /\ rows = buffer[tb] \o <<new>>
    BY <1>2, <1>4, AppendHas, AppendIsConcat, LenProperties
  <1>8. excess \in 0..Len(rows)
    BY <1>1, <1>7
  <1>9. ASSUME NEW r
        PROVE  Copies(r, rows) = Copies(r, buffer[tb]) + (IF new = r THEN 1 ELSE 0)
    <2>1. <<new>> \in Seq(Rows)
      BY <1>2
    <2>2. Copies(r, buffer[tb] \o <<new>>) = Copies(r, buffer[tb]) + Copies(r, <<new>>)
      BY <2>1, <1>4, ConcatCopies
    <2>3. QED
      BY <2>2, <1>7, OneCopy
  <1> HIDE DEF rows, excess
  <1>10. \A r : /\ Copies(r, front) \in Nat /\ Copies(r, back) \in Nat
                /\ Copies(r, rows) = Copies(r, front) + Copies(r, back)
                /\ r \in ToSet(front) => Copies(r, front) >= 1
    BY <1>7, <1>8, CutCopies
  <1> HIDE DEF front, back
  <1>11. ASSUME NEW r \in Rows
         PROVE  /\ InMemory(r)' \in Nat
                /\ InMemory(r)' <= InMemory(r) + (IF new = r THEN 1 ELSE 0)
                /\ InMemory(r)' + Shed(r)' <= InMemory(r) + Shed(r) + (IF new = r THEN 1 ELSE 0)
    <2>1. InBatches(r)' = InBatches(r) /\ InBatches(r) \in Nat /\ InBuffer(r) \in Nat
          /\ TableOf(r) \in Tables
      BY <1>3, CountsAreNumbers, RowFacts DEF Counted, InBatches
    <2>2. CASE TableOf(r) = tb
      <3>1. InBuffer(r)' = Copies(r, back) /\ InBuffer(r) = Copies(r, buffer[tb])
        BY <2>2, <1>2, <1>3, <1>4 DEF InBuffer
      <3>2. Copies(r, front) + InBuffer(r)' = InBuffer(r) + (IF new = r THEN 1 ELSE 0)
        BY <3>1, <1>9, <1>10
      <3>3. Shed(r)' <= Shed(r) + Copies(r, front)
        BY <1>3, <1>10 DEF Shed
      <3>4. Copies(r, front) \in Nat /\ InBuffer(r)' \in Nat /\ Shed(r) \in Nat /\ Shed(r)' \in Nat
        BY <3>1, <1>10 DEF Shed
      <3> DEFINE extra == IF new = r THEN 1 ELSE 0
      <3>5. extra \in Nat
        OBVIOUS
      <3> HIDE DEF extra
      <3>6. InBuffer(r)' <= InBuffer(r) + extra
            /\ InBuffer(r)' + Shed(r)' <= InBuffer(r) + Shed(r) + extra
        BY <3>2, <3>3, <3>4, <3>5, <2>1 DEF extra
      <3>7. QED
        BY <3>4, <3>5, <3>6, <2>1 DEF InMemory, extra
    <2>3. CASE TableOf(r) # tb
      <3>1. InBuffer(r)' = InBuffer(r)
        BY <2>1, <2>3, <1>3, <1>4 DEF InBuffer
      <3>2. ~Contains(rows, r)
        <4>1. ~Contains(buffer[tb], r)
          BY <2>3, <1>2 DEF RowsOfOneTable
        <4>2. new # r
          BY <2>3, <1>2
        <4>3. QED
          BY <4>1, <4>2, <1>2, <1>4, AppendHas DEF rows
      <3>3. Copies(r, rows) = 0
        BY <3>2, <1>7, PlacesFinite
      <3>4. r \notin ToSet(front)
        BY <3>3, <1>10
      <3>5. Shed(r)' = Shed(r) /\ Shed(r) \in Nat
        BY <3>4, <1>3 DEF Shed
      <3>6. QED
        BY <3>1, <3>5, <2>1 DEF InMemory
    <2>4. QED
      BY <2>2, <2>3
  <1>12. Countable'
    BY <1>3 DEF Counted, Countable
  <1>13. ASSUME NEW r \in Rows
         PROVE  (IF Added(r) THEN 1 ELSE 0) + (IF new = r THEN 1 ELSE 0)
                  <= IF Added(r)' THEN 1 ELSE 0
    BY <1>5, <1>6
  <1>14. OnceInMemory'
    <2> SUFFICES ASSUME NEW r \in Rows PROVE InMemory(r)' <= IF Added(r)' THEN 1 ELSE 0
      BY DEF OnceInMemory
    <2>1. InMemory(r) <= (IF Added(r) THEN 1 ELSE 0) /\ InMemory(r) \in Nat
      BY CountsAreNumbers DEF Counted, OnceInMemory
    <2>2. QED
      BY <2>1, <1>11, <1>13
  <1>15. OnceAltogether'
    <2> SUFFICES ASSUME ~course'.losesAck, NEW r \in Rows
                 PROVE  InMemory(r)' + InTable(r)' + Shed(r)' <= Due(r)'
      BY DEF OnceAltogether
    <2>1. InMemory(r) + InTable(r) + Shed(r) <= Due(r)
      BY <1>3 DEF Counted, OnceAltogether
    <2>2. InTable(r)' = InTable(r) /\ InTable(r) \in Nat /\ InMemory(r) \in Nat /\ crashes \in Nat
      BY <1>3, CountsAreNumbers DEF Counted, InTable
    <2>3. Shed(r) \in Nat /\ Shed(r)' \in Nat
      BY DEF Shed
    <2>4. Due(r)' >= Due(r) + (IF new = r THEN 1 ELSE 0) /\ Due(r) \in Nat /\ Due(r)' \in Nat
      BY <2>2, <1>3, <1>13 DEF Due
    <2>5. QED
      BY <2>1, <2>2, <2>3, <2>4, <1>11
  <1>16. QED
    BY <1>12, <1>14, <1>15 DEF Counted

LEMMA TakeCounts ==
  ASSUME Types, RowsOfOneTable, Counted, NEW t \in Threads, TakeBatch(t)
  PROVE  Counted'
  <1> DEFINE tb == table[t]
  <1>1. /\ tb \in Tables /\ batch[t] = <<>> /\ buffer[tb] \in Seq(Rows)
        /\ batch' = [batch EXCEPT ![t] = buffer[tb]] /\ buffer' = [buffer EXCEPT ![tb] = <<>>]
        /\ UNCHANGED <<stored, shed, course, crashes, position, loop, next>>
    BY DEF TakeBatch, Types, TypeOK, RowsOfOneTable, rowVars, crashVars
  <1>2. buffer \in [Tables -> Seq(Rows)]
    BY DEF Types, TypeOK
  <1> HIDE DEF tb
  <1>3. ASSUME NEW r \in Rows PROVE InMemory(r)' = InMemory(r) /\ InMemory(r) \in Nat
    <2>1. /\ InBatches(r) \in Nat /\ InBuffer(r) \in Nat /\ InMemory(r) \in Nat
          /\ TableOf(r) \in Tables
      BY CountsAreNumbers, RowFacts DEF Counted
    <2>2. /\ InBatches(r)' \in Nat
          /\ InBatches(r)' + Copies(r, batch[t]) = InBatches(r) + Copies(r, buffer[tb])
      BY <1>1, BatchReplaced DEF Counted
    <2>3. InBatches(r)' = InBatches(r) + Copies(r, buffer[tb])
      BY <2>1, <2>2, <1>1, NoCopies
    <2>4. CASE TableOf(r) = tb
      <3>1. InBuffer(r)' = 0 /\ InBuffer(r) = Copies(r, buffer[tb])
        BY <2>4, <1>1, <1>2, NoCopies DEF InBuffer
      <3>2. QED
        BY <3>1, <2>1, <2>3 DEF InMemory
    <2>5. CASE TableOf(r) # tb
      <3>1. InBuffer(r)' = InBuffer(r)
        BY <2>1, <2>5, <1>1, <1>2 DEF InBuffer
      <3>2. Copies(r, buffer[tb]) = 0
        BY <2>5, <1>1, PlacesFinite DEF RowsOfOneTable
      <3>3. QED
        BY <3>1, <3>2, <2>1, <2>3 DEF InMemory
    <2>6. QED
      BY <2>4, <2>5
  <1>4. \A r \in Rows : Added(r) => Added(r)'
    BY <1>1 DEF Added
  <1>5. QED
    BY <1>1, <1>3, <1>4, MovesCount

(* The batch is stored and dropped.                                         *)
LEMMA InsertCounts ==
  ASSUME Types, RowsOfOneTable, Counted, NEW t \in Threads, Insert(t)
  PROVE  Counted'
  <1> DEFINE tb == table[t]
  <1>1. /\ tb \in Tables /\ batch[t] \in Seq(Rows) /\ <<>> \in Seq(Rows)
        /\ stored' = [stored EXCEPT ![tb] = Append(@, batch[t])]
        /\ batch' = [batch EXCEPT ![t] = <<>>]
        /\ UNCHANGED <<buffer, shed, course, crashes, position, loop, next>>
    BY DEF Insert, Types, TypeOK, crashVars
  <1>2. \A r \in Rows : Contains(batch[t], r) => TableOf(r) = tb
    BY DEF RowsOfOneTable
  <1> HIDE DEF tb
  <1>3. /\ Countable'
        /\ \A r \in Rows : InTable(r)' = InTable(r) + (IF TableOf(r) = tb THEN Copies(r, batch[t])
                                                        ELSE 0)
    BY <1>1, StoredCount DEF Counted
  <1>4. ASSUME NEW r \in Rows
        PROVE  /\ InMemory(r)' \in Nat /\ InMemory(r)' <= InMemory(r)
               /\ InTable(r)' \in Nat
               /\ InMemory(r)' + InTable(r)' = InMemory(r) + InTable(r)
    <2>1. /\ InBatches(r) \in Nat /\ InBuffer(r) \in Nat /\ InMemory(r) \in Nat
          /\ InTable(r) \in Nat /\ Copies(r, batch[t]) \in Nat
      BY CountsAreNumbers DEF Counted
    <2>2. /\ InBatches(r)' \in Nat
          /\ InBatches(r)' + Copies(r, batch[t]) = InBatches(r) + Copies(r, <<>>)
      BY <1>1, BatchReplaced DEF Counted
    <2>3. InBatches(r)' + Copies(r, batch[t]) = InBatches(r)
      BY <2>1, <2>2, NoCopies
    <2>4. InBuffer(r)' = InBuffer(r)
      BY <1>1 DEF InBuffer
    <2>5. InTable(r)' = InTable(r) + Copies(r, batch[t])
      <3>1. TableOf(r) # tb => Copies(r, batch[t]) = 0
        BY <1>1, <1>2, PlacesFinite
      <3>2. QED
        BY <3>1, <1>3, <2>1
    <2>6. QED
      BY <2>1, <2>2, <2>3, <2>4, <2>5 DEF InMemory
  <1>5. \A r \in Rows : /\ InMemory(r) \in Nat /\ InTable(r) \in Nat /\ Shed(r) \in Nat
                        /\ Due(r) \in Nat
                        /\ Shed(r)' = Shed(r) /\ Due(r)' = Due(r)
                        /\ (Added(r)' <=> Added(r))
    BY <1>1, CountsAreNumbers DEF Counted, Shed, Due, Added
  <1>6. OnceInMemory'
    <2> SUFFICES ASSUME NEW r \in Rows PROVE InMemory(r)' <= IF Added(r)' THEN 1 ELSE 0
      BY DEF OnceInMemory
    <2>1. InMemory(r) <= IF Added(r) THEN 1 ELSE 0
      BY DEF Counted, OnceInMemory
    <2>2. QED
      BY <2>1, <1>4, <1>5
  <1>7. OnceAltogether'
    <2> SUFFICES ASSUME ~course'.losesAck, NEW r \in Rows
                 PROVE  InMemory(r)' + InTable(r)' + Shed(r)' <= Due(r)'
      BY DEF OnceAltogether
    <2>1. InMemory(r) + InTable(r) + Shed(r) <= Due(r)
      BY <1>1 DEF Counted, OnceAltogether
    <2>2. QED
      BY <2>1, <1>4, <1>5
  <1>8. QED
    BY <1>3, <1>6, <1>7 DEF Counted

(* An insert raises: the rows stay in memory, and the table has them only   *)
(* if ClickHouse stored the batch and its answer was lost.                  *)
LEMMA RaisesCount ==
  ASSUME Types, Counted, NEW t \in Threads, InsertRaises(t),
         UNCHANGED <<course, shed, crashes>>,
         \A r \in Rows : Added(r) <=> Added(r)',
         \A r \in Rows : InMemory(r)' \in Nat /\ InMemory(r)' <= InMemory(r)
  PROVE  Counted'
  <1>1. CASE UNCHANGED stored
    BY <1>1, MovesCount
  <1>2. CASE course.losesAck /\ stored' = [stored EXCEPT ![table[t]] = Append(@, batch[t])]
    <2>1. table[t] \in Tables /\ batch[t] \in Seq(Rows)
      BY DEF Types, TypeOK
    <2>2. Countable'
      BY <2>1, <1>2, StoredCount DEF Counted
    <2>3. OnceInMemory'
      <3> SUFFICES ASSUME NEW r \in Rows PROVE InMemory(r)' <= IF Added(r)' THEN 1 ELSE 0
        BY DEF OnceInMemory
      <3>1. InMemory(r) <= (IF Added(r) THEN 1 ELSE 0) /\ InMemory(r) \in Nat
        BY CountsAreNumbers DEF Counted, OnceInMemory
      <3>2. QED
        BY <3>1
    <2>4. QED
      BY <1>2, <2>2, <2>3 DEF Counted, OnceAltogether
  <1>3. QED
    BY <1>1, <1>2 DEF InsertRaises

LEMMA FailureCounts ==
  ASSUME Types, RowsOfOneTable, Counted, NEW t \in Threads, Retry(t) \/ Requeue(t)
  PROVE  Counted'
  <1> DEFINE tb == table[t]
  <1>1. /\ tb \in Tables /\ batch[t] \in Seq(Rows) /\ <<>> \in Seq(Rows)
        /\ buffer[tb] \in Seq(Rows) /\ buffer \in [Tables -> Seq(Rows)]
        /\ InsertRaises(t)
        /\ UNCHANGED <<shed, course, crashes, position, loop, next>>
    BY DEF Retry, Requeue, Types, TypeOK, crashVars
  <1>2. \A r \in Rows : Contains(batch[t], r) => TableOf(r) = tb
    BY DEF RowsOfOneTable
  <1>3. \A r \in Rows : Added(r) <=> Added(r)'
    BY <1>1 DEF Added
  <1>4. CASE Retry(t)
    <2>1. \A r \in Rows : InMemory(r)' = InMemory(r) /\ InMemory(r) \in Nat
      BY <1>4, CountsAreNumbers DEF Retry, Counted, InMemory, InBuffer, InBatches
    <2>2. QED
      BY <2>1, <1>1, <1>3, RaisesCount
  <1>5. CASE Requeue(t)
    <2>1. /\ buffer' = [buffer EXCEPT ![tb] = batch[t] \o buffer[tb]]
          /\ batch' = [batch EXCEPT ![t] = <<>>]
      BY <1>5 DEF Requeue
    <2> HIDE DEF tb
    <2>2. ASSUME NEW r \in Rows PROVE InMemory(r)' = InMemory(r) /\ InMemory(r) \in Nat
      <3>1. /\ InBatches(r) \in Nat /\ InBuffer(r) \in Nat /\ InMemory(r) \in Nat
            /\ Copies(r, batch[t]) \in Nat /\ TableOf(r) \in Tables
        BY CountsAreNumbers, RowFacts DEF Counted
      <3>2. /\ InBatches(r)' \in Nat
            /\ InBatches(r)' + Copies(r, batch[t]) = InBatches(r) + Copies(r, <<>>)
        BY <1>1, <2>1, BatchReplaced DEF Counted
      <3>3. InBatches(r)' + Copies(r, batch[t]) = InBatches(r)
        BY <3>1, <3>2, NoCopies
      <3>4. CASE TableOf(r) = tb
        <4>1. InBuffer(r)' = Copies(r, batch[t] \o buffer[tb]) /\ InBuffer(r) = Copies(r, buffer[tb])
          BY <3>4, <1>1, <2>1 DEF InBuffer
        <4>2. InBuffer(r)' = Copies(r, batch[t]) + InBuffer(r)
          BY <4>1, <1>1, ConcatCopies
        <4>3. QED
          BY <4>2, <3>1, <3>2, <3>3 DEF InMemory
      <3>5. CASE TableOf(r) # tb
        <4>1. InBuffer(r)' = InBuffer(r)
          BY <3>1, <3>5, <1>1, <2>1 DEF InBuffer
        <4>2. Copies(r, batch[t]) = 0
          BY <3>5, <1>1, <1>2, PlacesFinite
        <4>3. QED
          BY <4>1, <4>2, <3>1, <3>2, <3>3 DEF InMemory
      <3>6. QED
        BY <3>4, <3>5
    <2>3. QED
      BY <2>2, <1>1, <1>3, RaisesCount
  <1>6. QED
    BY <1>4, <1>5

(* What was in memory is gone; what comes again comes once more.            *)
LEMMA CrashCounts ==
  ASSUME Types, Counted, Crash
  PROVE  Counted'
  <1>1. /\ crashes' = crashes + 1 /\ buffer' = [tb \in Tables |-> <<>>]
        /\ batch' = [t \in Threads |-> <<>>] /\ UNCHANGED <<course, stored, shed>>
    BY DEF Crash
  <1>2. Countable'
    BY <1>1 DEF Counted, Countable
  <1>3. ASSUME NEW r \in Rows PROVE InMemory(r)' = 0
    <2>1. InBuffer(r)' = 0
      BY <1>1, RowFacts, NoCopies DEF InBuffer
    <2>2. InBatches(r)' = 0
      BY <1>1, NoCopies DEF InBatches, Threads
    <2>3. QED
      BY <2>1, <2>2 DEF InMemory
  <1>4. OnceInMemory'
    BY <1>3 DEF OnceInMemory
  <1>5. OnceAltogether'
    <2> SUFFICES ASSUME ~course'.losesAck, NEW r \in Rows
                 PROVE  InMemory(r)' + InTable(r)' + Shed(r)' <= Due(r)'
      BY DEF OnceAltogether
    <2>1. InMemory(r) + InTable(r) + Shed(r) <= Due(r)
      BY <1>1 DEF Counted, OnceAltogether
    <2>2. InMemory(r) \in Nat /\ InTable(r) \in Nat /\ crashes \in Nat /\ Shed(r) \in Nat
      BY CountsAreNumbers DEF Counted, Shed
    <2>3. InTable(r)' = InTable(r) /\ Shed(r)' = Shed(r)
      BY <1>1 DEF InTable, Shed
    <2>4. Due(r)' >= Due(r) /\ Due(r)' \in Nat /\ Due(r) \in Nat
      BY <2>2, <1>1 DEF Due
    <2>5. QED
      BY <2>1, <2>2, <2>3, <2>4, <1>3
  <1>6. QED
    BY <1>2, <1>4, <1>5 DEF Counted

(* The coroutine and the threads between two moves of rows.                 *)
LEMMA CalmCounts ==
  ASSUME Types, Counted, NEW t \in Threads,
         Consume \/ Break \/ Signal \/ Handled \/ Tick \/ Flushing(t)
  PROVE  Counted'
  <1>1. Rests /\ UNCHANGED <<course, crashes>>
    <2>1. CASE Consume \/ Break
      BY <2>1 DEF Consume, Break, Rests, rowVars, crashVars
    <2>2. CASE Signal \/ Handled \/ Tick
      BY <2>2 DEF Signal, Handled, Tick, Rests, rowVars, crashVars, threadVars
    <2>3. CASE Flushing(t)
      BY <2>3 DEF Flushing, Visit, Through, ShouldFlush, NotYet, NothingLeft, Rests, rowVars,
                  crashVars
    <2>4. QED
      BY <2>1, <2>2, <2>3
  <1>2. position \in Nat /\ \A r \in Rows : r[1] \in Nat /\ r[2] \in Nat
    <2>1. position \in Nat
      BY CourseFacts DEF Types, TypeOK
    <2>2. ASSUME NEW r \in Rows PROVE r[1] \in Nat /\ r[2] \in Nat
      <3>1. r[1] \in 1..Len(Envelopes) /\ r[2] \in 1..Len(Envelopes[r[1]])
        BY RowFacts
      <3>2. QED
        BY <3>1
    <2>3. QED
      BY <2>1, <2>2
  <1>3. \A r \in Rows : Added(r) => Added(r)'
    <2>1. CASE Consume \/ Break
      <3>1. position' = position + 1
        BY <2>1 DEF Consume, Break
      <3>2. QED
        BY <3>1, <1>2 DEF Added
    <2>2. CASE Signal \/ Handled \/ Tick
      BY <2>2 DEF Signal, Handled, Tick, Added, threadVars
    <2>3. CASE Flushing(t)
      <3>1. UNCHANGED <<position, next>> /\ (loop = "running" => loop' = "running")
        BY <2>3 DEF Flushing, Visit, Through, ShouldFlush, NotYet, NothingLeft, Types, Stages
      <3>2. QED
        BY <3>1 DEF Added
    <2>4. QED
      BY <2>1, <2>2, <2>3
  <1>4. QED
    BY <1>1, <1>3, RestsCount

LEMMA InitCounted == Init => Counted
  <1> SUFFICES ASSUME Init PROVE Counted
    OBVIOUS
  <1>1. \A r : PlacesOf(r, <<>>) = {}
    BY DEF PlacesOf
  <1>2. Countable
    BY <1>1, RowFacts, FS_EmptySet DEF Init, Countable
  <1>3. ASSUME NEW r \in Rows PROVE InMemory(r) = 0 /\ InTable(r) = 0 /\ Shed(r) = 0
    <2>1. InBuffer(r) = 0 /\ InBatches(r) = 0
      BY RowFacts, NoCopies DEF Init, InBuffer, InBatches, Threads
    <2>2. InTable(r) = 0
      BY <1>1, RowFacts, FS_EmptySet DEF Init, InTable
    <2>3. QED
      BY <2>1, <2>2 DEF Init, InMemory, Shed
  <1>4. crashes = 0
    BY DEF Init
  <1>5. QED
    BY <1>2, <1>3, <1>4 DEF Counted, OnceInMemory, OnceAltogether, Due

LEMMA NextCounted ==
  ASSUME Types, RowsOfOneTable, Counted, [Next]_vars
  PROVE  Counted'
  <1>1. PICK some \in Threads : TRUE
    BY DEF Threads
  <1>2. CASE Consume \/ Break \/ Signal \/ Tick
    BY <1>1, <1>2, CalmCounts
  <1>3. CASE Crash
    BY <1>3, CrashCounts
  <1>4. CASE Handle
    BY <1>1, <1>4, AddCounts, CalmCounts DEF Handle
  <1>5. ASSUME NEW t \in Threads, Flush(t) \/ Write(t) PROVE Counted'
    <2>1. CASE Flushing(t)
      BY <2>1, CalmCounts
    <2>2. CASE TakeBatch(t)
      BY <2>2, TakeCounts
    <2>3. CASE Write(t)
      BY <2>3, InsertCounts, FailureCounts DEF Write
    <2>4. QED
      BY <1>5, <2>1, <2>2, <2>3 DEF Flush, Flushing
  <1>6. CASE UNCHANGED vars
    <2>1. Rests /\ UNCHANGED <<course, crashes, position, loop, next>>
      BY <1>6 DEF vars, rowVars, crashVars, threadVars, Rests
    <2>2. \A r \in Rows : Added(r) => Added(r)'
      BY <2>1 DEF Added
    <2>3. QED
      BY <2>1, <2>2, RestsCount
  <1>7. QED
    BY <1>2, <1>3, <1>4, <1>5, <1>6 DEF Next

(* writer.py:86-153 and main.py:97: a row is lost by no interleaving of the *)
(* three threads, and is in one place at a time; it is stored more often    *)
(* than the process has been started only if ClickHouse stored a batch and  *)
(* its answer was lost.                                                     *)
THEOREM EveryRowIsAccountedFor == Spec => []RowsAreAccountedFor
  <1>1. Init => IInv /\ Counted
    BY InitIInv, InitCounted
  <1>2. IInv /\ Counted /\ [Next]_vars => (IInv /\ Counted)'
    <2> SUFFICES ASSUME IInv, Counted, [Next]_vars PROVE IInv' /\ Counted'
      OBVIOUS
    <2>1. QED
      BY NextIInv, NextCounted DEF IInv, Types
  <1>3. IInv /\ Counted => RowsAreAccountedFor
    <2> SUFFICES ASSUME IInv, Counted PROVE RowInOnePlace
      BY DEF RowsAreAccountedFor, IInv
    <2>1. ASSUME NEW r \in Rows
          PROVE  /\ InMemory(r) <= 1
                 /\ ~course.losesAck => InMemory(r) + InTable(r) + Shed(r) <= 1 + crashes
      <3>1. /\ InMemory(r) \in Nat /\ InTable(r) \in Nat /\ crashes \in Nat /\ Shed(r) \in Nat
        BY CountsAreNumbers DEF IInv, Types, Counted, Shed
      <3>2. Due(r) <= 1 + crashes /\ Due(r) \in Nat
        BY <3>1 DEF Due
      <3>3. InMemory(r) <= 1
        BY <3>1 DEF Counted, OnceInMemory
      <3>4. ~course.losesAck => InMemory(r) + InTable(r) + Shed(r) <= Due(r)
        BY DEF Counted, OnceAltogether
      <3>5. QED
        BY <3>1, <3>2, <3>3, <3>4
    <2>2. \A r \in Rows :
            InMemory(r) = Copies(r, buffer[TableOf(r)]) + Copies(r, batch["Handler"])
                            + Copies(r, batch["Ticker"]) + Copies(r, batch["Closer"])
      <3> SUFFICES ASSUME NEW r \in Rows
                   PROVE InMemory(r) = Copies(r, buffer[TableOf(r)]) + Copies(r, batch["Handler"])
                            + Copies(r, batch["Ticker"]) + Copies(r, batch["Closer"])
        OBVIOUS
      <3>1. InBuffer(r) \in Nat /\ \A t \in Threads : Copies(r, batch[t]) \in Nat
        BY CountsAreNumbers DEF IInv, Types, Counted
      <3>2. QED
        BY <3>1 DEF InMemory, InBuffer, InBatches, Threads
    <2>3. QED
      BY <2>1, <2>2 DEF RowInOnePlace, InTable, Shed
  <1>4. QED
    BY <1>1, <1>2, <1>3, PTL DEF Spec

-----------------------------------------------------------------------------
(* The inductive invariant.                                                 *)

(* A table holds rows of its own.                                           *)
StoredWhereDue == \A tb \in Tables : \A p \in Places(tb) : TableOf(Stored(tb, p)) = tb

(* What a merge has replaced has an heir with the same sort key.            *)
HasHeir(p) == \E q \in Summaries : SortKey(SummaryAt(q)) = SortKey(SummaryAt(p))
GoneHasHeir == \A p \in gone : p \in Places(SUMMARY_TABLE) /\ HasHeir(p)

(* Nothing has been inserted twice, and no summary has been written again.  *)
AtMostOnce == InsertedOnce /\ ~Rewritten
NothingReplaced == AtMostOnce => gone = {}

Kinds == StoredWhereDue /\ GoneHasHeir /\ NothingReplaced
AnalyticsInv == IInv /\ Counted /\ Kinds

-----------------------------------------------------------------------------
(* Places.                                                                  *)

LEMMA SummaryTable == SIGNAL_TABLE \in Tables /\ SUMMARY_TABLE \in Tables
  BY AnalyticsAssumption

LEMMA PlaceFacts ==
  ASSUME TypeOK, NEW tb \in Tables, NEW p \in Places(tb)
  PROVE  /\ p = <<p[1], p[2]>> /\ p[1] \in 1..Len(stored[tb]) /\ p[1] \in Nat
         /\ p[2] \in 1..Len(stored[tb][p[1]]) /\ p[2] \in Nat
         /\ Stored(tb, p) \in Rows
  <1>1. stored[tb] \in Seq(Seq(Rows))
    BY DEF TypeOK
  <1>2. DOMAIN stored[tb] = 1..Len(stored[tb]) /\ Len(stored[tb]) \in Nat
    BY <1>1, LenProperties
  <1>3. PICK k \in DOMAIN stored[tb] : p \in {k} \X DOMAIN stored[tb][k]
    BY DEF Places
  <1>4. p = <<p[1], p[2]>> /\ p[1] = k /\ p[2] \in DOMAIN stored[tb][k]
    BY <1>3
  <1>5. stored[tb][k] \in Seq(Rows)
    BY <1>1, <1>2, <1>3, ElementOfSeq
  <1>6. DOMAIN stored[tb][k] = 1..Len(stored[tb][k]) /\ Len(stored[tb][k]) \in Nat
    BY <1>5, LenProperties
  <1>7. stored[tb][k][p[2]] \in Rows
    BY <1>4, <1>5, <1>6, ElementOfSeq
  <1>8. QED
    BY <1>2, <1>3, <1>4, <1>6, <1>7 DEF Stored

LEMMA IsPlace ==
  ASSUME TypeOK, NEW tb \in Tables, NEW k \in 1..Len(stored[tb]),
         NEW n \in 1..Len(stored[tb][k])
  PROVE  <<k, n>> \in Places(tb)
  <1>1. stored[tb] \in Seq(Seq(Rows))
    BY DEF TypeOK
  <1>2. DOMAIN stored[tb] = 1..Len(stored[tb])
    BY <1>1, LenProperties
  <1>3. stored[tb][k] \in Seq(Rows)
    BY <1>1, ElementOfSeq
  <1>4. DOMAIN stored[tb][k] = 1..Len(stored[tb][k])
    BY <1>3, LenProperties
  <1>5. <<k, n>> \in {k} \X DOMAIN stored[tb][k]
    BY <1>4
  <1>6. QED
    BY <1>2, <1>5 DEF Places

LEMMA InStoreHasPlace ==
  ASSUME TypeOK, NEW r \in Rows
  PROVE  InStore(r) <=> \E p \in Places(TableOf(r)) : Stored(TableOf(r), p) = r
  <1> DEFINE tb == TableOf(r)
  <1>1. tb \in Tables /\ stored[tb] \in Seq(Seq(Rows))
    BY RowFacts DEF TypeOK
  <1>2. DOMAIN stored[tb] = 1..Len(stored[tb])
    BY <1>1, LenProperties
  <1>3. InStore(r) <=> \E k \in 1..Len(stored[tb]) : Contains(stored[tb][k], r)
    BY <1>2 DEF InStore
  <1> HIDE DEF tb
  <1>4. ASSUME NEW k \in 1..Len(stored[tb]), Contains(stored[tb][k], r)
        PROVE  \E p \in Places(tb) : Stored(tb, p) = r
    <2>1. PICK n \in 1..Len(stored[tb][k]) : stored[tb][k][n] = r
      BY <1>4 DEF Contains
    <2>2. <<k, n>> \in Places(tb)
      BY <1>1, IsPlace
    <2>3. Stored(tb, <<k, n>>) = r
      BY <2>1 DEF Stored
    <2>4. QED
      BY <2>2, <2>3
  <1>5. ASSUME NEW p \in Places(tb), Stored(tb, p) = r
        PROVE  \E k \in 1..Len(stored[tb]) : Contains(stored[tb][k], r)
    <2>1. p[1] \in 1..Len(stored[tb]) /\ p[2] \in 1..Len(stored[tb][p[1]])
      BY <1>1, PlaceFacts
    <2>2. Contains(stored[tb][p[1]], r)
      BY <2>1, <1>5 DEF Stored, Contains
    <2>3. QED
      BY <2>1, <2>2
  <1>6. QED
    BY <1>3, <1>4, <1>5 DEF tb

(* Tables only grow, by a batch of their own rows.                          *)
LEMMA StoredGrows ==
  ASSUME IInv, [Next]_vars
  PROVE  \/ UNCHANGED stored
         \/ \E tb \in Tables, rows \in Seq(Rows) :
              /\ stored' = [stored EXCEPT ![tb] = Append(@, rows)]
              /\ \A r \in Rows : Contains(rows, r) => TableOf(r) = tb
  <1>1. ASSUME NEW t \in Threads, stored' = [stored EXCEPT ![table[t]] = Append(@, batch[t])]
        PROVE  \E tb \in Tables, rows \in Seq(Rows) :
                 /\ stored' = [stored EXCEPT ![tb] = Append(@, rows)]
                 /\ \A r \in Rows : Contains(rows, r) => TableOf(r) = tb
    <2>1. table[t] \in Tables /\ batch[t] \in Seq(Rows)
      BY DEF IInv, TypeOK
    <2>2. \A r \in Rows : Contains(batch[t], r) => TableOf(r) = table[t]
      BY DEF IInv, RowsOfOneTable
    <2>3. QED
      BY <1>1, <2>1, <2>2
  <1>2. ASSUME NEW t \in Threads, Write(t)
        PROVE  UNCHANGED stored \/ stored' = [stored EXCEPT ![table[t]] = Append(@, batch[t])]
    BY <1>2 DEF Write, Insert, Retry, Requeue, InsertRaises
  <1>3. ASSUME NEW t \in Threads, Flush(t) PROVE UNCHANGED stored
    BY <1>3 DEF Flush, Visit, Through, ShouldFlush, NotYet, TakeBatch, NothingLeft, rowVars
  <1>4. Consume \/ Break \/ Signal \/ Crash \/ Handle \/ Tick => UNCHANGED stored
    BY DEF Consume, Break, Signal, Crash, Handle, Add, Handled, Tick, rowVars
  <1>5. UNCHANGED vars => UNCHANGED stored
    BY DEF vars, rowVars
  <1>6. QED
    BY <1>1, <1>2, <1>3, <1>4, <1>5 DEF Next

LEMMA PlacesStay ==
  ASSUME IInv, TypeOK', [Next]_vars, NEW tb \in Tables
  PROVE  /\ \A p \in Places(tb) : p \in Places(tb)' /\ Stored(tb, p)' = Stored(tb, p)
         /\ \A p \in Places(tb)' :
              p \in Places(tb) \/ TableOf(Stored(tb, p)') = tb
  <1>1. CASE UNCHANGED stored
    BY <1>1 DEF Places, Stored
  <1>2. CASE \E u \in Tables, rows \in Seq(Rows) :
               /\ stored' = [stored EXCEPT ![u] = Append(@, rows)]
               /\ \A r \in Rows : Contains(rows, r) => TableOf(r) = u
    <2>1. PICK u \in Tables, rows \in Seq(Rows) :
               /\ stored' = [stored EXCEPT ![u] = Append(@, rows)]
               /\ \A r \in Rows : Contains(rows, r) => TableOf(r) = u
      BY <1>2
    <2>2. stored \in [Tables -> Seq(Seq(Rows))]
      BY DEF IInv, TypeOK
    <2>3. CASE u # tb
      <3>1. stored'[tb] = stored[tb]
        BY <2>1, <2>2, <2>3
      <3>2. QED
        BY <3>1 DEF Places, Stored
    <2>4. CASE u = tb
      <3>1. stored'[tb] = Append(stored[tb], rows) /\ stored[tb] \in Seq(Seq(Rows))
        BY <2>1, <2>2, <2>4
      <3>2. /\ Len(stored[tb]) \in Nat /\ DOMAIN stored[tb] = 1..Len(stored[tb])
            /\ stored'[tb] \in Seq(Seq(Rows))
            /\ Len(stored'[tb]) = Len(stored[tb]) + 1
            /\ \A k \in 1..Len(stored[tb]) : stored'[tb][k] = stored[tb][k]
            /\ stored'[tb][Len(stored[tb]) + 1] = rows
        BY <3>1, AppendProperties, LenProperties
      <3>3. DOMAIN stored'[tb] = 1..(Len(stored[tb]) + 1)
        BY <3>2, LenProperties
      <3>4. ASSUME NEW p \in Places(tb)
            PROVE  p \in Places(tb)' /\ Stored(tb, p)' = Stored(tb, p)
        <4>1. p[1] \in 1..Len(stored[tb]) /\ p[2] \in 1..Len(stored[tb][p[1]]) /\ p = <<p[1], p[2]>>
          BY PlaceFacts DEF IInv
        <4>2. stored'[tb][p[1]] = stored[tb][p[1]] /\ p[1] \in DOMAIN stored'[tb]
          BY <4>1, <3>2, <3>3
        <4>3. DOMAIN stored[tb][p[1]] = 1..Len(stored[tb][p[1]])
          BY <3>1, <4>1, ElementOfSeq, LenProperties
        <4>4. p \in {p[1]} \X DOMAIN stored'[tb][p[1]]
          BY <4>1, <4>2, <4>3
        <4>5. QED
          BY <4>2, <4>4 DEF Places, Stored
      <3>5. ASSUME NEW p \in Places(tb)'
            PROVE  p \in Places(tb) \/ TableOf(Stored(tb, p)') = tb
        <4>1. PICK k \in DOMAIN stored'[tb] : p \in {k} \X DOMAIN stored'[tb][k]
          BY DEF Places
        <4>2. p = <<k, p[2]>> /\ p[1] = k /\ p[2] \in DOMAIN stored'[tb][k]
          BY <4>1
        <4>3. CASE k \in 1..Len(stored[tb])
          <5>1. p \in {k} \X DOMAIN stored[tb][k] /\ k \in DOMAIN stored[tb]
            BY <4>1, <4>3, <3>2
          <5>2. QED
            BY <5>1 DEF Places
        <4>4. CASE k = Len(stored[tb]) + 1
          <5>1. Stored(tb, p)' = rows[p[2]] /\ p[2] \in DOMAIN rows
            BY <4>2, <4>4, <3>2 DEF Stored
          <5>2. rows[p[2]] \in Rows /\ Contains(rows, rows[p[2]])
            BY <5>1, LenProperties, ElementOfSeq DEF Contains
          <5>3. QED
            BY <5>1, <5>2, <2>1, <2>4
        <4>5. QED
          BY <4>1, <4>3, <4>4, <3>2, <3>3
      <3>6. QED
        BY <3>4, <3>5
    <2>5. QED
      BY <2>3, <2>4
  <1>3. QED
    BY <1>1, <1>2, StoredGrows

LEMMA RowsStay ==
  ASSUME IInv, TypeOK', [Next]_vars, NEW tb \in Tables, NEW p \in Places(tb)
  PROVE  p \in Places(tb)' /\ RowAt(tb, p)' = RowAt(tb, p)
  <1>1. p \in Places(tb)' /\ Stored(tb, p)' = Stored(tb, p)
    BY PlacesStay
  <1>2. QED
    BY <1>1 DEF RowAt, Stored

-----------------------------------------------------------------------------
(* At most one row for a call, as long as nothing is inserted twice.        *)

LEMMA NoTwo ==
  ASSUME NEW S, IsFiniteSet(S), Cardinality(S) <= 1, NEW p \in S, NEW q \in S
  PROVE  p = q
  <1> SUFFICES ASSUME p # q PROVE FALSE
    OBVIOUS
  <1>1. {p} \union {q} \subseteq S
    OBVIOUS
  <1>2. /\ IsFiniteSet({p}) /\ Cardinality({p}) = 1
        /\ IsFiniteSet({q}) /\ Cardinality({q}) = 1
    BY FS_Singleton
  <1>3. {p} \cap {q} = {} /\ Cardinality({}) = 0
    BY FS_EmptySet
  <1>4. Cardinality({p} \union {q}) = 2
    <2>1. Cardinality({p} \union {q}) = Cardinality({p}) + Cardinality({q}) - Cardinality({p} \cap {q})
      BY <1>2, FS_Union
    <2>2. QED
      BY <2>1, <1>2, <1>3
  <1>5. Cardinality({p} \union {q}) <= Cardinality(S) /\ Cardinality(S) \in Nat
    BY <1>1, FS_Subset, FS_CardinalityType
  <1>6. QED
    BY <1>4, <1>5

(* A row the sink has inserted is in one place, and from an envelope that   *)
(* was taken, as long as it inserts nothing twice.                          *)
LEMMA OnePlaceEach ==
  ASSUME IInv, Counted, StoredWhereDue, InsertedOnce, NEW tb \in Tables,
         NEW p \in Places(tb)
  PROVE  /\ Stored(tb, p) \in Rows /\ TableOf(Stored(tb, p)) = tb
         /\ Stored(tb, p)[1] \in 1..position
         /\ \A q \in Places(tb) : Stored(tb, q) = Stored(tb, p) => q = p
  <1> DEFINE row == Stored(tb, p)
             copies == PlacesOf(row, stored[tb])
  <1>1. TypeOK /\ row \in Rows /\ TableOf(row) = tb
    BY PlaceFacts DEF IInv, StoredWhereDue
  <1>2. \A x \in Places(tb) : Stored(tb, x) = row => x \in copies
    <2> SUFFICES ASSUME NEW x \in Places(tb), Stored(tb, x) = row PROVE x \in copies
      OBVIOUS
    <2>1. PICK k \in DOMAIN stored[tb] : x \in {k} \X DOMAIN stored[tb][k]
      BY DEF Places
    <2>2. x = <<k, x[2]>> /\ x[1] = k /\ x[2] \in DOMAIN stored[tb][k]
      BY <2>1
    <2> HIDE DEF row
    <2>3. x[2] \in PlacesIn(row, stored[tb][k])
      BY <2>2 DEF PlacesIn, Stored
    <2>4. x \in {k} \X PlacesIn(row, stored[tb][k])
      BY <2>2, <2>3
    <2>5. QED
      BY <2>1, <2>4 DEF PlacesOf
  <1> HIDE DEF row
  <1>3. p \in copies
    BY <1>2 DEF row
  <1>4. IsFiniteSet(copies) /\ InTable(row) = Cardinality(copies)
    BY <1>1 DEF Counted, Countable, InTable
  <1>5. InMemory(row) + InTable(row) + Shed(row) <= IF Added(row) THEN 1 ELSE 0
    BY <1>1 DEF Counted, OnceAltogether, Due, InsertedOnce
  <1>6. InMemory(row) \in Nat /\ InTable(row) \in Nat /\ Shed(row) \in Nat
    BY <1>1, CountsAreNumbers DEF IInv, Types, Counted, Shed
  <1>7. Cardinality(copies) <= IF Added(row) THEN 1 ELSE 0
    BY <1>4, <1>5, <1>6
  <1>8. Cardinality(copies) \in Nat /\ Cardinality(copies) # 0
    BY <1>3, <1>4, FS_CardinalityType, FS_EmptySet
  <1>9. Added(row) /\ Cardinality(copies) <= 1
    BY <1>7, <1>8
  <1>10. row[1] \in 1..position
    <2>1. row[1] \in 1..Len(Envelopes) /\ position \in Nat
      BY <1>1, RowFacts, CourseFacts DEF TypeOK
    <2>2. QED
      BY <1>9, <2>1 DEF Added
  <1>11. \A q \in Places(tb) : Stored(tb, q) = row => q = p
    BY <1>2, <1>3, <1>4, <1>9, NoTwo
  <1>12. QED
    BY <1>1, <1>10, <1>11 DEF row

LEMMA OnePerCall ==
  ASSUME IInv, Counted, StoredWhereDue, AtMostOnce,
         NEW p \in Places(SUMMARY_TABLE), NEW q \in Places(SUMMARY_TABLE),
         SummaryAt(p).call_id = SummaryAt(q).call_id
  PROVE  p = q
  <1> DEFINE tb == SUMMARY_TABLE
             r == Stored(tb, p)
             u == Stored(tb, q)
  <1>1. tb \in Tables /\ InsertedOnce
    BY SummaryTable DEF AtMostOnce
  <1>2. /\ r \in Rows /\ TableOf(r) = tb /\ r[1] \in 1..position
        /\ u \in Rows /\ TableOf(u) = tb /\ u[1] \in 1..position
        /\ u = r => q = p
    BY <1>1, OnePlaceEach
  <1>3. Content(r).call_id = Content(u).call_id
    BY DEF SummaryAt, RowAt, Stored
  <1> HIDE DEF r, u
  <1>4. r = u
    BY <1>2, <1>3 DEF AtMostOnce, Rewritten
  <1>5. QED
    BY <1>2, <1>4

-----------------------------------------------------------------------------
(* The steps.                                                               *)

LEMMA InitAnalytics == AnalyticsInit => AnalyticsInv
  <1> SUFFICES ASSUME AnalyticsInit PROVE AnalyticsInv
    OBVIOUS
  <1>1. Init /\ gone = {}
    BY DEF AnalyticsInit
  <1>2. \A tb \in Tables : Places(tb) = {}
    <2>1. \A tb \in Tables : stored[tb] = <<>>
      BY <1>1 DEF Init
    <2>2. DOMAIN <<>> = {}
      OBVIOUS
    <2>3. QED
      BY <2>1, <2>2 DEF Places
  <1>3. QED
    BY <1>1, <1>2, InitIInv, InitCounted
       DEF AnalyticsInv, Kinds, StoredWhereDue, GoneHasHeir, NothingReplaced

(* A step of the sink.                                                      *)
LEMMA SinkStepKeeps ==
  ASSUME AnalyticsInv, [Next]_vars, UNCHANGED gone, IInv'
  PROVE  Kinds'
  <1>1. IInv /\ Counted /\ Kinds /\ TypeOK /\ TypeOK'
    BY DEF AnalyticsInv, IInv
  <1>2. StoredWhereDue'
    <2> SUFFICES ASSUME NEW tb \in Tables, NEW p \in Places(tb)'
                 PROVE  TableOf(Stored(tb, p)') = tb
      BY DEF StoredWhereDue, TableOf
    <2>1. CASE p \in Places(tb)
      <3>1. Stored(tb, p)' = Stored(tb, p)
        BY <1>1, <2>1, PlacesStay
      <3>2. QED
        BY <1>1, <2>1, <3>1 DEF Kinds, StoredWhereDue
    <2>2. QED
      BY <1>1, <2>1, PlacesStay
  <1>3. \A p \in Places(SUMMARY_TABLE) :
          p \in Places(SUMMARY_TABLE)' /\ SummaryAt(p)' = SummaryAt(p)
    BY <1>1, RowsStay, SummaryTable DEF SummaryAt
  <1>4. \A p \in Summaries : p \in Summaries'
    BY <1>3 DEF Summaries
  <1>5. GoneHasHeir'
    <2> SUFFICES ASSUME NEW p \in gone
                 PROVE  /\ p \in Places(SUMMARY_TABLE)'
                        /\ \E q \in Summaries' : SortKey(SummaryAt(q)') = SortKey(SummaryAt(p)')
      BY DEF GoneHasHeir, HasHeir, SortKey
    <2>1. p \in Places(SUMMARY_TABLE) /\ HasHeir(p)
      BY <1>1 DEF Kinds, GoneHasHeir
    <2>2. PICK q \in Summaries : SortKey(SummaryAt(q)) = SortKey(SummaryAt(p))
      BY <2>1 DEF HasHeir
    <2>3. q \in Summaries' /\ SummaryAt(q)' = SummaryAt(q) /\ SummaryAt(p)' = SummaryAt(p)
      BY <1>3, <1>4, <2>1 DEF Summaries
    <2>4. SortKey(SummaryAt(q)') = SortKey(SummaryAt(p)')
      BY <2>2, <2>3
    <2>5. QED
      BY <2>1, <2>3, <2>4, <1>3
  <1>6. NothingReplaced'
    <2> SUFFICES ASSUME AtMostOnce' PROVE gone = {}
      BY DEF NothingReplaced
    <2>1. crashes' = 0 /\ ~course'.losesAck /\ ~Rewritten'
      BY DEF AtMostOnce, InsertedOnce
    <2>2. crashes \in Nat /\ position \in Nat /\ course \in Courses
      BY <1>1, CourseFacts DEF TypeOK
    <2>3. ~Crash
      BY <2>1, <2>2 DEF Crash
    <2>4. /\ UNCHANGED <<course, crashes>>
          /\ position' = position \/ position' = position + 1
      <3>1. ASSUME NEW t \in Threads, Flush(t) \/ Write(t) PROVE UNCHANGED <<course, crashes, position>>
        BY <3>1 DEF Flush, Visit, Through, ShouldFlush, NotYet, TakeBatch, NothingLeft, Write,
                    Insert, Retry, Requeue, rowVars, crashVars
      <3>2. Handle \/ Tick \/ Signal => UNCHANGED <<course, crashes, position>>
        BY DEF Handle, Add, Handled, Tick, Signal, rowVars, crashVars
      <3>3. Consume \/ Break => UNCHANGED <<course, crashes>> /\ position' = position + 1
        BY DEF Consume, Break, rowVars, crashVars
      <3>4. UNCHANGED vars => UNCHANGED <<course, crashes, position>>
        BY DEF vars, rowVars, crashVars
      <3>5. QED
        BY <2>3, <3>1, <3>2, <3>3, <3>4 DEF Next
    <2>5. ~Rewritten
      <3>1. 1..position \subseteq 1..position'
        BY <2>2, <2>4
      <3>2. QED
        BY <2>1, <3>1 DEF Rewritten
    <2>6. QED
      BY <1>1, <2>1, <2>4, <2>5 DEF Kinds, NothingReplaced, AtMostOnce, InsertedOnce
  <1>7. QED
    BY <1>2, <1>5, <1>6 DEF Kinds

LEMMA OlderIsNotItself ==
  ASSUME TypeOK, NEW p \in Summaries, NEW q \in Summaries, Older(p, q)
  PROVE  p # q /\ p[1] \in Nat /\ q[1] \in Nat /\ p[1] <= q[1]
  <1>1. p[1] \in Nat /\ p[2] \in Nat /\ q[1] \in Nat /\ q[2] \in Nat
    BY PlaceFacts, SummaryTable DEF Summaries
  <1>2. QED
    BY <1>1 DEF Older

LEMMA SameKeySameCall ==
  ASSUME NEW row, NEW other, SortKey(row) = SortKey(other)
  PROVE  row.call_id = other.call_id
  BY DEF SortKey

LEMMA MergeKeeps ==
  ASSUME AnalyticsInv, Merge
  PROVE  Kinds'
  <1>1. IInv /\ Counted /\ Kinds /\ TypeOK
    BY DEF AnalyticsInv, IInv
  <1>2. PICK p \in Summaries, q \in Summaries :
          /\ Older(p, q) /\ SortKey(SummaryAt(p)) = SortKey(SummaryAt(q))
          /\ gone' = gone \cup {p} /\ UNCHANGED vars
    BY DEF Merge
  <1>3. UNCHANGED <<stored, course, crashes, position>>
    BY <1>2 DEF vars, rowVars, crashVars
  <1>4. p # q
    BY <1>1, <1>2, OlderIsNotItself
  <1>5. /\ \A tb : Places(tb)' = Places(tb)
        /\ \A x : SummaryAt(x)' = SummaryAt(x)
        /\ \A tb, x : Stored(tb, x)' = Stored(tb, x)
    BY <1>3 DEF Places, SummaryAt, RowAt, Stored
  <1>6. StoredWhereDue'
    BY <1>1, <1>5 DEF Kinds, StoredWhereDue
  <1>7. Summaries' = Summaries \ {p} /\ q \in Summaries'
    BY <1>2, <1>4, <1>5 DEF Summaries
  <1>8. GoneHasHeir'
    <2> SUFFICES ASSUME NEW x \in gone'
                 PROVE  /\ x \in Places(SUMMARY_TABLE)
                        /\ \E y \in Summaries' : SortKey(SummaryAt(y)) = SortKey(SummaryAt(x))
      BY <1>5 DEF GoneHasHeir, HasHeir
    <2>1. CASE x = p
      BY <2>1, <1>2, <1>7 DEF Summaries
    <2>2. CASE x \in gone
      <3>1. x \in Places(SUMMARY_TABLE) /\ HasHeir(x)
        BY <1>1, <2>2 DEF Kinds, GoneHasHeir
      <3>2. PICK y \in Summaries : SortKey(SummaryAt(y)) = SortKey(SummaryAt(x))
        BY <3>1 DEF HasHeir
      <3>3. CASE y = p
        BY <3>1, <3>2, <3>3, <1>2, <1>7
      <3>4. CASE y # p
        BY <3>1, <3>2, <3>4, <1>7
      <3>5. QED
        BY <3>3, <3>4
    <2>3. QED
      BY <2>1, <2>2, <1>2
  <1>9. NothingReplaced'
    <2> SUFFICES ASSUME AtMostOnce PROVE FALSE
      BY <1>3 DEF NothingReplaced, AtMostOnce, InsertedOnce, Rewritten
    <2>1. SummaryAt(p).call_id = SummaryAt(q).call_id
      BY <1>2, SameKeySameCall
    <2>2. QED
      BY <1>1, <1>2, <1>4, <2>1, OnePerCall DEF Kinds, Summaries
  <1>10. QED
    BY <1>6, <1>8, <1>9 DEF Kinds

LEMMA NextAnalytics == AnalyticsInv /\ [AnalyticsNext]_analyticsVars => AnalyticsInv'
  <1> SUFFICES ASSUME AnalyticsInv, [AnalyticsNext]_analyticsVars PROVE AnalyticsInv'
    OBVIOUS
  <1>1. (Merge /\ UNCHANGED vars) \/ ([Next]_vars /\ UNCHANGED gone)
    BY DEF AnalyticsNext, Merge, analyticsVars
  <1>2. [Next]_vars
    BY <1>1
  <1>3. IInv' /\ Counted'
    BY <1>2, NextIInv, NextCounted DEF AnalyticsInv, IInv, Types
  <1>4. Kinds'
    BY <1>1, <1>3, SinkStepKeeps, MergeKeeps
  <1>5. QED
    BY <1>3, <1>4 DEF AnalyticsInv

-----------------------------------------------------------------------------
(* What the queries answer.                                                 *)

LEMMA PlacesAreFinite ==
  ASSUME TypeOK, NEW tb \in Tables
  PROVE  IsFiniteSet(Places(tb))
  <1> DEFINE batches == DOMAIN stored[tb]
             parts == {{k} \X DOMAIN stored[tb][k] : k \in batches}
             part == [k \in batches |-> {k} \X DOMAIN stored[tb][k]]
  <1>1. stored[tb] \in Seq(Seq(Rows))
    BY DEF TypeOK
  <1>2. DOMAIN stored[tb] = 1..Len(stored[tb]) /\ Len(stored[tb]) \in Nat
    BY <1>1, LenProperties
  <1>3. IsFiniteSet(batches)
    BY <1>2, FS_Interval
  <1>4. part \in Surjection(batches, parts)
    BY DEF Surjection
  <1>5. \A T \in parts : IsFiniteSet(T)
    <2> SUFFICES ASSUME NEW k \in batches PROVE IsFiniteSet({k} \X DOMAIN stored[tb][k])
      OBVIOUS
    <2>1. stored[tb][k] \in Seq(Rows)
      BY <1>1, <1>2, ElementOfSeq
    <2>2. DOMAIN stored[tb][k] = 1..Len(stored[tb][k]) /\ Len(stored[tb][k]) \in Nat
      BY <2>1, LenProperties
    <2>3. IsFiniteSet(DOMAIN stored[tb][k])
      BY <2>2, FS_Interval
    <2>4. IsFiniteSet({k})
      BY FS_Singleton
    <2>5. QED
      BY <2>3, <2>4, FS_Product
  <1>6. Places(tb) = UNION parts
    BY DEF Places
  <1> HIDE DEF batches, parts, part
  <1>7. IsFiniteSet(parts)
    BY <1>3, <1>4, FS_Surjection
  <1>8. QED
    BY <1>5, <1>6, <1>7, FS_UNION

(* Summaries of different calls are as many as their calls.                 *)
LEMMA OneCallEach ==
  ASSUME NEW S, IsFiniteSet(S),
         \A p, q \in S : SummaryAt(p).call_id = SummaryAt(q).call_id => p = q
  PROVE  Cardinality({SummaryAt(p).call_id : p \in S}) = Cardinality(S)
  <1> DEFINE calls == {SummaryAt(p).call_id : p \in S}
             call == [p \in S |-> SummaryAt(p).call_id]
  <1>1. call \in [S -> calls] /\ \A c \in calls : \E p \in S : call[p] = c
    OBVIOUS
  <1>2. \A p, q \in S : call[p] = call[q] => p = q
    OBVIOUS
  <1> HIDE DEF calls, call
  <1>3. call \in Bijection(S, calls)
    BY <1>1, <1>2 DEF Bijection, Injection, Surjection, IsInjective
  <1>4. ExistsBijection(S, calls)
    BY <1>3 DEF ExistsBijection
  <1>5. QED
    BY <1>4, FS_Bijection DEF calls

LEMMA SummarisedCalls ==
  ASSUME AnalyticsInv
  PROVE  {SummaryAt(p).call_id : p \in Summaries} = StoredCalls(SUMMARY_TABLE)
  <1> DEFINE tb == SUMMARY_TABLE
  <1>1. IInv /\ Kinds /\ TypeOK /\ tb \in Tables
    BY SummaryTable DEF AnalyticsInv, IInv
  <1>2. \A p \in Places(tb) : SummaryAt(p) = Content(Stored(tb, p))
    BY DEF SummaryAt, RowAt, Stored
  <1>3. ASSUME NEW p \in Summaries PROVE SummaryAt(p).call_id \in StoredCalls(tb)
    <2>1. p \in Places(tb)
      BY DEF Summaries
    <2>2. Stored(tb, p) \in Rows /\ TableOf(Stored(tb, p)) = tb
      BY <1>1, <2>1, PlaceFacts DEF Kinds, StoredWhereDue
    <2>3. InStore(Stored(tb, p))
      BY <1>1, <2>1, <2>2, InStoreHasPlace
    <2>4. Stored(tb, p) \in {row \in Rows : TableOf(row) = tb /\ InStore(row)}
      BY <2>2, <2>3
    <2>5. Content(Stored(tb, p)).call_id \in StoredCalls(tb)
      BY <2>4 DEF StoredCalls, StoredRows
    <2>6. QED
      BY <1>2, <2>1, <2>5
  <1>4. ASSUME NEW r \in Rows, TableOf(r) = tb, InStore(r)
        PROVE  \E q \in Summaries : SummaryAt(q).call_id = Content(r).call_id
    <2>1. PICK p \in Places(tb) : Stored(tb, p) = r
      BY <1>1, <1>4, InStoreHasPlace
    <2>2. SummaryAt(p).call_id = Content(r).call_id
      BY <1>2, <2>1
    <2>3. CASE p \in gone
      <3>1. PICK q \in Summaries : SortKey(SummaryAt(q)) = SortKey(SummaryAt(p))
        BY <1>1, <2>3 DEF Kinds, GoneHasHeir, HasHeir
      <3>2. SummaryAt(q).call_id = SummaryAt(p).call_id
        BY <3>1, SameKeySameCall
      <3>3. QED
        BY <2>2, <3>2
    <2>4. CASE p \notin gone
      BY <2>1, <2>2, <2>4 DEF Summaries
    <2>5. QED
      BY <2>3, <2>4
  <1> DEFINE counted == {SummaryAt(p).call_id : p \in Summaries}
  <1>5. \A c \in counted : c \in StoredCalls(tb)
    BY <1>3
  <1>6. \A c \in StoredCalls(tb) : c \in counted
    <2> SUFFICES ASSUME NEW r \in Rows, TableOf(r) = tb, InStore(r)
                 PROVE  Content(r).call_id \in counted
      BY DEF StoredCalls, StoredRows
    <2>1. QED
      BY <1>4
  <1> HIDE DEF counted
  <1>7. counted = StoredCalls(tb)
    BY <1>5, <1>6
  <1>8. QED
    BY <1>7 DEF counted

LEMMA InvCounts == AnalyticsInv => CallsCountOnce
  BY SummarisedCalls DEF OverviewCalls, CallsCountOnce

(* What counts rows counts calls when no two of the rows are of one call.   *)
LEMMA RowsAreCalls ==
  ASSUME TypeOK, NEW S, S \subseteq Summaries,
         \A p, q \in Summaries : SummaryAt(p).call_id = SummaryAt(q).call_id => p = q
  PROVE  Cardinality(S) = Cardinality(CallsOf(S))
  <1>1. IsFiniteSet(Places(SUMMARY_TABLE)) /\ S \subseteq Places(SUMMARY_TABLE)
    BY PlacesAreFinite, SummaryTable DEF Summaries
  <1>2. IsFiniteSet(S)
    BY <1>1, FS_Subset
  <1>3. QED
    BY <1>2, OneCallEach DEF CallsOf

LEMMA OneIsOlder ==
  ASSUME TypeOK, NEW p \in Summaries, NEW q \in Summaries, p # q
  PROVE  Older(p, q) \/ Older(q, p)
  <1>1. /\ p = <<p[1], p[2]>> /\ p[1] \in Nat /\ p[2] \in Nat
        /\ q = <<q[1], q[2]>> /\ q[1] \in Nat /\ q[2] \in Nat
    BY PlaceFacts, SummaryTable DEF Summaries
  <1>2. p[1] # q[1] \/ p[2] # q[2]
    BY <1>1
  <1>3. QED
    BY <1>1, <1>2 DEF Older

LEMMA StoredSummary ==
  ASSUME AnalyticsInv, NEW p \in Summaries
  PROVE  /\ Stored(SUMMARY_TABLE, p) \in StoredRows(SUMMARY_TABLE)
         /\ SummaryAt(p) = Content(Stored(SUMMARY_TABLE, p))
  <1>1. TypeOK /\ Kinds /\ p \in Places(SUMMARY_TABLE) /\ SUMMARY_TABLE \in Tables
    BY SummaryTable DEF AnalyticsInv, IInv, Summaries
  <1>2. Stored(SUMMARY_TABLE, p) \in Rows /\ TableOf(Stored(SUMMARY_TABLE, p)) = SUMMARY_TABLE
    BY <1>1, PlaceFacts DEF Kinds, StoredWhereDue
  <1>3. InStore(Stored(SUMMARY_TABLE, p))
    BY <1>1, <1>2, InStoreHasPlace
  <1>4. QED
    BY <1>2, <1>3 DEF StoredRows, SummaryAt, RowAt, Stored

(* When the merges are done a call that kept its key has one row.           *)
LEMMA MergedIsOne ==
  ASSUME AnalyticsInv, Merged, ~Reworded, NEW p \in Summaries, NEW q \in Summaries,
         SummaryAt(p).call_id = SummaryAt(q).call_id
  PROVE  p = q
  <1>1. SortKey(SummaryAt(p)) = SortKey(SummaryAt(q))
    BY StoredSummary DEF Reworded
  <1>2. TypeOK
    BY DEF AnalyticsInv, IInv
  <1>3. QED
    BY <1>1, <1>2, OneIsOlder DEF Merged

LEMMA InvFigures == AnalyticsInv => FiguresOnceMerged
  <1> SUFFICES ASSUME AnalyticsInv, Merged, ~Reworded PROVE FiguresOnceMerged
    BY DEF FiguresOnceMerged
  <1>1. TypeOK /\ \A p, q \in Summaries : SummaryAt(p).call_id = SummaryAt(q).call_id => p = q
    BY MergedIsOne DEF AnalyticsInv, IInv
  <1>2. \A S \in SUBSET Summaries : Cardinality(S) = Cardinality(CallsOf(S))
    BY <1>1, RowsAreCalls
  <1>3. /\ Escalated(Summaries) \in SUBSET Summaries /\ ResolvedOf(Summaries) \in SUBSET Summaries
        /\ \A x : DaySummaries(x) \in SUBSET Summaries /\ IntentSummaries(x) \in SUBSET Summaries
    BY DEF Escalated, ResolvedOf, DaySummaries, IntentSummaries
  <1>4. /\ OverviewTally.escalations = Cardinality(Escalated(Summaries))
        /\ OverviewTally.resolved = Cardinality(ResolvedOf(Summaries))
    BY DEF OverviewTally, Tally
  <1>5. QED
    BY <1>2, <1>3, <1>4 DEF FiguresOnceMerged, SentimentCalls, IntentCalls

LEMMA SevereAreSignals ==
  ASSUME AnalyticsInv, InsertedOnce, NEW policy
  PROVE  SevereEvents(policy)
           = Cardinality({u \in StoredRows(SIGNAL_TABLE) : Severe(Content(u), policy)})
  <1> DEFINE tb == SIGNAL_TABLE
             events == {p \in Places(tb) : Severe(RowAt(tb, p), policy)}
             signals == {u \in StoredRows(tb) : Severe(Content(u), policy)}
             row == [p \in events |-> Stored(tb, p)]
  <1>1. IInv /\ Counted /\ StoredWhereDue /\ TypeOK /\ tb \in Tables
    BY SummaryTable DEF AnalyticsInv, Kinds, IInv
  <1>2. \A p \in Places(tb) : RowAt(tb, p) = Content(Stored(tb, p))
    BY DEF RowAt, Stored
  <1>3. \A p \in Places(tb) :
          /\ Stored(tb, p) \in Rows /\ TableOf(Stored(tb, p)) = tb
          /\ \A q \in Places(tb) : Stored(tb, q) = Stored(tb, p) => q = p
    BY <1>1, OnePlaceEach
  <1>4. \A p \in events : Stored(tb, p) \in signals
    <2> SUFFICES ASSUME NEW p \in events PROVE Stored(tb, p) \in signals
      OBVIOUS
    <2>1. Stored(tb, p) \in Rows /\ TableOf(Stored(tb, p)) = tb
      BY <1>3
    <2>2. InStore(Stored(tb, p))
      BY <1>1, <2>1, InStoreHasPlace
    <2>3. QED
      BY <1>2, <2>1, <2>2 DEF StoredRows
  <1>5. \A u \in signals : \E p \in events : Stored(tb, p) = u
    <2> SUFFICES ASSUME NEW u \in signals PROVE \E p \in events : Stored(tb, p) = u
      OBVIOUS
    <2>1. u \in Rows /\ TableOf(u) = tb /\ InStore(u) /\ Severe(Content(u), policy)
      BY DEF StoredRows
    <2>2. PICK p \in Places(tb) : Stored(tb, p) = u
      BY <1>1, <2>1, InStoreHasPlace
    <2>3. QED
      BY <1>2, <2>1, <2>2
  <1>6. IsFiniteSet(events)
    <2>1. IsFiniteSet(Places(tb)) /\ events \subseteq Places(tb)
      BY <1>1, PlacesAreFinite
    <2> HIDE DEF events
    <2>2. QED
      BY <2>1, FS_Subset
  <1>7. \A p, q \in events : row[p] = row[q] => p = q
    BY <1>3
  <1>8. row \in [events -> signals] /\ \A u \in signals : \E p \in events : row[p] = u
    BY <1>4, <1>5
  <1> HIDE DEF events, signals, row
  <1>9. row \in Bijection(events, signals)
    BY <1>7, <1>8 DEF Bijection, Injection, Surjection, IsInjective
  <1>10. Cardinality(events) = Cardinality(signals)
    BY <1>6, <1>9, FS_Bijection DEF ExistsBijection
  <1>11. QED
    BY <1>10 DEF events, signals, SevereEvents

LEMMA NothingToMerge ==
  ASSUME AnalyticsInv, AtMostOnce
  PROVE  Merged /\ \A p, q \in Summaries : SummaryAt(p).call_id = SummaryAt(q).call_id => p = q
  <1>1. IInv /\ Counted /\ StoredWhereDue /\ TypeOK
    BY DEF AnalyticsInv, Kinds, IInv
  <1>2. \A p, q \in Summaries : SummaryAt(p).call_id = SummaryAt(q).call_id => p = q
    BY <1>1, OnePerCall DEF Summaries
  <1>3. ASSUME NEW p \in Summaries, NEW q \in Summaries, Older(p, q)
        PROVE  SortKey(SummaryAt(p)) # SortKey(SummaryAt(q))
    <2>1. p # q
      BY <1>1, <1>3, OlderIsNotItself
    <2>2. QED
      BY <2>1, <1>2, SameKeySameCall
  <1>4. QED
    BY <1>2, <1>3 DEF Merged

LEMMA InvOnce == AnalyticsInv => NothingCountsTwice
  <1> SUFFICES ASSUME AnalyticsInv, InsertedOnce PROVE NothingCountsTwice
    BY DEF NothingCountsTwice
  <1>1. TypeOK /\ Kinds
    BY DEF AnalyticsInv, IInv
  <1>2. ASSUME ~Rewritten, NEW agent
        PROVE  LET own == {p \in Summaries : SummaryAt(p).agent_id = agent} IN
               AgentCalls(agent) = Cardinality(own) /\ AgentTally(agent) = Tally(own)
    <2> DEFINE own == {p \in Summaries : SummaryAt(p).agent_id = agent}
    <2>1. AtMostOnce
      BY <1>2 DEF AtMostOnce
    <2>2. Summaries = Places(SUMMARY_TABLE)
      BY <1>1, <2>1 DEF Kinds, NothingReplaced, Summaries
    <2>3. own = Inserted(agent) /\ own \subseteq Summaries
      BY <2>2 DEF Inserted
    <2> HIDE DEF own
    <2>4. Cardinality(own) = Cardinality(CallsOf(own))
      BY <1>1, <2>1, <2>3, NothingToMerge, RowsAreCalls
    <2>5. AgentCalls(agent) = Cardinality(own) /\ AgentTally(agent) = Tally(own)
      BY <2>3, <2>4 DEF AgentCalls, AgentTally, CallsOf
    <2>6. QED
      BY <2>5 DEF own
  <1>3. ~Rewritten => Merged
    BY NothingToMerge DEF AtMostOnce
  <1>4. QED
    BY <1>2, <1>3, SevereAreSignals DEF NothingCountsTwice

(* schema.sql:81-142 and 231-246, api.py:241-362: in every reachable state  *)
(* the overview counts each call that has a summary once; what counts rows  *)
(* counts calls once the merges are done, for calls that kept their key;    *)
(* and while nothing is inserted twice a severe event is a signal, and the  *)
(* rollup the tally of the summaries if none was written again.             *)
THEOREM FiguresAreCalls == AnalyticsSpec => []DashboardCountsCalls
  <1>1. AnalyticsInv => DashboardCountsCalls
    BY InvCounts, InvFigures, InvOnce DEF DashboardCountsCalls
  <1>2. QED
    BY <1>1, InitAnalytics, NextAnalytics, PTL DEF AnalyticsSpec

-----------------------------------------------------------------------------
(* The page of a call.                                                      *)

Own(call) == {p \in Summaries : SummaryAt(p).call_id = call}
Newest(call) == {p \in Own(call) : \A other \in Own(call) : other[1] <= p[1]}

LEMMA DetailIsNewest ==
  ASSUME NEW call PROVE Detail(call) = {SummaryAt(p) : p \in Newest(call)}
  BY DEF Detail, Own, Newest

LEMMA MergeKeepsPage ==
  ASSUME AnalyticsInv, Merge, NEW call, Detail(call) # {}
  PROVE  Detail(call)' \subseteq Detail(call) /\ Detail(call)' # {}
  <1>1. TypeOK
    BY DEF AnalyticsInv, IInv
  <1>2. PICK p \in Summaries, q \in Summaries :
          /\ Older(p, q) /\ SortKey(SummaryAt(p)) = SortKey(SummaryAt(q))
          /\ gone' = gone \cup {p} /\ UNCHANGED vars
    BY DEF Merge
  <1>3. UNCHANGED stored
    BY <1>2 DEF vars, rowVars
  <1>4. /\ Places(SUMMARY_TABLE)' = Places(SUMMARY_TABLE)
        /\ \A x : SummaryAt(x)' = SummaryAt(x)
    BY <1>3 DEF Places, SummaryAt, RowAt
  <1>5. p # q /\ p[1] \in Nat /\ q[1] \in Nat /\ p[1] <= q[1]
    BY <1>1, <1>2, OlderIsNotItself
  <1>6. Summaries' = Summaries \ {p}
    BY <1>2, <1>4 DEF Summaries
  <1>7. Own(call)' = Own(call) \ {p}
    BY <1>4, <1>6 DEF Own
  <1>8. p \in Own(call) => q \in Own(call) \ {p}
    <2>1. SummaryAt(p).call_id = SummaryAt(q).call_id
      BY <1>2, SameKeySameCall
    <2>2. QED
      BY <2>1, <1>2, <1>5 DEF Own
  <1>9. \A x \in Own(call) : x[1] \in Nat
    BY <1>1, PlaceFacts, SummaryTable DEF Own, Summaries
  <1>10. ASSUME NEW x \in Newest(call)' PROVE x \in Newest(call)
    <2>1. x \in Own(call) /\ \A other \in Own(call) \ {p} : other[1] <= x[1]
      BY <1>7 DEF Newest
    <2>2. p \in Own(call) => p[1] <= x[1]
      <3> SUFFICES ASSUME p \in Own(call) PROVE p[1] <= x[1]
        OBVIOUS
      <3>1. q[1] <= x[1] /\ x[1] \in Nat
        BY <1>8, <1>9, <2>1
      <3>2. QED
        BY <3>1, <1>5
    <2>3. QED
      BY <2>1, <2>2 DEF Newest
  <1>11. \E y : y \in Newest(call)'
    <2>1. PICK x : x \in Newest(call)
      BY DetailIsNewest
    <2>2. x \in Own(call) /\ \A other \in Own(call) : other[1] <= x[1]
      BY <2>1 DEF Newest
    <2>3. CASE x # p
      <3>1. x \in Newest(call)'
        BY <1>7, <2>2, <2>3 DEF Newest
      <3>2. QED
        BY <3>1
    <2>4. CASE x = p
      <3>1. q \in Own(call) \ {p}
        BY <1>8, <2>2, <2>4
      <3>2. \A other \in Own(call) : other[1] <= q[1]
        BY <1>5, <1>9, <2>2, <2>4
      <3>3. q \in Newest(call)'
        BY <1>7, <3>1, <3>2 DEF Newest
      <3>4. QED
        BY <3>3
    <2>5. QED
      BY <2>3, <2>4
  <1>12. Detail(call)' = {SummaryAt(x) : x \in Newest(call)'}
    <2>1. Detail(call)' = {SummaryAt(x)' : x \in Newest(call)'}
      BY DEF Detail, Own, Newest
    <2>2. QED
      BY <2>1, <1>4
  <1>13. QED
    BY <1>10, <1>11, <1>12, DetailIsNewest

(* api.py:405-411: no step that inserts nothing takes the summary from the  *)
(* page of a call, or shows another than those that were newest before.     *)
THEOREM PagesOutliveMerges == AnalyticsSpec => DetailSurvivesMerges
  <1>1. AnalyticsInv /\ [AnalyticsNext]_analyticsVars =>
          [UNCHANGED stored => \A call \in CallIds : Detail(call) # {} =>
             Detail(call)' \subseteq Detail(call) /\ Detail(call)' # {}]_analyticsVars
    <2> SUFFICES ASSUME AnalyticsInv, [AnalyticsNext]_analyticsVars, UNCHANGED stored,
                        NEW call \in CallIds, Detail(call) # {}
                 PROVE  Detail(call)' \subseteq Detail(call) /\ Detail(call)' # {}
      OBVIOUS
    <2>1. Merge \/ UNCHANGED gone
      BY DEF AnalyticsNext, analyticsVars
    <2>2. CASE UNCHANGED gone
      <3>1. Detail(call)' = Detail(call)
        BY <2>2 DEF Detail, Summaries, Places, SummaryAt, RowAt
      <3>2. QED
        BY <3>1
    <2>3. QED
      BY <2>1, <2>2, MergeKeepsPage
  <1>2. QED
    BY <1>1, InitAnalytics, NextAnalytics, PTL DEF AnalyticsSpec, DetailSurvivesMerges
=============================================================================
