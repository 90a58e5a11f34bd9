------------------------ MODULE InsightWorker_proofs ------------------------
(***************************************************************************)
(* Proofs about InsightWorker, for any calls, topic, stride and ceiling,   *)
(* with failures, rebalances and signals: the books of the worker balance, *)
(* and what it does late -- a turn that a summary misses, a second summary *)
(* of a call, a signal after the summary -- is bounded.                    *)
(***************************************************************************)
EXTENDS InsightWorker, SequenceTheorems, FiniteSetTheorems, TLAPS

-----------------------------------------------------------------------------
(* The invariant.                                                           *)

CallStates == [call : CallIds, turns : Seq(Nat), analysed : Nat, ended : BOOLEAN,
               lock : Seq(Tasks)]

Insights == [kind : {"live", "post_call"}, state : Nat, from : Nat, upto : Nat]

Awaits == {"idle", "iterating", "queued", "summarising", "reporting", "admitting",
           "live_queued", "analysing", "sending", "unwinding", "done", "crashed"}

Types ==
  /\ topic \in Seq(CallIds \cup {Other})
  /\ position \in 0..Len(topic) /\ segment \in 0..Len(topic) /\ committed \in 0..Len(topic)
  /\ states \in Seq(CallStates)
  /\ calls \in [CallIds -> 0..Len(states)]
  /\ pc \in [Tasks -> Awaits]
  /\ on \in [Tasks -> 0..Len(states)]
  /\ read \in [Tasks -> Nat]
  /\ cancelled \subseteq Tasks
  /\ insights \in Seq(Insights)

Finishing(t) == pc[t] \in {"queued", "summarising", "reporting"}
Watching(t) == pc[t] \in {"live_queued", "analysing", "sending"}
Locking(t) == Finishing(t) \/ Watching(t)

(* The awaits each task can be at.                                          *)
Roles ==
  /\ \A t \in {"Sweeper", "Main"} : ~Watching(t) /\ pc[t] \notin {"admitting", "unwinding"}
  /\ pc["Consumer"] # "iterating"
  /\ "Main" \notin cancelled

(* A task that holds a lock or waits for one works on the state it is of.   *)
InHands ==
  \A t \in Tasks :
    IF Locking(t) THEN on[t] \in Ids /\ Contains(states[on[t]].lock, t) ELSE on[t] = 0

CallsMatch == \A c \in CallIds : calls[c] # 0 => states[calls[c]].call = c

(* Main begins when the consumer is over, or will be at its next turn.      *)
MainIsLast ==
  pc["Main"] # "idle" => "Consumer" \in cancelled \/ pc["Consumer"] \in {"unwinding", "done"}

FinalisingEnds == \A t \in Tasks : Finalising(t) => states[on[t]].ended

(* Who finalises a state does not untrack another one of the same call.     *)
NobodyElses == \A t \in Tasks : Finishing(t) => calls[states[on[t]].call] \in {0, on[t]}

(* While Main is idle, the lock of s is that of the tasks that work on s.   *)
LockHolds(s) ==
  states[s].lock \in
    IF on["Sweeper"] = s
    THEN IF on["Consumer"] = s THEN {<<"Sweeper", "Consumer">>, <<"Consumer", "Sweeper">>}
                               ELSE {<<"Sweeper">>}
    ELSE IF on["Consumer"] = s THEN {<<"Consumer">>} ELSE {<<>>}

(* A consumer that is to finalise a state waits behind the sweeper, so it   *)
(* never forgets a call that the sweeper is still working on.               *)
SweeperFirst ==
  /\ Locking("Sweeper") => IsTracked(on["Sweeper"])
  /\ Finalising("Consumer") => on["Sweeper"] # on["Consumer"]
  /\ pc["Consumer"] = "queued" =>
       /\ on["Sweeper"] = on["Consumer"] =>
            states[on["Consumer"]].lock = <<"Sweeper", "Consumer">>
       /\ \/ states[on["Consumer"]].ended
          \/ pc["Sweeper"] = "done"
          \/ pc["Sweeper"] = "queued" /\ on["Sweeper"] = on["Consumer"]

BeforeMain == pc["Main"] = "idle" => SweeperFirst /\ \A s \in Ids : LockHolds(s)

Heard(i) == \E s \in Ids : Contains(states[s].turns, i)

SegmentInHand ==
  /\ Finishing("Consumer") \/ pc["Consumer"] = "admitting" =>
       segment \in 1..Len(topic) /\ topic[segment] \in CallIds
  /\ Watching("Consumer") \/ pc["Consumer"] = "idle" => segment = 0 \/ Heard(segment)

Base == Types /\ Roles /\ InHands /\ CallsMatch /\ MainIsLast
Locks == FinalisingEnds /\ NobodyElses /\ BeforeMain
IInv == Base /\ Locks /\ SegmentInHand /\ BooksBalance

-----------------------------------------------------------------------------
(* Locks and states.                                                        *)

LEMMA WithoutHas ==
  ASSUME NEW lock \in Seq(Tasks), NEW t, Contains(lock, t)
  PROVE  /\ Without(lock, t) \in Seq(Tasks)
         /\ \A u : u # t /\ Contains(lock, u) => Contains(Without(lock, t), u)
  <1> DEFINE i == CHOOSE i \in 1..Len(lock) : lock[i] = t
             a == SubSeq(lock, 1, i - 1)
             b == SubSeq(lock, i + 1, Len(lock))
  <1>1. i \in 1..Len(lock) /\ lock[i] = t /\ Len(lock) \in Nat
    BY LenProperties DEF Contains
  <1>2. Without(lock, t) = a \o b
    BY DEF Without, RemoveAt
  <1> HIDE DEF i
  <1>3. /\ a \in Seq(Tasks) /\ Len(a) = i - 1 /\ \A k \in 1..(i - 1) : a[k] = lock[k]
    BY <1>1, SubSeqProperties, ElementOfSeq
  <1>4. /\ b \in Seq(Tasks) /\ Len(b) = Len(lock) - i
        /\ \A k \in 1..(Len(lock) - i) : b[k] = lock[i + k]
    <2>1. \A k \in (i + 1)..Len(lock) : lock[k] \in Tasks
      BY <1>1, ElementOfSeq
    <2>2. /\ b \in Seq(Tasks)
          /\ Len(b) = IF i + 1 <= Len(lock) THEN Len(lock) - (i + 1) + 1 ELSE 0
          /\ \A k \in 1..(Len(lock) - (i + 1) + 1) : b[k] = lock[(i + 1) + k - 1]
      BY <1>1, <2>1, SubSeqProperties
    <2>3. Len(b) = Len(lock) - i
      BY <1>1, <2>2
    <2>4. ASSUME NEW k \in 1..(Len(lock) - i) PROVE b[k] = lock[i + k]
      <3>1. k \in 1..(Len(lock) - (i + 1) + 1) /\ (i + 1) + k - 1 = i + k
        BY <1>1
      <3>2. QED
        BY <2>2, <3>1
    <2>5. QED
      BY <2>2, <2>3, <2>4
  <1> HIDE DEF a, b
  <1>5. /\ a \o b \in Seq(Tasks) /\ Len(a \o b) = Len(lock) - 1
        /\ \A k \in 1..(Len(lock) - 1) :
             (a \o b)[k] = IF k <= i - 1 THEN a[k] ELSE b[k - (i - 1)]
    <2>1. /\ a \o b \in Seq(Tasks) /\ Len(a \o b) = Len(a) + Len(b)
          /\ \A k \in 1..(Len(a) + Len(b)) :
               (a \o b)[k] = IF k <= Len(a) THEN a[k] ELSE b[k - Len(a)]
      BY <1>3, <1>4, ConcatProperties
    <2>2. Len(a) = i - 1 /\ Len(a) + Len(b) = Len(lock) - 1
      BY <1>1, <1>3, <1>4
    <2>3. QED
      BY <2>1, <2>2
  <1>6. ASSUME NEW u, u # t, Contains(lock, u) PROVE Contains(a \o b, u)
    <2>1. PICK k \in 1..Len(lock) : lock[k] = u
      BY <1>6 DEF Contains
    <2>2. CASE k < i
      <3>1. k \in 1..(Len(lock) - 1) /\ (a \o b)[k] = u
        BY <1>1, <1>3, <1>5, <2>1, <2>2
      <3>2. QED
        BY <1>5, <3>1 DEF Contains
    <2>3. CASE k > i
      <3>1. k - 1 \in 1..(Len(lock) - 1) /\ (a \o b)[k - 1] = u
        <4>1. /\ k - 1 \in 1..(Len(lock) - 1) /\ ~(k - 1 <= i - 1)
              /\ (k - 1) - (i - 1) = k - i /\ k - i \in 1..(Len(lock) - i) /\ i + (k - i) = k
          BY <1>1, <2>1, <2>3
        <4>2. b[k - i] = u
          BY <1>4, <2>1, <4>1
        <4>3. QED
          BY <1>5, <4>1, <4>2
      <3>2. QED
        BY <1>5, <3>1 DEF Contains
    <2>4. k # i
      BY <1>1, <1>6, <2>1
    <2>5. QED
      BY <1>1, <2>1, <2>2, <2>3, <2>4
  <1>7. QED
    BY <1>2, <1>5, <1>6

LEMMA WithoutOnly ==
  ASSUME NEW lock, NEW t, NEW n \in 1..Len(lock), lock[n] = t,
         \A i \in 1..Len(lock) : lock[i] = t => i = n
  PROVE  Without(lock, t) = SubSeq(lock, 1, n - 1) \o SubSeq(lock, n + 1, Len(lock))
  <1>1. (CHOOSE i \in 1..Len(lock) : lock[i] = t) = n
    OBVIOUS
  <1>2. QED
    BY <1>1 DEF Without, RemoveAt

LEMMA PartsOfPair ==
  ASSUME NEW t, NEW u
  PROVE  SubSeq(<<t, u>>, 1, 1) = <<t>> /\ SubSeq(<<t, u>>, 2, 2) = <<u>>
  <1> DEFINE p == <<t, u>>
  <1>1. \A i \in 1..2 : p[i] \in {t, u}
    OBVIOUS
  <1>2. ASSUME NEW i \in 1..2 PROVE SubSeq(p, i, i) = <<p[i]>>
    <2>1. /\ SubSeq(p, i, i) \in Seq({t, u}) /\ Len(SubSeq(p, i, i)) = 1
          /\ SubSeq(p, i, i)[1] = p[i]
      <3>1. /\ SubSeq(p, i, i) \in Seq({t, u})
            /\ Len(SubSeq(p, i, i)) = IF i <= i THEN i - i + 1 ELSE 0
            /\ \A k \in 1..(i - i + 1) : SubSeq(p, i, i)[k] = p[i + k - 1]
        BY <1>1, SubSeqProperties
      <3>2. i - i + 1 = 1 /\ i + 1 - 1 = i
        OBVIOUS
      <3>3. QED
        BY <3>1, <3>2
    <2>2. <<p[i]>> \in Seq({t, u}) /\ Len(<<p[i]>>) = 1 /\ <<p[i]>>[1] = p[i]
      BY <1>1
    <2> HIDE DEF p
    <2>3. \A k \in 1..Len(SubSeq(p, i, i)) : SubSeq(p, i, i)[k] = <<p[i]>>[k]
      BY <2>1, <2>2
    <2>4. QED
      BY <2>1, <2>2, <2>3, SeqEqual
  <1>3. p[1] = t /\ p[2] = u
    OBVIOUS
  <1>4. QED
    BY <1>2, <1>3

LEMMA WithoutOf ==
  ASSUME NEW t, NEW u, t # u
  PROVE  /\ Without(<<t>>, t) = <<>>
         /\ Without(<<t, u>>, t) = <<u>>
         /\ Without(<<u, t>>, t) = <<u>>
  <1>1. /\ <<u>> \in Seq({u}) /\ <<u>> \o <<>> = <<u>> /\ <<>> \o <<u>> = <<u>>
        /\ <<>> \in Seq({u}) /\ <<>> \o <<>> = <<>>
    BY ConcatEmptySeq
  <1>2. /\ SubSeq(<<t>>, 1, 0) = <<>> /\ SubSeq(<<t>>, 2, 1) = <<>>
        /\ SubSeq(<<t, u>>, 1, 0) = <<>> /\ SubSeq(<<u, t>>, 3, 2) = <<>>
    BY SubSeqEmpty
  <1>3. Without(<<t>>, t) = SubSeq(<<t>>, 1, 0) \o SubSeq(<<t>>, 2, 1)
    <2> DEFINE l == <<t>>
    <2>1. Len(l) = 1 /\ l[1] = t
      OBVIOUS
    <2> HIDE DEF l
    <2>2. 1 \in 1..Len(l) /\ l[1] = t /\ \A i \in 1..Len(l) : l[i] = t => i = 1
      BY <2>1
    <2>3. Without(l, t) = SubSeq(l, 1, 1 - 1) \o SubSeq(l, 1 + 1, Len(l))
      BY <2>2, WithoutOnly
    <2>4. QED
      BY <2>1, <2>3 DEF l
  <1>4. Without(<<t, u>>, t) = SubSeq(<<t, u>>, 1, 0) \o SubSeq(<<t, u>>, 2, 2)
    <2> DEFINE l == <<t, u>>
    <2>1. Len(l) = 2 /\ l[1] = t /\ l[2] = u
      OBVIOUS
    <2> HIDE DEF l
    <2>2. 1 \in 1..Len(l) /\ l[1] = t /\ \A i \in 1..Len(l) : l[i] = t => i = 1
      BY <2>1
    <2>3. Without(l, t) = SubSeq(l, 1, 1 - 1) \o SubSeq(l, 1 + 1, Len(l))
      BY <2>2, WithoutOnly
    <2>4. QED
      BY <2>1, <2>3 DEF l
  <1>5. Without(<<u, t>>, t) = SubSeq(<<u, t>>, 1, 1) \o SubSeq(<<u, t>>, 3, 2)
    <2> DEFINE l == <<u, t>>
    <2>1. Len(l) = 2 /\ l[1] = u /\ l[2] = t
      OBVIOUS
    <2> HIDE DEF l
    <2>2. 2 \in 1..Len(l) /\ l[2] = t /\ \A i \in 1..Len(l) : l[i] = t => i = 2
      BY <2>1
    <2>3. Without(l, t) = SubSeq(l, 1, 2 - 1) \o SubSeq(l, 2 + 1, Len(l))
      <3>1. ASSUME NEW n, n = 2
            PROVE  Without(l, t) = SubSeq(l, 1, n - 1) \o SubSeq(l, n + 1, Len(l))
        <4>1. n \in 1..Len(l) /\ l[n] = t /\ \A i \in 1..Len(l) : l[i] = t => i = n
          BY <2>2, <3>1
        <4>2. QED
          BY <4>1, WithoutOnly
      <3>2. QED
        BY <3>1
    <2>4. QED
      BY <2>1, <2>3 DEF l
  <1>6. QED
    BY <1>1, <1>2, <1>3, <1>4, <1>5, PartsOfPair

(* What a change of one state's lock leaves as it was.                      *)
LEMMA SetLock ==
  ASSUME NEW old \in Seq(CallStates), NEW s \in 1..Len(old), NEW lock \in Seq(Tasks)
  PROVE  /\ [old EXCEPT ![s].lock = lock] \in Seq(CallStates)
         /\ Len([old EXCEPT ![s].lock = lock]) = Len(old)
         /\ \A i \in 1..Len(old) :
              [old EXCEPT ![s].lock = lock][i] =
                IF i = s THEN [old[s] EXCEPT !.lock = lock] ELSE old[i]
  <1>1. old[s] \in CallStates
    BY ElementOfSeq
  <1>2. [old[s] EXCEPT !.lock = lock] \in CallStates
    BY <1>1 DEF CallStates
  <1>3. [old EXCEPT ![s].lock = lock] = [old EXCEPT ![s] = [old[s] EXCEPT !.lock = lock]]
    OBVIOUS
  <1>4. QED
    BY <1>2, <1>3, ExceptSeq

LEMMA SetLockFields ==
  ASSUME NEW state \in CallStates, NEW lock,
         NEW new, new = [state EXCEPT !.lock = lock]
  PROVE  /\ new.call = state.call /\ new.turns = state.turns
         /\ new.analysed = state.analysed /\ new.lock = lock
         /\ new.ended <=> state.ended
  BY DEF CallStates

(* A finaliser's first step: ...                                            *)
LEMMA ClaimFacts ==
  ASSUME Types, NEW t \in Tasks, NEW c \in CallIds, Claim(t, c)
  PROVE  /\ calls[c] \in Ids /\ ~states[calls[c]].ended
         /\ on' = [on EXCEPT ![t] = calls[c]]
         /\ states' \in Seq(CallStates) /\ Len(states') = Len(states)
         /\ \A i \in Ids :
                /\ states'[i].call = states[i].call
                /\ states'[i].turns = states[i].turns
                /\ i # calls[c] => states'[i] = states[i]
         /\ \/ /\ states[calls[c]].lock = <<>> /\ states'[calls[c]].lock = <<t>>
               /\ states'[calls[c]].ended
               /\ pc' = [pc EXCEPT ![t] = "summarising"]
            \/ /\ states[calls[c]].lock # <<>>
               /\ states'[calls[c]].lock = Append(states[calls[c]].lock, t)
               /\ ~states'[calls[c]].ended
               /\ pc' = [pc EXCEPT ![t] = "queued"]
  <1> DEFINE s == calls[c]
  <1>1. s \in Ids /\ ~states[s].ended /\ on' = [on EXCEPT ![t] = s]
    BY DEF Claim, Types, Ids
  <1>2. /\ states \in Seq(CallStates) /\ Ids = 1..Len(states) /\ states[s] \in CallStates
        /\ DOMAIN states = 1..Len(states) /\ Len(states) \in Nat
    BY <1>1, ElementOfSeq, LenProperties DEF Types, Ids
  <1>3. CASE states[s].lock = <<>>
    <2>1. /\ states' = [states EXCEPT ![s] = [states[s] EXCEPT !.lock = <<t>>, !.ended = TRUE]]
          /\ pc' = [pc EXCEPT ![t] = "summarising"]
      BY <1>3 DEF Claim, Goto
    <2>2. [states[s] EXCEPT !.lock = <<t>>, !.ended = TRUE] \in CallStates
      <3>1. <<t>> \in Seq(Tasks)
        OBVIOUS
      <3>2. QED
        BY <1>2, <3>1 DEF CallStates
    <2>3. states' \in Seq(CallStates) /\ Len(states') = Len(states)
      BY <1>1, <1>2, <2>1, <2>2, ExceptSeq
    <2>4. /\ states'[s] = [states[s] EXCEPT !.lock = <<t>>, !.ended = TRUE]
          /\ \A i \in Ids : i # s => states'[i] = states[i]
      BY <1>1, <1>2, <2>1
    <2>5. /\ states'[s].call = states[s].call /\ states'[s].turns = states[s].turns
          /\ states'[s].lock = <<t>> /\ states'[s].ended
      BY <1>2, <2>4 DEF CallStates
    <2>6. QED
      BY <1>1, <1>3, <2>1, <2>3, <2>4, <2>5
  <1>4. CASE states[s].lock # <<>>
    <2>1. /\ states' = [states EXCEPT ![s].lock = Append(states[s].lock, t)]
          /\ pc' = [pc EXCEPT ![t] = "queued"]
      BY <1>4 DEF Claim, Goto
    <2>2. Append(states[s].lock, t) \in Seq(Tasks)
      BY <1>2, AppendProperties DEF CallStates
    <2> DEFINE lock == Append(states[s].lock, t)
    <2> HIDE DEF lock
    <2>3. states' = [states EXCEPT ![s].lock = lock] /\ lock \in Seq(Tasks) /\ s \in 1..Len(states)
      BY <1>1, <1>2, <2>1, <2>2 DEF lock
    <2> HIDE DEF s
    <2>4. /\ states' \in Seq(CallStates) /\ Len(states') = Len(states)
          /\ \A i \in 1..Len(states) :
               states'[i] = IF i = s THEN [states[s] EXCEPT !.lock = lock] ELSE states[i]
      BY <1>2, <2>3, SetLock
    <2>5. /\ states'[s].call = states[s].call /\ states'[s].turns = states[s].turns
          /\ states'[s].lock = lock
          /\ states'[s].ended <=> states[s].ended
      BY <1>2, <2>3, <2>4, SetLockFields
    <2>6. \A i \in Ids : i # s => states'[i] = states[i]
      BY <1>2, <2>4
    <2>7. QED
      BY <1>1, <1>2, <1>4, <2>1, <2>4, <2>5, <2>6 DEF lock, s
  <1>5. QED
    BY <1>3, <1>4

(* ... and what every task does to the lock when it leaves a state.         *)
LEMMA LeaveFacts ==
  ASSUME Types, InHands, NEW t \in Tasks, Locking(t), NEW new, new = Leave(on[t], t)
  PROVE  /\ on[t] \in Ids
         /\ new \in Seq(CallStates) /\ Len(new) = Len(states)
         /\ \A i \in Ids :
                /\ new[i].call = states[i].call
                /\ new[i].turns = states[i].turns
                /\ (new[i].ended <=> states[i].ended)
                /\ i # on[t] => new[i] = states[i]
         /\ new[on[t]].lock = Without(states[on[t]].lock, t)
         /\ \A i \in Ids, u \in Tasks :
              u # t /\ Contains(states[i].lock, u) => Contains(new[i].lock, u)
  <1>1. on[t] \in 1..Len(states) /\ Contains(states[on[t]].lock, t)
    BY DEF InHands, Ids
  <1>2. states \in Seq(CallStates) /\ states[on[t]] \in CallStates
    BY <1>1, ElementOfSeq DEF Types
  <1>3. states[on[t]].lock \in Seq(Tasks)
    BY <1>2 DEF CallStates
  <1>4. /\ Without(states[on[t]].lock, t) \in Seq(Tasks)
        /\ \A u : u # t /\ Contains(states[on[t]].lock, u) =>
             Contains(Without(states[on[t]].lock, t), u)
    BY <1>1, <1>3, WithoutHas
  <1>5. new = [states EXCEPT ![on[t]].lock = Without(states[on[t]].lock, t)]
    BY DEF Leave
  <1> DEFINE lock == Without(states[on[t]].lock, t)
             s == on[t]
  <1>6. lock \in Seq(Tasks) /\ s \in 1..Len(states) /\ states[s] \in CallStates
        /\ new = [states EXCEPT ![s].lock = lock] /\ Ids = 1..Len(states)
    BY <1>1, <1>2, <1>4, <1>5 DEF Ids
  <1> HIDE DEF lock, s
  <1>7. /\ new \in Seq(CallStates) /\ Len(new) = Len(states)
        /\ \A i \in 1..Len(states) :
             new[i] = IF i = s THEN [states[s] EXCEPT !.lock = lock] ELSE states[i]
    BY <1>2, <1>6, SetLock
  <1>8. /\ new[s].call = states[s].call /\ new[s].turns = states[s].turns
        /\ new[s].lock = lock
        /\ new[s].ended <=> states[s].ended
    BY <1>6, <1>7, SetLockFields
  <1>9. \A i \in Ids : i # s => new[i] = states[i]
    BY <1>6, <1>7
  <1>10. s = on[t] /\ lock = Without(states[on[t]].lock, t)
    BY DEF s, lock
  <1>11. QED
    BY <1>4, <1>6, <1>7, <1>8, <1>9, <1>10

(* What the consumer does to the states when it admits a segment.           *)
LEMMA AdmitFacts ==
  ASSUME Types, Admit, topic[segment] \in CallIds
  PROVE  \E s \in 1..(Len(states) + 1) :
           /\ calls[topic[segment]] = IF s \in Ids THEN s ELSE 0
           /\ calls' = [calls EXCEPT ![topic[segment]] = s]
           /\ states' \in Seq(CallStates)
           /\ Len(states') = IF s \in Ids THEN Len(states) ELSE Len(states) + 1
           /\ \A i \in Ids : i # s => states'[i] = states[i]
           /\ s \in Ids => /\ states'[s].call = states[s].call
                           /\ states'[s].turns = Append(states[s].turns, segment)
                           /\ (states'[s].ended <=> states[s].ended)
           /\ s \notin Ids => /\ states'[s].call = topic[segment]
                              /\ states'[s].turns = Append(<<>>, segment)
                              /\ ~states'[s].ended
           /\ LET lock == IF s \in Ids THEN states[s].lock ELSE <<>> IN
              \/ /\ pc' \in {[pc EXCEPT !["Consumer"] = "live_queued"],
                             [pc EXCEPT !["Consumer"] = "analysing"]}
                 /\ on' = [on EXCEPT !["Consumer"] = s]
                 /\ states'[s].lock = Append(lock, "Consumer")
              \/ /\ pc' = [pc EXCEPT !["Consumer"] = "idle"]
                 /\ on' = [on EXCEPT !["Consumer"] = 0]
                 /\ states'[s].lock = lock
           /\ s \in Ids /\ states[s].lock # <<>> =>
                pc' = [pc EXCEPT !["Consumer"] = "live_queued"]
  <1> DEFINE c == topic[segment]
             s == IF calls[c] # 0 THEN calls[c] ELSE Len(states) + 1
             fresh == [call |-> c, turns |-> <<>>, analysed |-> 0, ended |-> FALSE,
                       lock |-> <<>>]
             known == IF calls[c] # 0 THEN states ELSE Append(states, fresh)
             added == [known EXCEPT ![s].turns = Append(@, segment)]
             busy == added[s].lock # <<>>
             due == ShouldAnalyse(added[s])
  <1>1. /\ calls' = [calls EXCEPT ![c] = s]
        /\ states' = IF busy \/ due
                     THEN [added EXCEPT ![s].lock = Append(@, "Consumer")] ELSE added
        /\ on' = [on EXCEPT !["Consumer"] = IF busy \/ due THEN s ELSE 0]
        /\ pc' = [pc EXCEPT !["Consumer"] = IF busy THEN "live_queued"
                                            ELSE IF due THEN "analysing" ELSE "idle"]
    BY DEF Admit, Goto
  <1>2. /\ Len(states) \in Nat /\ states \in Seq(CallStates) /\ Ids = 1..Len(states)
        /\ calls[c] \in 0..Len(states) /\ segment \in Nat
    BY LenProperties DEF Types, Ids
  <1>3. fresh \in CallStates
    BY DEF CallStates
  <1> HIDE DEF c, fresh
  <1>4. /\ s \in 1..(Len(states) + 1) /\ calls[c] = IF s \in Ids THEN s ELSE 0
        /\ s \in Ids <=> calls[c] # 0
    BY <1>2
  <1>5. /\ known \in Seq(CallStates)
        /\ Len(known) = IF s \in Ids THEN Len(states) ELSE Len(states) + 1
        /\ known[s] = IF s \in Ids THEN states[s] ELSE fresh
        /\ \A i \in Ids : known[i] = states[i]
    <2>1. CASE calls[c] # 0
      BY <1>2, <2>1
    <2>2. CASE calls[c] = 0
      <3>1. /\ Append(states, fresh) \in Seq(CallStates)
            /\ Len(Append(states, fresh)) = Len(states) + 1
            /\ \A i \in 1..Len(states) : Append(states, fresh)[i] = states[i]
            /\ Append(states, fresh)[Len(states) + 1] = fresh
        BY <1>2, <1>3, AppendProperties
      <3>2. s = Len(states) + 1 /\ s \notin Ids /\ known = Append(states, fresh)
        BY <1>2, <2>2
      <3>3. QED
        BY <1>2, <3>1, <3>2
    <2>3. QED
      BY <2>1, <2>2
  <1> HIDE DEF s, known
  <1>6. /\ known[s] \in CallStates /\ s \in 1..Len(known) /\ DOMAIN known = 1..Len(known)
    <2>1. s \in 1..Len(known)
      BY <1>2, <1>4, <1>5
    <2>2. QED
      BY <1>5, <2>1, ElementOfSeq, LenProperties
  <1> DEFINE one == [known[s] EXCEPT !.turns = Append(@, segment)]
             both == [one EXCEPT !.lock = Append(@, "Consumer")]
  <1>7. /\ one \in CallStates
        /\ one.call = known[s].call /\ one.turns = Append(known[s].turns, segment)
        /\ one.lock = known[s].lock
        /\ one.ended <=> known[s].ended
    <2>1. Append(known[s].turns, segment) \in Seq(Nat)
      BY <1>2, <1>6, AppendProperties DEF CallStates
    <2>2. QED
      BY <1>6, <2>1 DEF CallStates
  <1>8. /\ both \in CallStates
        /\ both.call = one.call /\ both.turns = one.turns
        /\ both.lock = Append(known[s].lock, "Consumer")
        /\ both.ended <=> one.ended
    <2> HIDE DEF one
    <2>1. Append(one.lock, "Consumer") \in Seq(Tasks)
      BY <1>7, AppendProperties DEF CallStates, Tasks
    <2>2. QED
      BY <1>7, <2>1 DEF CallStates
  <1>9. added = [known EXCEPT ![s] = one]
    OBVIOUS
  <1> HIDE DEF one
  <1>10. /\ added \in Seq(CallStates) /\ Len(added) = Len(known) /\ added[s] = one
         /\ \A i \in 1..Len(known) : i # s => added[i] = known[i]
    <2>1. /\ [known EXCEPT ![s] = one] \in Seq(CallStates)
          /\ Len([known EXCEPT ![s] = one]) = Len(known)
          /\ \A i \in 1..Len(known) :
               [known EXCEPT ![s] = one][i] = IF i = s THEN one ELSE known[i]
      BY <1>5, <1>6, <1>7, ExceptSeq
    <2>2. QED
      BY <1>6, <1>9, <2>1
  <1> HIDE DEF added
  <1>11. [added EXCEPT ![s].lock = Append(@, "Consumer")] = [added EXCEPT ![s] = both]
    BY <1>10
  <1> HIDE DEF both
  <1> DEFINE last == IF busy \/ due THEN both ELSE one
  <1>12. /\ states' \in Seq(CallStates) /\ Len(states') = Len(known)
         /\ states'[s] = last
         /\ \A i \in 1..Len(known) : i # s => states'[i] = known[i]
    <2>1. s \in 1..Len(added)
      BY <1>6, <1>10
    <2>2. /\ [added EXCEPT ![s] = both] \in Seq(CallStates)
          /\ Len([added EXCEPT ![s] = both]) = Len(known)
          /\ \A i \in 1..Len(known) :
               [added EXCEPT ![s] = both][i] = IF i = s THEN both ELSE added[i]
      BY <1>8, <1>10, <2>1, ExceptSeq
    <2>3. QED
      BY <1>1, <1>6, <1>10, <1>11, <2>2
  <1>13. /\ last.call = known[s].call /\ last.turns = Append(known[s].turns, segment)
         /\ last.ended <=> known[s].ended
         /\ last.lock = IF busy \/ due THEN Append(known[s].lock, "Consumer")
                                       ELSE known[s].lock
    BY <1>7, <1>8
  <1> HIDE DEF last
  <1>14. /\ Len(states') = IF s \in Ids THEN Len(states) ELSE Len(states) + 1
         /\ \A i \in Ids : i # s => states'[i] = states[i]
    BY <1>2, <1>5, <1>12
  <1>15. s \in Ids => /\ states'[s].call = states[s].call
                      /\ states'[s].turns = Append(states[s].turns, segment)
                      /\ (states'[s].ended <=> states[s].ended)
    BY <1>5, <1>12, <1>13
  <1>16. s \notin Ids => /\ states'[s].call = c
                         /\ states'[s].turns = Append(<<>>, segment)
                         /\ ~states'[s].ended
    BY <1>5, <1>12, <1>13 DEF fresh
  <1>17. known[s].lock = IF s \in Ids THEN states[s].lock ELSE <<>>
    BY <1>5 DEF fresh
  <1>18. \/ /\ pc' \in {[pc EXCEPT !["Consumer"] = "live_queued"],
                        [pc EXCEPT !["Consumer"] = "analysing"]}
            /\ on' = [on EXCEPT !["Consumer"] = s]
            /\ states'[s].lock = Append(known[s].lock, "Consumer")
         \/ /\ pc' = [pc EXCEPT !["Consumer"] = "idle"]
            /\ on' = [on EXCEPT !["Consumer"] = 0]
            /\ states'[s].lock = known[s].lock
    <2> HIDE DEF busy, due
    <2>1. QED
      BY <1>1, <1>12, <1>13
  <1>19. s \in Ids /\ states[s].lock # <<>> => pc' = [pc EXCEPT !["Consumer"] = "live_queued"]
    BY <1>1, <1>7, <1>10, <1>17
  <1>20. QED
    <2> s \in 1..(Len(states) + 1)
      BY <1>4
    <2> WITNESS s \in 1..(Len(states) + 1)
    <2>1. QED
      BY <1>1, <1>4, <1>12, <1>14, <1>15, <1>16, <1>17, <1>18, <1>19 DEF c

-----------------------------------------------------------------------------
(* The steps, by what they do to the states and their locks.                *)

(* A step that touches no state and no task that works on one.              *)
QuietStep ==
  \/ SkipRecord \/ Sweep \/ Stop \/ Rebalance \/ ConsumerEnds
  \/ \E c \in CallIds : TakeFinal(c) /\ pc'["Consumer"] = "admitting"
  \/ \E t \in {"Sweeper", "Main"} : EndOfList(t) \/ \E c \in CallIds : PassOver(t, c)

(* A finaliser turns to a state.                                            *)
ClaimStep(t, c) ==
  /\ Claim(t, c)
  /\ \/ t \in {"Sweeper", "Main"} /\ FinaliseNext(t, c)
     \/ t = "Consumer" /\ \E d \in CallIds : TakeFinal(d)

(* A task goes on working on its state.                                     *)
WorkStep(t) ==
  \/ Acquire(t) \/ Summarise(t)
  \/ t = "Consumer" /\ (LiveAcquire \/ Analyse) /\ pc'["Consumer"] # "idle"

(* A finaliser has settled its state and forgets the call.                  *)
SettleStep(t) == NoSummary(t) \/ Report(t)

(* The consumer is through with its analysis.                               *)
FreeStep == Send \/ ((LiveAcquire \/ Analyse) /\ pc'["Consumer"] = "idle")

(* An error or a cancellation ends a task.                                  *)
QuitStep(t) ==
  \/ SummariseRaises(t) \/ ReportFails(t) \/ Cancelled(t)
  \/ t = "Consumer" /\ (SendFails \/ AnalyseRaises)

LEMMA Names ==
  /\ Tasks = {"Consumer", "Sweeper", "Main"}
  /\ "Consumer" \in Tasks /\ "Sweeper" \in Tasks /\ "Main" \in Tasks
  /\ 0 \notin Ids
  BY DEF Tasks, Ids

LEMMA StepKinds ==
  ASSUME Types, Next
  PROVE  \/ QuietStep \/ Admit \/ FreeStep
         \/ \E t \in Tasks : \/ \E c \in CallIds : ClaimStep(t, c)
                             \/ WorkStep(t) \/ SettleStep(t) \/ QuitStep(t)
  <1>1. CASE \E t \in Tasks : Step(t)
    BY <1>1 DEF Step, Finalise, WorkStep, SettleStep, QuitStep
  <1>2. CASE \E t \in {"Sweeper", "Main"} : GoThrough(t)
    BY <1>2, Names DEF GoThrough, QuietStep, ClaimStep, FinaliseNext
  <1>3. CASE Consume
    <2>1. ASSUME NEW c \in CallIds, TakeFinal(c)
          PROVE  QuietStep \/ \E o \in CallIds : ClaimStep("Consumer", o)
      <3>1. CASE Goto("Consumer", "admitting")
        BY <2>1, <3>1, Names DEF QuietStep, Goto, Types
      <3>2. CASE \E o \in Tracked : Claim("Consumer", o)
        BY <2>1, <3>2 DEF ClaimStep, Tracked
      <3>3. QED
        BY <2>1, <3>1, <3>2 DEF TakeFinal
    <2>2. LiveAcquire \/ Analyse => WorkStep("Consumer") \/ FreeStep
      BY DEF WorkStep, FreeStep
    <2>3. QED
      BY <1>3, <2>1, <2>2, Names DEF Consume, QuietStep, FreeStep, QuitStep
  <1>4. CASE Sweep \/ Stop \/ Rebalance
    BY <1>4 DEF QuietStep
  <1>5. QED
    BY <1>1, <1>2, <1>3, <1>4 DEF Next

LEMMA QuietFacts ==
  ASSUME Types, Roles, MainIsLast, QuietStep
  PROVE  /\ UNCHANGED <<topic, states, calls, on, read, insights, postFailed, abandoned>>
         /\ pc' \in [Tasks -> Awaits] /\ cancelled' \subseteq Tasks
         /\ position' \in 0..Len(topic) /\ segment' \in 0..Len(topic)
         /\ committed' \in 0..Len(topic)
         /\ \A t \in Tasks : pc'[t] = pc[t] \/ (~Locking(t) /\ ~Locking(t)')
         /\ Roles' /\ MainIsLast'
         /\ pc'["Main"] = "idle" => pc["Main"] = "idle"
         /\ pc["Sweeper"] = "done" => pc'["Sweeper"] = "done"
  <1>1. Len(topic) \in Nat
    BY LenProperties DEF Types
  <1>2. CASE SkipRecord
    BY <1>1, <1>2 DEF SkipRecord, kafkaVars, taskVars, Types, Roles, MainIsLast, Watching
  <1>3. CASE Sweep
    <2>1. /\ pc' = [pc EXCEPT !["Sweeper"] = "iterating"] /\ pc["Sweeper"] = "idle"
          /\ UNCHANGED <<topic, committed, position, segment, states, calls, on, read, cancelled,
                         insights, postFailed, abandoned>>
      BY <1>3 DEF Sweep, At, Goto, kafkaVars
    <2>2. /\ pc'["Sweeper"] = "iterating" /\ pc'["Main"] = pc["Main"]
          /\ pc'["Consumer"] = pc["Consumer"] /\ pc' \in [Tasks -> Awaits]
      BY <2>1, Names DEF Types, Awaits
    <2>3. QED
      BY <2>1, <2>2, Names DEF Types, Roles, MainIsLast, Watching, Locking, Finishing
  <1>4. CASE Stop
    <2>1. /\ pc' = [pc EXCEPT !["Main"] = "iterating"] /\ pc["Main"] = "idle"
          /\ UNCHANGED <<topic, committed, position, segment, states, calls, on, read, insights,
                         postFailed, abandoned>>
          /\ cancelled' = IF pc["Consumer"] \in {"unwinding", "done"} THEN cancelled
                          ELSE cancelled \cup {"Consumer"}
      BY <1>4 DEF Stop, Goto, kafkaVars
    <2>2. /\ pc'["Main"] = "iterating" /\ pc'["Sweeper"] = pc["Sweeper"]
          /\ pc'["Consumer"] = pc["Consumer"] /\ pc' \in [Tasks -> Awaits]
      BY <2>1, Names DEF Types, Awaits
    <2>3. QED
      BY <2>1, <2>2, Names DEF Types, Roles, MainIsLast, Watching, Locking, Finishing
  <1>5. CASE Rebalance
    BY <1>1, <1>5 DEF Rebalance, taskVars, Types, Roles, MainIsLast, Watching
  <1>6. CASE ConsumerEnds
    <2>1. /\ pc' = [pc EXCEPT !["Consumer"] = "done"] /\ pc["Consumer"] = "unwinding"
          /\ UNCHANGED <<topic, committed, position, segment, states, calls, on, read, cancelled,
                         insights, postFailed, abandoned>>
      BY <1>6 DEF ConsumerEnds, Goto, kafkaVars
    <2>2. /\ pc'["Main"] = pc["Main"] /\ pc'["Sweeper"] = pc["Sweeper"]
          /\ pc'["Consumer"] = "done" /\ pc' \in [Tasks -> Awaits]
      BY <2>1, Names DEF Types, Awaits
    <2>3. QED
      BY <2>1, <2>2, Names DEF Types, Roles, MainIsLast, Watching, Locking, Finishing
  <1>7. CASE \E c \in CallIds : TakeFinal(c) /\ pc'["Consumer"] = "admitting"
    <2>1. /\ pc["Consumer"] = "idle" /\ "Consumer" \notin cancelled /\ position < Len(topic)
          /\ position' = position + 1 /\ segment' = position + 1
          /\ UNCHANGED <<topic, committed, calls, read, cancelled, insights, postFailed,
                         abandoned>>
      BY <1>7 DEF TakeFinal, At, kafkaVars
    <2>2. /\ pc' = [pc EXCEPT !["Consumer"] = "admitting"] /\ UNCHANGED <<states, on>>
      <3>1. ASSUME NEW o, Claim("Consumer", o) PROVE pc'["Consumer"] # "admitting"
        BY <3>1, Names DEF Claim, Goto, Types
      <3>2. QED
        BY <1>7, <3>1 DEF TakeFinal, Goto
    <2>3. /\ pc'["Main"] = pc["Main"] /\ pc'["Sweeper"] = pc["Sweeper"]
          /\ pc'["Consumer"] = "admitting" /\ pc' \in [Tasks -> Awaits]
      BY <2>2, Names DEF Types, Awaits
    <2>4. position' \in 0..Len(topic) /\ segment' \in 0..Len(topic)
      BY <1>1, <2>1 DEF Types
    <2>5. QED
      BY <2>1, <2>2, <2>3, <2>4, Names DEF Types, Roles, MainIsLast, Watching, Locking, Finishing
  <1>8. ASSUME NEW t \in {"Sweeper", "Main"}, EndOfList(t) \/ \E c \in CallIds : PassOver(t, c)
        PROVE  /\ pc[t] = "iterating"
               /\ pc' \in {pc, [pc EXCEPT ![t] = IF t = "Main" THEN "done" ELSE "idle"]}
               /\ UNCHANGED <<topic, committed, position, segment, states, calls, on, read,
                              cancelled, insights, postFailed, abandoned>>
    BY <1>8 DEF EndOfList, PassOver, Visiting, At, Goto, kafkaVars
  <1>9. CASE \E t \in {"Sweeper", "Main"} : EndOfList(t) \/ \E c \in CallIds : PassOver(t, c)
    <2>1. PICK t \in {"Sweeper", "Main"} :
            EndOfList(t) \/ \E c \in CallIds : PassOver(t, c)
      BY <1>9
    <2>2. /\ pc'["Consumer"] = pc["Consumer"] /\ pc' \in [Tasks -> Awaits]
          /\ \A u \in Tasks : u # t => pc'[u] = pc[u]
          /\ pc'[t] \in {"iterating", "done", "idle"} /\ pc[t] = "iterating"
          /\ t = "Main" => pc'[t] # "idle"
      BY <1>8, <2>1, Names DEF Types, Awaits
    <2>3. UNCHANGED <<topic, committed, position, segment, states, calls, on, read,
                      cancelled, insights, postFailed, abandoned>>
      BY <1>8, <2>1
    <2>4. QED
      BY <2>1, <2>2, <2>3, Names DEF Types, Roles, MainIsLast, Watching, Locking, Finishing
  <1>10. QED
    BY <1>2, <1>3, <1>4, <1>5, <1>6, <1>7, <1>9 DEF QuietStep

LEMMA QuietBase ==
  ASSUME Base, QuietStep
  PROVE  Base'
  <1>1. /\ UNCHANGED <<topic, states, calls, on, read, insights>>
        /\ pc' \in [Tasks -> Awaits] /\ cancelled' \subseteq Tasks
        /\ position' \in 0..Len(topic) /\ segment' \in 0..Len(topic)
        /\ committed' \in 0..Len(topic)
        /\ \A t \in Tasks : pc'[t] = pc[t] \/ (~Locking(t) /\ ~Locking(t)')
        /\ Roles' /\ MainIsLast'
    BY QuietFacts DEF Base
  <1>2. Types'
    BY <1>1 DEF Base, Types
  <1>3. InHands'
    BY <1>1 DEF Base, InHands, Locking, Finishing, Watching, Ids
  <1>4. CallsMatch'
    BY <1>1 DEF Base, CallsMatch
  <1>5. QED
    BY <1>1, <1>2, <1>3, <1>4 DEF Base

(* What a claim leaves alone.                                               *)
LEMMA ClaimFrame ==
  ASSUME Types, NEW t \in Tasks, NEW c \in CallIds, ClaimStep(t, c)
  PROVE  /\ UNCHANGED <<topic, calls, read, cancelled, insights, postFailed, abandoned>>
         /\ position' \in 0..Len(topic) /\ segment' \in 0..Len(topic)
         /\ committed' \in 0..Len(topic)
         /\ t \notin cancelled
         /\ IF t = "Consumer"
            THEN /\ pc[t] = "idle" /\ position' = position + 1 /\ segment' = position'
                 /\ segment' \in 1..Len(topic) /\ topic[segment'] \in CallIds
            ELSE pc[t] = "iterating" /\ position' = position /\ segment' = segment
  <1>1. Len(topic) \in Nat
    BY LenProperties DEF Types
  <1>2. CASE t \in {"Sweeper", "Main"} /\ FinaliseNext(t, c)
    BY <1>2 DEF FinaliseNext, Visiting, At, kafkaVars, Types
  <1>3. CASE t = "Consumer" /\ \E d \in CallIds : TakeFinal(d)
    <2>1. PICK d \in CallIds : TakeFinal(d)
      BY <1>3
    <2>2. /\ pc["Consumer"] = "idle" /\ "Consumer" \notin cancelled /\ position < Len(topic)
          /\ topic[position + 1] = d /\ position' = position + 1 /\ segment' = position + 1
          /\ UNCHANGED <<topic, committed, calls, read, cancelled, insights, postFailed,
                         abandoned>>
      BY <2>1 DEF TakeFinal, FinalFor, At, kafkaVars
    <2>3. QED
      BY <1>1, <1>3, <2>2 DEF Types
  <1>4. QED
    BY <1>2, <1>3 DEF ClaimStep

LEMMA ClaimBase ==
  ASSUME Base, NEW t \in Tasks, NEW c \in CallIds, ClaimStep(t, c)
  PROVE  Base'
  <1> DEFINE s == calls[c]
  <1>1. /\ s \in Ids
        /\ on' = [on EXCEPT ![t] = s]
        /\ states' \in Seq(CallStates) /\ Len(states') = Len(states)
        /\ \A i \in Ids : states'[i].call = states[i].call /\ (i # s => states'[i] = states[i])
        /\ \/ states[s].lock = <<>> /\ states'[s].lock = <<t>>
           \/ states'[s].lock = Append(states[s].lock, t)
        /\ pc' \in {[pc EXCEPT ![t] = "summarising"], [pc EXCEPT ![t] = "queued"]}
    BY ClaimFacts DEF Base, ClaimStep
  <1>2. /\ UNCHANGED <<topic, calls, read, cancelled, insights>>
        /\ position' \in 0..Len(topic) /\ segment' \in 0..Len(topic)
        /\ committed' \in 0..Len(topic) /\ t \notin cancelled
        /\ pc[t] \in {"idle", "iterating"} /\ (pc[t] = "idle" => t = "Consumer")
    BY ClaimFrame DEF Base
  <1>3. states[s].lock \in Seq(Tasks)
    <2>1. states \in Seq(CallStates) /\ s \in 1..Len(states)
      BY <1>1 DEF Base, Types, Ids
    <2> HIDE DEF s
    <2>2. states[s] \in CallStates
      BY <2>1, ElementOfSeq
    <2>3. QED
      BY <2>2 DEF CallStates
  <1> HIDE DEF s
  <1>4. /\ pc' \in [Tasks -> Awaits] /\ pc'[t] \in {"summarising", "queued"}
        /\ \A u \in Tasks : u # t => pc'[u] = pc[u]
    BY <1>1 DEF Base, Types, Awaits
  <1>5. on' \in [Tasks -> 0..Len(states)] /\ on'[t] = s /\ \A u \in Tasks : u # t => on'[u] = on[u]
    BY <1>1 DEF Base, Types, Ids
  <1>6. Types'
    BY <1>1, <1>2, <1>4, <1>5 DEF Base, Types
  <1>7. Roles'
    BY <1>2, <1>4, Names DEF Base, Roles, Watching
  <1>8. Contains(states'[s].lock, t) /\ \A u : Contains(states[s].lock, u) => Contains(states'[s].lock, u)
    <2>1. CASE states[s].lock = <<>> /\ states'[s].lock = <<t>>
      BY <2>1 DEF Contains
    <2>2. CASE states'[s].lock = Append(states[s].lock, t)
      <3>1. /\ Len(Append(states[s].lock, t)) = Len(states[s].lock) + 1
            /\ Len(states[s].lock) \in Nat
            /\ \A i \in 1..Len(states[s].lock) : Append(states[s].lock, t)[i] = states[s].lock[i]
            /\ Append(states[s].lock, t)[Len(states[s].lock) + 1] = t
        BY <1>3, AppendProperties, LenProperties
      <3>2. QED
        BY <2>2, <3>1 DEF Contains
    <2>3. QED
      BY <1>1, <2>1, <2>2
  <1>9. InHands'
    <2> SUFFICES ASSUME NEW u \in Tasks
                 PROVE  IF Locking(u)' THEN on'[u] \in Ids' /\ Contains(states'[on'[u]].lock, u)
                        ELSE on'[u] = 0
      BY DEF InHands
    <2>1. Ids' = Ids
      BY <1>1 DEF Ids
    <2>2. CASE u = t
      BY <1>1, <1>4, <1>5, <1>8, <2>1, <2>2 DEF Locking, Finishing
    <2>3. CASE u # t
      <3>1. pc'[u] = pc[u] /\ on'[u] = on[u]
        BY <1>4, <1>5, <2>3
      <3>2. Locking(u)' <=> Locking(u)
        BY <3>1 DEF Locking, Finishing, Watching
      <3>3. QED
        BY <1>1, <1>8, <2>1, <3>1, <3>2 DEF Base, InHands
    <2>4. QED
      BY <2>2, <2>3
  <1>10. CallsMatch'
    BY <1>1, <1>2 DEF Base, CallsMatch, Types, Ids
  <1>11. MainIsLast'
    BY <1>2, <1>4, Names DEF Base, MainIsLast
  <1>12. QED
    BY <1>6, <1>7, <1>9, <1>10, <1>11 DEF Base

(* Going on: locks, calls and hands stay as they are.                       *)
LEMMA WorkFacts ==
  ASSUME Base, NEW t \in Tasks, WorkStep(t)
  PROVE  /\ UNCHANGED <<topic, position, segment, committed, calls, on, cancelled, insights,
                        postFailed, abandoned>>
         /\ t \notin cancelled /\ Locking(t)
         /\ states' \in Seq(CallStates) /\ Len(states') = Len(states)
         /\ \A i \in Ids :
              /\ states'[i].call = states[i].call /\ states'[i].turns = states[i].turns
              /\ states'[i].lock = states[i].lock
              /\ states[i].ended => states'[i].ended
              /\ states'[i].ended => states[i].ended \/ (Finishing(t) /\ i = on[t])
         /\ Finalising(t)' => states'[on[t]].ended \/ Finalising(t)
         /\ read' \in [Tasks -> Nat]
         /\ \E w \in Awaits :
              /\ pc' = [pc EXCEPT ![t] = w]
              /\ \/ /\ pc[t] = "queued" /\ w = "summarising" /\ Head(states[on[t]].lock) = t
                 \/ pc[t] = "summarising" /\ w = "reporting"
                 \/ /\ t = "Consumer" /\ Watching(t)
                    /\ w \in {"live_queued", "analysing", "sending"}
  <1>1. /\ Len(states) \in Nat /\ states \in Seq(CallStates) /\ Ids = 1..Len(states)
        /\ \A i \in Ids : states[i] \in CallStates
    BY LenProperties, ElementOfSeq DEF Base, Types, Ids
  <1>2. Locking(t) => on[t] \in Ids /\ states[on[t]] \in CallStates
    BY <1>1 DEF Base, InHands
  <1>3. CASE Acquire(t)
    <2>1. /\ pc[t] = "queued" /\ t \notin cancelled /\ states[on[t]].lock[1] = t
          /\ states' = [states EXCEPT ![on[t]].ended = TRUE]
          /\ pc' = [pc EXCEPT ![t] = "summarising"]
          /\ UNCHANGED <<topic, position, segment, committed, calls, on, read, cancelled, insights,
                         postFailed, abandoned>>
      BY <1>3 DEF Acquire, At, HasLock, Goto, kafkaVars
    <2>2. Locking(t) /\ Finishing(t)
      BY <2>1 DEF Locking, Finishing
    <2> DEFINE s == on[t]
               new == [states[s] EXCEPT !.ended = TRUE]
    <2>3. s \in 1..Len(states) /\ new \in CallStates
      BY <1>1, <1>2, <2>2 DEF CallStates
    <2>4. /\ new.call = states[s].call /\ new.turns = states[s].turns
          /\ new.lock = states[s].lock /\ new.ended
      BY <1>2, <2>2 DEF CallStates
    <2>5. states' = [states EXCEPT ![s] = new]
      BY <2>1
    <2> HIDE DEF new, s
    <2>6. /\ states' \in Seq(CallStates) /\ Len(states') = Len(states) /\ states'[s] = new
          /\ \A i \in Ids : i # s => states'[i] = states[i]
      <3>1. /\ [states EXCEPT ![s] = new] \in Seq(CallStates)
            /\ Len([states EXCEPT ![s] = new]) = Len(states)
            /\ \A i \in 1..Len(states) :
                 [states EXCEPT ![s] = new][i] = IF i = s THEN new ELSE states[i]
        BY <1>1, <2>3, ExceptSeq
      <3>2. QED
        BY <1>1, <2>3, <2>5, <3>1
    <2>7. s = on[t]
      BY DEF s
    <2>8. Head(states[on[t]].lock) = t
      <3>1. states[on[t]].lock \in Seq(Tasks) /\ Contains(states[on[t]].lock, t)
        BY <1>2, <2>2 DEF CallStates, Base, InHands
      <3>2. states[on[t]].lock # <<>>
        BY <3>1 DEF Contains
      <3>3. QED
        BY <2>1, <3>1, <3>2
    <2>9. \A i \in Ids :
            /\ states'[i].call = states[i].call /\ states'[i].turns = states[i].turns
            /\ states'[i].lock = states[i].lock
            /\ states[i].ended => states'[i].ended
            /\ states'[i].ended => states[i].ended \/ i = on[t]
      <3> SUFFICES ASSUME NEW i \in Ids
                   PROVE  /\ states'[i].call = states[i].call
                          /\ states'[i].turns = states[i].turns
                          /\ states'[i].lock = states[i].lock
                          /\ states[i].ended => states'[i].ended
                          /\ states'[i].ended => states[i].ended \/ i = on[t]
        OBVIOUS
      <3>1. CASE i = s
        BY <2>4, <2>6, <2>7, <3>1
      <3>2. CASE i # s
        BY <2>6, <3>2
      <3>3. QED
        BY <3>1, <3>2
    <2>10. states'[on[t]].ended
      BY <2>4, <2>6, <2>7
    <2>11. read' \in [Tasks -> Nat] /\ "summarising" \in Awaits
      BY <2>1 DEF Base, Types, Awaits
    <2>12. QED
      BY <2>1, <2>2, <2>6, <2>8, <2>9, <2>10, <2>11
  <1>4. CASE Summarise(t)
    <2>1. /\ pc[t] = "summarising" /\ cancelled = {}
          /\ read' = [read EXCEPT ![t] = Len(states[on[t]].turns)]
          /\ pc' = [pc EXCEPT ![t] = "reporting"]
          /\ UNCHANGED <<topic, position, segment, committed, states, calls, on, cancelled,
                         insights, postFailed, abandoned>>
      BY <1>4 DEF Summarise, Back, Goto, kafkaVars
    <2>2. Locking(t) /\ Finishing(t) /\ Finalising(t)
      BY <2>1 DEF Locking, Finishing, Finalising
    <2>3. read' \in [Tasks -> Nat] /\ "reporting" \in Awaits
      <3>1. Len(states[on[t]].turns) \in Nat
        BY <1>2, <2>2, LenProperties DEF CallStates
      <3>2. QED
        BY <2>1, <3>1 DEF Base, Types, Awaits
    <2>4. QED
      BY <1>1, <2>1, <2>2, <2>3
  <1>5. CASE t = "Consumer" /\ (LiveAcquire \/ Analyse) /\ pc'["Consumer"] # "idle"
    <2>1. /\ UNCHANGED <<topic, position, segment, committed, calls, cancelled, insights,
                         postFailed, abandoned>>
          /\ t \notin cancelled /\ pc[t] \in {"live_queued", "analysing"}
      BY <1>5 DEF LiveAcquire, Analyse, At, Back, kafkaVars
    <2>2. Locking(t) /\ Watching(t) /\ ~Finalising(t)
      BY <2>1 DEF Locking, Watching, Finalising
    <2>3. pc["Consumer"] \in Awaits /\ \A w : [pc EXCEPT !["Consumer"] = w]["Consumer"] = w
      BY Names DEF Base, Types
    <2>4. CASE LiveAcquire
      <3>1. /\ pc' = [pc EXCEPT !["Consumer"] = "analysing"] /\ UNCHANGED <<states, on, read>>
        BY <1>5, <2>3, <2>4 DEF LiveAcquire, ReleaseIdle, Goto
      <3>2. ~Finalising(t)' /\ "analysing" \in Awaits /\ read' \in [Tasks -> Nat]
        BY <1>5, <2>3, <3>1 DEF Finalising, Awaits, Base, Types
      <3>3. QED
        BY <1>1, <1>5, <2>1, <2>2, <3>1, <3>2
    <2>5. CASE Analyse
      <3> DEFINE s == on["Consumer"]
                 new == [states[s] EXCEPT !.analysed = Len(states[s].turns)]
      <3>1. /\ states' = [states EXCEPT ![s] = new]
            /\ pc' = [pc EXCEPT !["Consumer"] = "sending"] /\ UNCHANGED on
            /\ read' = [read EXCEPT !["Consumer"] = states[s].analysed]
        BY <1>5, <2>3, <2>5 DEF Analyse, Goto
      <3>2. s \in 1..Len(states) /\ states[s] \in CallStates
        BY <1>1, <1>2, <1>5, <2>2
      <3>3. Len(states[s].turns) \in Nat /\ states[s].analysed \in Nat
        BY <3>2, LenProperties DEF CallStates
      <3>4. /\ new \in CallStates /\ new.call = states[s].call /\ new.turns = states[s].turns
            /\ new.lock = states[s].lock /\ (new.ended <=> states[s].ended)
        BY <3>2, <3>3 DEF CallStates
      <3> HIDE DEF new, s
      <3>5. /\ states' \in Seq(CallStates) /\ Len(states') = Len(states) /\ states'[s] = new
            /\ \A i \in Ids : i # s => states'[i] = states[i]
        <4>1. /\ [states EXCEPT ![s] = new] \in Seq(CallStates)
              /\ Len([states EXCEPT ![s] = new]) = Len(states)
              /\ \A i \in 1..Len(states) :
                   [states EXCEPT ![s] = new][i] = IF i = s THEN new ELSE states[i]
          BY <1>1, <3>2, <3>4, ExceptSeq
        <4>2. QED
          BY <1>1, <3>1, <3>2, <4>1
      <3>6. \A i \in Ids :
              /\ states'[i].call = states[i].call /\ states'[i].turns = states[i].turns
              /\ states'[i].lock = states[i].lock
              /\ states[i].ended => states'[i].ended
              /\ states'[i].ended => states[i].ended
        <4> SUFFICES ASSUME NEW i \in Ids
                     PROVE  /\ states'[i].call = states[i].call
                            /\ states'[i].turns = states[i].turns
                            /\ states'[i].lock = states[i].lock
                            /\ states[i].ended => states'[i].ended
                            /\ states'[i].ended => states[i].ended
          OBVIOUS
        <4>1. CASE i = s
          BY <3>4, <3>5, <4>1
        <4>2. CASE i # s
          BY <3>5, <4>2
        <4>3. QED
          BY <4>1, <4>2
      <3>7. ~Finalising(t)' /\ "sending" \in Awaits /\ read' \in [Tasks -> Nat]
        BY <1>5, <2>3, <3>1, <3>3 DEF Finalising, Awaits, Base, Types
      <3>8. QED
        BY <1>5, <2>1, <2>2, <3>1, <3>5, <3>6, <3>7
    <2>6. QED
      BY <1>5, <2>4, <2>5
  <1>6. QED
    BY <1>3, <1>4, <1>5 DEF WorkStep

LEMMA WorkBase ==
  ASSUME Base, NEW t \in Tasks, WorkStep(t)
  PROVE  Base'
  <1>1. /\ UNCHANGED <<topic, position, segment, committed, calls, on, cancelled, insights>>
        /\ t \notin cancelled /\ Locking(t)
        /\ states' \in Seq(CallStates) /\ Len(states') = Len(states)
        /\ \A i \in Ids : states'[i].call = states[i].call /\ states'[i].lock = states[i].lock
        /\ read' \in [Tasks -> Nat]
    BY WorkFacts
  <1>2. PICK w \in Awaits :
          /\ pc' = [pc EXCEPT ![t] = w]
          /\ \/ w \in {"summarising", "reporting"}
             \/ t = "Consumer" /\ w \in {"live_queued", "analysing", "sending"}
    BY WorkFacts
  <1>3. /\ pc' \in [Tasks -> Awaits] /\ pc'[t] = w /\ \A u \in Tasks : u # t => pc'[u] = pc[u]
    BY <1>2 DEF Base, Types
  <1>4. Types'
    BY <1>1, <1>3 DEF Base, Types
  <1>5. Roles'
    BY <1>1, <1>2, <1>3, Names DEF Base, Roles, Watching
  <1>6. \A u \in Tasks : Locking(u)' <=> Locking(u)
    BY <1>1, <1>2, <1>3 DEF Locking, Finishing, Watching
  <1>7. InHands' /\ CallsMatch'
    <2>1. Ids' = Ids
      BY <1>1 DEF Ids
    <2>2. InHands'
      <3> SUFFICES ASSUME NEW u \in Tasks
                   PROVE  IF Locking(u)' THEN on'[u] \in Ids' /\ Contains(states'[on'[u]].lock, u)
                          ELSE on'[u] = 0
        BY DEF InHands
      <3>1. QED
        BY <1>1, <1>6, <2>1 DEF Base, InHands
    <2>3. CallsMatch'
      <3>1. \A c \in CallIds : calls[c] # 0 => calls[c] \in Ids
        BY DEF Base, Types, Ids
      <3>2. QED
        BY <1>1, <3>1 DEF Base, CallsMatch
    <2>4. QED
      BY <2>2, <2>3
  <1>8. MainIsLast'
    BY <1>1, <1>3, Names DEF Base, MainIsLast, Locking, Finishing, Watching
  <1>9. QED
    BY <1>4, <1>5, <1>7, <1>8 DEF Base

(* A task leaves the state it works on, if any.                             *)
Left(t) ==
  /\ UNCHANGED <<topic, position, segment, committed, read>>
  /\ states' \in Seq(CallStates) /\ Len(states') = Len(states)
  /\ \A i \in Ids :
       /\ states'[i].call = states[i].call /\ states'[i].turns = states[i].turns
       /\ (states'[i].ended <=> states[i].ended)
       /\ i # on[t] => states'[i] = states[i]
  /\ Locking(t) => states'[on[t]].lock = Without(states[on[t]].lock, t)
  /\ \A i \in Ids, u \in Tasks :
       u # t /\ Contains(states[i].lock, u) => Contains(states'[i].lock, u)
  /\ on' = [on EXCEPT ![t] = 0]

LEMMA LeaveIsLeft ==
  ASSUME Base, NEW t \in Tasks, Locking(t), states' = Leave(on[t], t),
         on' = [on EXCEPT ![t] = 0], UNCHANGED <<topic, position, segment, committed, read>>
  PROVE  Left(t)
  BY LeaveFacts DEF Base, Left

LEMMA SettleFacts ==
  ASSUME Base, NEW t \in Tasks, SettleStep(t)
  PROVE  /\ Left(t) /\ Finalising(t) /\ cancelled = {} /\ UNCHANGED <<cancelled, abandoned>>
         /\ pc' = [pc EXCEPT ![t] = IF t = "Consumer" THEN "admitting" ELSE "iterating"]
         /\ calls' = [calls EXCEPT ![states[on[t]].call] = 0]
         /\ \/ insights' = insights /\ postFailed' = postFailed \cup {on[t]}
            \/ insights' = Append(insights, Summary(t)) /\ postFailed' = postFailed
  <1>1. /\ cancelled = {} /\ pc[t] \in {"summarising", "reporting"} /\ Forget(t)
        /\ \/ insights' = insights /\ postFailed' = postFailed \cup {on[t]}
           \/ insights' = Append(insights, Summary(t)) /\ postFailed' = postFailed
    BY DEF SettleStep, NoSummary, Report, Back
  <1>2. Finalising(t) /\ Locking(t)
    BY <1>1 DEF Finalising, Locking, Finishing
  <1>3. Left(t)
    BY <1>1, <1>2, LeaveIsLeft DEF Forget, kafkaVars
  <1>4. QED
    BY <1>1, <1>2, <1>3 DEF Forget, Goto

LEMMA QuitFacts ==
  ASSUME Base, NEW t \in Tasks, QuitStep(t)
  PROVE  /\ Left(t) /\ UNCHANGED <<calls, postFailed>>
         /\ t \in cancelled \/ Locking(t)
         /\ pc' = [pc EXCEPT ![t] = CASE t = "Consumer" -> "unwinding"
                                      [] t = "Sweeper" -> "done" [] t = "Main" -> "crashed"]
         /\ cancelled' \in {cancelled \ {t}, (cancelled \ {t}) \cup {"Sweeper"}}
         /\ abandoned' = IF Finalising(t) THEN abandoned \cup {on[t]} ELSE abandoned
         /\ \/ insights' = insights
            \/ Finalising(t) /\ insights' = Append(insights, Summary(t))
            \/ t = "Consumer" /\ Watching(t) /\ insights' = Append(insights, Signals)
  <1>1. /\ Unwind(t)
        /\ t \in cancelled \/ Locking(t)
        /\ \/ insights' = insights
           \/ Finalising(t) /\ insights' = Append(insights, Summary(t))
           \/ Watching(t) /\ insights' = Append(insights, Signals)
    <2>1. CASE SummariseRaises(t)
      BY <2>1 DEF SummariseRaises, Back, Locking, Finishing
    <2>2. CASE ReportFails(t)
      BY <2>2 DEF ReportFails, Back, Locking, Finishing, Finalising
    <2>3. CASE Cancelled(t)
      BY <2>3 DEF Cancelled, Locking, Finalising, Watching
    <2>4. CASE t = "Consumer" /\ SendFails
      BY <2>4 DEF SendFails, Back, Locking, Watching
    <2>5. CASE t = "Consumer" /\ AnalyseRaises
      BY <2>5 DEF AnalyseRaises, Back, Locking, Watching
    <2>6. QED
      BY <2>1, <2>2, <2>3, <2>4, <2>5 DEF QuitStep
  <1>2. Watching(t) => t = "Consumer"
    BY Names DEF Base, Roles
  <1>3. Left(t)
    <2>1. /\ states' = IF on[t] = 0 THEN states ELSE Leave(on[t], t)
          /\ on' = [on EXCEPT ![t] = 0]
          /\ UNCHANGED <<topic, position, segment, committed, read>>
      BY <1>1 DEF Unwind, kafkaVars
    <2>2. CASE Locking(t)
      BY <2>1, <2>2, Names, LeaveIsLeft DEF Base, InHands
    <2>3. CASE ~Locking(t)
      <3>1. on[t] = 0
        BY <2>3 DEF Base, InHands
      <3>2. states' = states /\ states \in Seq(CallStates)
        BY <2>1, <3>1 DEF Base, Types
      <3>3. QED
        BY <2>1, <2>3, <3>2 DEF Left
    <2>4. QED
      BY <2>2, <2>3
  <1>4. QED
    BY <1>1, <1>2, <1>3 DEF Unwind, Goto

LEMMA FreeFacts ==
  ASSUME Base, FreeStep
  PROVE  /\ Left("Consumer") /\ Watching("Consumer") /\ "Consumer" \notin cancelled
         /\ UNCHANGED <<cancelled, abandoned, calls, postFailed>>
         /\ pc' = [pc EXCEPT !["Consumer"] = "idle"]
         /\ insights' \in {insights, Append(insights, Signals)}
  <1> DEFINE C == "Consumer"
  <1>1. C \in Tasks
    BY Names
  <1>2. CASE Send \/ (LiveAcquire /\ pc'[C] = "idle")
    <2>1. /\ ReleaseIdle /\ UNCHANGED <<topic, position, segment, committed, read>>
          /\ UNCHANGED <<cancelled, abandoned, calls, postFailed>>
          /\ pc[C] \in {"sending", "live_queued"} /\ C \notin cancelled
          /\ insights' \in {insights, Append(insights, Signals)}
      <3>1. CASE Send
        BY <3>1 DEF Send, Back, kafkaVars
      <3>2. CASE LiveAcquire /\ pc'[C] = "idle"
        <4>1. ~Goto(C, "analysing")
          BY <1>1, <3>2 DEF Goto, Base, Types
        <4>2. QED
          BY <3>2, <4>1 DEF LiveAcquire, At, kafkaVars
      <3>3. QED
        BY <1>2, <3>1, <3>2
    <2>2. Watching(C) /\ Locking(C)
      BY <2>1 DEF Watching, Locking
    <2>3. QED
      BY <1>1, <2>1, <2>2, LeaveIsLeft DEF ReleaseIdle, Goto
  <1>3. CASE Analyse /\ pc'[C] = "idle"
    <2> DEFINE s == on[C]
               lock == Without(states[s].lock, C)
               seen == [states EXCEPT ![s].analysed = Len(states[s].turns)]
               gone == Leave(s, C)
    <2>1. /\ states' = [seen EXCEPT ![s].lock = Without(@, C)]
          /\ pc' = [pc EXCEPT ![C] = "idle"] /\ on' = [on EXCEPT ![C] = 0]
          /\ UNCHANGED <<topic, position, segment, committed, read>>
          /\ UNCHANGED <<cancelled, abandoned, calls, postFailed, insights>>
          /\ cancelled = {} /\ pc[C] = "analysing"
      <3>1. ~Goto(C, "sending")
        BY <1>1, <1>3 DEF Goto, Base, Types
      <3>2. QED
        BY <1>3, <3>1 DEF Analyse, Goto, Back, kafkaVars
    <2>2. Watching(C) /\ Locking(C)
      BY <2>1 DEF Watching, Locking
    <2>3. /\ s \in Ids /\ gone \in Seq(CallStates) /\ Len(gone) = Len(states)
          /\ \A i \in Ids :
               /\ gone[i].call = states[i].call /\ gone[i].turns = states[i].turns
               /\ (gone[i].ended <=> states[i].ended)
               /\ i # s => gone[i] = states[i]
          /\ gone[s].lock = lock
          /\ \A i \in Ids, u \in Tasks :
               u # C /\ Contains(states[i].lock, u) => Contains(gone[i].lock, u)
      BY <1>1, <2>2, LeaveFacts DEF Base
    <2>4. /\ states \in Seq(CallStates) /\ states[s] \in CallStates /\ s \in 1..Len(states)
          /\ Ids = 1..Len(states) /\ DOMAIN states = 1..Len(states)
      BY <2>3, ElementOfSeq, LenProperties DEF Base, Types, Ids
    <2> DEFINE n == Len(states[s].turns)
               last == [gone[s] EXCEPT !.analysed = n]
    <2>5. n \in Nat
      BY <2>4, LenProperties DEF CallStates
    <2>6. states' = [gone EXCEPT ![s] = last]
      <3>1. gone[s] = [states[s] EXCEPT !.lock = lock]
        BY <2>4 DEF Leave
      <3>2. /\ seen = [states EXCEPT ![s] = [states[s] EXCEPT !.analysed = n]]
            /\ gone = [states EXCEPT ![s] = [states[s] EXCEPT !.lock = lock]]
        BY DEF Leave
      <3>3. seen[s] = [states[s] EXCEPT !.analysed = n]
        BY <2>4, <3>2
      <3>4. seen[s].lock = states[s].lock
        BY <2>4, <3>3 DEF CallStates
      <3>5. states' = [seen EXCEPT ![s] = [seen[s] EXCEPT !.lock = lock]]
        BY <2>1, <3>4
      <3>6. [seen[s] EXCEPT !.lock = lock] = last
        BY <2>4, <3>1, <3>3 DEF CallStates
      <3> HIDE DEF last, seen, gone, lock, n
      <3>7. QED
        BY <3>2, <3>5, <3>6
    <2> HIDE DEF gone, lock, seen, n
    <2>7. gone[s] \in CallStates /\ s \in 1..Len(gone)
      BY <2>3, <2>4, ElementOfSeq
    <2>8. /\ last \in CallStates /\ last.call = gone[s].call /\ last.turns = gone[s].turns
          /\ last.lock = gone[s].lock /\ (last.ended <=> gone[s].ended)
      BY <2>5, <2>7 DEF CallStates
    <2> HIDE DEF last
    <2>9. /\ states' \in Seq(CallStates) /\ Len(states') = Len(gone) /\ states'[s] = last
          /\ \A i \in Ids : i # s => states'[i] = gone[i]
      <3>1. /\ [gone EXCEPT ![s] = last] \in Seq(CallStates)
            /\ Len([gone EXCEPT ![s] = last]) = Len(gone)
            /\ \A i \in 1..Len(gone) : [gone EXCEPT ![s] = last][i] = IF i = s THEN last ELSE gone[i]
        BY <2>3, <2>7, <2>8, ExceptSeq
      <3>2. QED
        BY <2>3, <2>4, <2>6, <2>7, <3>1
    <2>10. lock = Without(states[on[C]].lock, C)
      BY DEF lock
    <2>11. \A i \in Ids :
             /\ states'[i].call = states[i].call /\ states'[i].turns = states[i].turns
             /\ (states'[i].ended <=> states[i].ended)
             /\ i # on[C] => states'[i] = states[i]
             /\ states'[i].lock = gone[i].lock
      BY <2>3, <2>8, <2>9
    <2>12. Left(C)
      BY <2>1, <2>2, <2>3, <2>9, <2>10, <2>11 DEF Left
    <2>13. QED
      BY <2>1, <2>2, <2>12
  <1>4. QED
    BY <1>2, <1>3 DEF FreeStep

LEMMA RecordsAreInsights ==
  ASSUME Base
  PROVE  /\ \A t \in Tasks : Summary(t) \in Insights
         /\ Watching("Consumer") => Signals \in Insights
  <1>1. \A t \in Tasks : on[t] \in Nat /\ read[t] \in Nat
    <2>1. Len(states) \in Nat
      BY LenProperties DEF Base, Types
    <2>2. QED
      BY <2>1 DEF Base, Types
  <1>2. ASSUME Watching("Consumer") PROVE states[on["Consumer"]].analysed \in Nat
    <2>1. on["Consumer"] \in 1..Len(states) /\ states \in Seq(CallStates)
      BY <1>2, Names DEF Base, InHands, Types, Locking, Ids
    <2>2. states[on["Consumer"]] \in CallStates
      BY <2>1, ElementOfSeq
    <2>3. QED
      BY <2>2 DEF CallStates
  <1>3. QED
    BY <1>1, <1>2, Names DEF Summary, Signals, Insights

LEMMA LeftBase ==
  ASSUME Base, NEW t \in Tasks, Left(t), insights' \in Seq(Insights), UNCHANGED committed,
         calls' = calls \/ calls' = [calls EXCEPT ![states[on[t]].call] = 0],
         cancelled' \in SUBSET (Tasks \ {"Main"}),
         NEW w \in {"idle", "iterating", "admitting", "unwinding", "done", "crashed"},
         pc' = [pc EXCEPT ![t] = w],
         w \in {"idle", "admitting", "unwinding"} => t = "Consumer",
         w = "iterating" => t # "Consumer",
         MainIsLast'
  PROVE  Base'
  <1>1. /\ pc' \in [Tasks -> Awaits] /\ pc'[t] = w /\ \A u \in Tasks : u # t => pc'[u] = pc[u]
    BY DEF Base, Types, Awaits
  <1>2. /\ on' \in [Tasks -> 0..Len(states)] /\ on'[t] = 0
        /\ \A u \in Tasks : u # t => on'[u] = on[u]
    <2>1. 0 \in 0..Len(states)
      BY LenProperties DEF Base, Types
    <2>2. QED
      BY <2>1 DEF Left, Base, Types
  <1>3. /\ calls' \in [CallIds -> 0..Len(states)]
        /\ \A c \in CallIds : calls'[c] \in {0, calls[c]}
    <2>1. 0 \in 0..Len(states)
      BY LenProperties DEF Base, Types
    <2>2. QED
      BY <2>1 DEF Base, Types
  <1>4. Types'
    BY <1>1, <1>2, <1>3 DEF Base, Types, Left
  <1>5. Roles'
    BY <1>1, Names DEF Base, Roles, Watching
  <1>6. Ids' = Ids
    BY DEF Left, Ids
  <1>7. InHands'
    <2> SUFFICES ASSUME NEW u \in Tasks
                 PROVE  IF Locking(u)' THEN on'[u] \in Ids' /\ Contains(states'[on'[u]].lock, u)
                        ELSE on'[u] = 0
      BY DEF InHands
    <2>1. CASE u = t
      BY <1>1, <1>2, <2>1 DEF Locking, Finishing, Watching
    <2>2. CASE u # t
      <3>1. pc'[u] = pc[u] /\ on'[u] = on[u]
        BY <1>1, <1>2, <2>2
      <3>2. Locking(u)' <=> Locking(u)
        BY <3>1 DEF Locking, Finishing, Watching
      <3>3. QED
        BY <1>6, <2>2, <3>1, <3>2 DEF Base, InHands, Left
    <2>3. QED
      BY <2>1, <2>2
  <1>8. CallsMatch'
    <2>1. \A c \in CallIds : calls[c] # 0 => calls[c] \in Ids
      BY DEF Base, Types, Ids
    <2>2. QED
      BY <1>3, <2>1 DEF Base, CallsMatch, Left
  <1>9. QED
    BY <1>4, <1>5, <1>7, <1>8 DEF Base

LEMMA LeavingBase ==
  ASSUME Base, NEW t \in Tasks, SettleStep(t) \/ QuitStep(t) \/ (t = "Consumer" /\ FreeStep)
  PROVE  Base'
  <1>1. /\ insights \in Seq(Insights) /\ pc \in [Tasks -> Awaits]
        /\ cancelled \in SUBSET (Tasks \ {"Main"})
    BY DEF Base, Types, Roles
  <1>2. CASE SettleStep(t)
    <2>1. /\ Left(t) /\ cancelled = {} /\ UNCHANGED cancelled /\ Finalising(t)
          /\ pc' = [pc EXCEPT ![t] = IF t = "Consumer" THEN "admitting" ELSE "iterating"]
          /\ calls' = [calls EXCEPT ![states[on[t]].call] = 0]
          /\ insights' = insights \/ insights' = Append(insights, Summary(t))
          /\ UNCHANGED committed
      BY <1>2, SettleFacts DEF SettleStep, NoSummary, Report, Forget, kafkaVars
    <2>2. insights' \in Seq(Insights)
      BY <1>1, <2>1, RecordsAreInsights, AppendProperties
    <2>3. MainIsLast'
      <3>1. CASE t = "Consumer"
        BY <1>1, <2>1, <3>1, Names DEF Base, MainIsLast, Finalising
      <3>2. CASE t # "Consumer"
        BY <1>1, <2>1, <3>2, Names DEF Base, MainIsLast, Finalising
      <3>3. QED
        BY <3>1, <3>2
    <2>4. CASE t = "Consumer"
      <3>1. pc' = [pc EXCEPT ![t] = "admitting"]
        BY <2>1, <2>4
      <3>2. QED
        BY <1>1, <2>1, <2>2, <2>3, <2>4, <3>1, LeftBase
    <2>5. CASE t # "Consumer"
      <3>1. pc' = [pc EXCEPT ![t] = "iterating"]
        BY <2>1, <2>5
      <3>2. QED
        BY <1>1, <2>1, <2>2, <2>3, <2>5, <3>1, LeftBase
    <2>6. QED
      BY <2>4, <2>5
  <1>3. CASE QuitStep(t)
    <2> DEFINE w == IF t = "Consumer" THEN "unwinding" ELSE IF t = "Sweeper" THEN "done" ELSE "crashed"
    <2>1. /\ Left(t) /\ UNCHANGED calls /\ pc' = [pc EXCEPT ![t] = w]
          /\ t \in cancelled \/ Locking(t)
          /\ cancelled' \in {cancelled \ {t}, (cancelled \ {t}) \cup {"Sweeper"}}
          /\ \/ insights' = insights
             \/ insights' = Append(insights, Summary(t))
             \/ Watching("Consumer") /\ insights' = Append(insights, Signals)
          /\ UNCHANGED committed
      <3>1. Unwind(t)
        BY <1>3 DEF QuitStep, SummariseRaises, ReportFails, Cancelled, SendFails, AnalyseRaises
      <3>2. UNCHANGED committed
        BY <3>1 DEF Unwind, kafkaVars
      <3>3. QED
        BY <1>3, <3>2, QuitFacts, Names
    <2>2. insights' \in Seq(Insights)
      BY <1>1, <2>1, RecordsAreInsights, AppendProperties
    <2>3. MainIsLast'
      <3>1. CASE t = "Consumer"
        BY <1>1, <2>1, <3>1, Names DEF MainIsLast
      <3>2. CASE t = "Sweeper"
        BY <1>1, <2>1, <3>2, Names DEF Base, MainIsLast
      <3>3. CASE t = "Main"
        <4>1. pc["Main"] # "idle"
          BY <1>1, <2>1, <3>3 DEF Locking, Finishing, Watching
        <4>2. QED
          BY <1>1, <2>1, <3>3, <4>1, Names DEF Base, MainIsLast
      <3>4. QED
        BY <3>1, <3>2, <3>3, Names
    <2>4. cancelled' \in SUBSET (Tasks \ {"Main"})
      BY <1>1, <2>1, Names
    <2>5. /\ w \in {"idle", "iterating", "admitting", "unwinding", "done", "crashed"}
          /\ w \in {"idle", "admitting", "unwinding"} => t = "Consumer"
          /\ w # "iterating"
      OBVIOUS
    <2> HIDE DEF w
    <2>6. QED
      BY <2>1, <2>2, <2>3, <2>4, <2>5, LeftBase
  <1>4. CASE t = "Consumer" /\ FreeStep
    <2>1. /\ Left(t) /\ UNCHANGED <<calls, cancelled>> /\ pc' = [pc EXCEPT ![t] = "idle"]
          /\ Watching(t) /\ t \notin cancelled
          /\ insights' = insights \/ insights' = Append(insights, Signals)
          /\ UNCHANGED committed
      BY <1>4, FreeFacts DEF FreeStep, Send, LiveAcquire, Analyse, kafkaVars
    <2>2. insights' \in Seq(Insights)
      BY <1>1, <1>4, <2>1, RecordsAreInsights, AppendProperties
    <2>3. MainIsLast'
      BY <1>1, <1>4, <2>1, Names DEF Base, MainIsLast, Watching
    <2>4. QED
      BY <1>1, <1>4, <2>1, <2>2, <2>3, LeftBase
  <1>5. QED
    BY <1>2, <1>3, <1>4

LEMMA AppendHas ==
  ASSUME NEW S, NEW seq \in Seq(S), NEW t \in S
  PROVE  /\ Contains(Append(seq, t), t)
         /\ \A u : Contains(seq, u) => Contains(Append(seq, t), u)
  <1>1. /\ Len(Append(seq, t)) = Len(seq) + 1 /\ Len(seq) \in Nat
        /\ \A i \in 1..Len(seq) : Append(seq, t)[i] = seq[i]
        /\ Append(seq, t)[Len(seq) + 1] = t
    BY AppendProperties, LenProperties
  <1>2. QED
    BY <1>1 DEF Contains

LEMMA AdmitFrame ==
  ASSUME Base, SegmentInHand, Admit
  PROVE  /\ UNCHANGED <<topic, position, segment, committed, read, cancelled, insights,
                        postFailed, abandoned>>
         /\ pc["Consumer"] = "admitting" /\ "Consumer" \notin cancelled
         /\ pc["Main"] = "idle" /\ on["Consumer"] = 0
         /\ segment \in 1..Len(topic) /\ topic[segment] \in CallIds
  <1>1. /\ UNCHANGED <<topic, position, segment, committed, read, cancelled, insights,
                       postFailed, abandoned>>
        /\ pc["Consumer"] = "admitting" /\ "Consumer" \notin cancelled
    BY DEF Admit, At, kafkaVars
  <1>2. pc["Main"] = "idle"
    BY <1>1 DEF Base, MainIsLast
  <1>3. on["Consumer"] = 0
    BY <1>1, Names DEF Base, InHands, Locking, Finishing, Watching
  <1>4. QED
    BY <1>1, <1>2, <1>3 DEF SegmentInHand

LEMMA AdmitBase ==
  ASSUME Base, SegmentInHand, Admit
  PROVE  Base'
  <1> DEFINE C == "Consumer"
             c == topic[segment]
  <1>1. /\ UNCHANGED <<topic, position, segment, committed, read, cancelled, insights>>
        /\ pc[C] = "admitting" /\ pc["Main"] = "idle" /\ c \in CallIds
    BY AdmitFrame
  <1>2. PICK s \in 1..(Len(states) + 1) :
          /\ calls[c] = IF s \in Ids THEN s ELSE 0
          /\ calls' = [calls EXCEPT ![c] = s]
          /\ states' \in Seq(CallStates)
          /\ Len(states') = IF s \in Ids THEN Len(states) ELSE Len(states) + 1
          /\ \A i \in Ids : i # s => states'[i] = states[i]
          /\ s \in Ids => states'[s].call = states[s].call
          /\ s \notin Ids => states'[s].call = c
          /\ LET lock == IF s \in Ids THEN states[s].lock ELSE <<>> IN
             \/ /\ pc' \in {[pc EXCEPT ![C] = "live_queued"], [pc EXCEPT ![C] = "analysing"]}
                /\ on' = [on EXCEPT ![C] = s]
                /\ states'[s].lock = Append(lock, C)
             \/ /\ pc' = [pc EXCEPT ![C] = "idle"]
                /\ on' = [on EXCEPT ![C] = 0]
                /\ states'[s].lock = lock
    BY <1>1, AdmitFacts DEF Base
  <1> HIDE DEF c
  <1>3. /\ Len(states) \in Nat /\ Ids = 1..Len(states) /\ Ids' = 1..Len(states')
        /\ states \in Seq(CallStates)
    BY LenProperties DEF Base, Types, Ids
  <1>4. /\ s \in Ids' /\ Ids \subseteq Ids' /\ 0..Len(states) \subseteq 0..Len(states')
        /\ s \in 0..Len(states') /\ 0 \in 0..Len(states') /\ Len(states') \in Nat
    BY <1>2, <1>3
  <1>5. /\ pc' \in [Tasks -> Awaits] /\ \A u \in Tasks : u # C => pc'[u] = pc[u]
        /\ pc'[C] \in {"live_queued", "analysing", "idle"}
    BY <1>2, Names DEF Base, Types, Awaits
  <1>6. /\ on' \in [Tasks -> 0..Len(states')] /\ \A u \in Tasks : u # C => on'[u] = on[u]
        /\ on'[C] = IF pc'[C] = "idle" THEN 0 ELSE s
    <2>1. on \in [Tasks -> 0..Len(states')] /\ C \in Tasks /\ pc \in [Tasks -> Awaits]
      BY <1>4, Names DEF Base, Types
    <2>2. CASE /\ pc' \in {[pc EXCEPT ![C] = "live_queued"], [pc EXCEPT ![C] = "analysing"]}
               /\ on' = [on EXCEPT ![C] = s]
      <3>1. pc'[C] # "idle"
        BY <2>1, <2>2
      <3>2. QED
        BY <1>4, <2>1, <2>2, <3>1
    <2>3. CASE pc' = [pc EXCEPT ![C] = "idle"] /\ on' = [on EXCEPT ![C] = 0]
      BY <1>4, <2>1, <2>3
    <2>4. QED
      BY <1>2, <2>2, <2>3
  <1>7. calls' \in [CallIds -> 0..Len(states')]
    BY <1>2, <1>4 DEF Base, Types
  <1>8. Types'
    BY <1>1, <1>2, <1>5, <1>6, <1>7 DEF Base, Types
  <1>9. Roles'
    BY <1>1, <1>5, Names DEF Base, Roles, Watching
  <1>10. \A i \in Ids : \A u : Contains(states[i].lock, u) => Contains(states'[i].lock, u)
    <2> SUFFICES ASSUME NEW i \in Ids, NEW u, Contains(states[i].lock, u)
                 PROVE  Contains(states'[i].lock, u)
      OBVIOUS
    <2>1. states[i].lock \in Seq(Tasks)
      <3>1. states[i] \in CallStates
        BY <1>3, ElementOfSeq
      <3>2. QED
        BY <3>1 DEF CallStates
    <2>2. Contains(Append(states[i].lock, C), u)
      BY <2>1, AppendHas, Names
    <2>3. QED
      BY <1>2, <2>2
  <1>11. pc'[C] # "idle" => Contains(states'[s].lock, C)
    <2> DEFINE lock == IF s \in Ids THEN states[s].lock ELSE <<>>
    <2>1. lock \in Seq(Tasks)
      <3>1. s \in Ids => states[s] \in CallStates
        BY <1>3, ElementOfSeq
      <3>2. <<>> \in Seq(Tasks)
        OBVIOUS
      <3>3. QED
        BY <3>1, <3>2 DEF CallStates
    <2>2. pc'[C] # "idle" => states'[s].lock = Append(lock, C)
      BY <1>2, Names DEF Base, Types
    <2> HIDE DEF lock
    <2>3. QED
      BY <2>1, <2>2, AppendHas, Names
  <1>12. InHands'
    <2> SUFFICES ASSUME NEW u \in Tasks
                 PROVE  IF Locking(u)' THEN on'[u] \in Ids' /\ Contains(states'[on'[u]].lock, u)
                        ELSE on'[u] = 0
      BY DEF InHands
    <2>1. CASE u = C
      BY <1>4, <1>5, <1>6, <1>11, <2>1 DEF Locking, Finishing, Watching
    <2>2. CASE u # C
      <3>1. pc'[u] = pc[u] /\ on'[u] = on[u]
        BY <1>5, <1>6, <2>2
      <3>2. Locking(u)' <=> Locking(u)
        BY <3>1 DEF Locking, Finishing, Watching
      <3>3. QED
        BY <1>4, <1>10, <3>1, <3>2 DEF Base, InHands
    <2>3. QED
      BY <2>1, <2>2
  <1>13. CallsMatch'
    <2> SUFFICES ASSUME NEW d \in CallIds, calls'[d] # 0
                 PROVE  states'[calls'[d]].call = d
      BY DEF CallsMatch
    <2>1. CASE d = c
      <3>1. calls'[d] = s
        BY <1>2, <2>1 DEF Base, Types
      <3>2. s \in Ids => states[s].call = c
        BY <1>1, <1>2, Names DEF Base, CallsMatch
      <3>3. QED
        BY <1>2, <2>1, <3>1, <3>2
    <2>2. CASE d # c
      <3>1. calls'[d] = calls[d]
        BY <1>2, <2>2 DEF Base, Types
      <3>2. calls[d] \in Ids /\ states[calls[d]].call = d
        BY <3>1 DEF Base, Types, CallsMatch, Ids
      <3>3. QED
        BY <1>2, <3>1, <3>2
    <2>3. QED
      BY <2>1, <2>2
  <1>14. MainIsLast'
    BY <1>1, <1>5, Names DEF MainIsLast
  <1>15. QED
    BY <1>8, <1>9, <1>12, <1>13, <1>14 DEF Base

-----------------------------------------------------------------------------
(* Locks are kept.                                                          *)

LEMMA WhoIsWhere ==
  ASSUME Base
  PROVE  /\ \A t \in Tasks : Locking(t) <=> on[t] \in Ids
         /\ \A t \in Tasks : ~Locking(t) => on[t] = 0
         /\ Locking("Sweeper") <=> Finishing("Sweeper")
         /\ \A t \in Tasks : Finalising(t) => Finishing(t)
         /\ \A t \in Tasks : Finishing(t) => Locking(t)
  BY Names DEF Base, InHands, Roles, Locking, Finishing, Finalising

LEMMA QuietLocks ==
  ASSUME Base, Locks, QuietStep
  PROVE  Locks'
  <1>1. /\ UNCHANGED <<states, calls, on>>
        /\ \A t \in Tasks : pc'[t] = pc[t] \/ (~Locking(t) /\ ~Locking(t)')
        /\ pc'["Main"] = "idle" => pc["Main"] = "idle"
        /\ pc["Sweeper"] = "done" => pc'["Sweeper"] = "done"
    BY QuietFacts DEF Base
  <1>2. \A t \in Tasks : /\ Locking(t)' <=> Locking(t)
                         /\ Finishing(t)' <=> Finishing(t)
                         /\ Finalising(t)' <=> Finalising(t)
                         /\ pc'[t] = "queued" <=> pc[t] = "queued"
    BY <1>1 DEF Locking, Finishing, Finalising, Watching
  <1>3. FinalisingEnds' /\ NobodyElses'
    BY <1>1, <1>2 DEF Locks, FinalisingEnds, NobodyElses
  <1>4. ASSUME SweeperFirst PROVE SweeperFirst'
    BY <1>1, <1>2, <1>4, Names DEF SweeperFirst, IsTracked
  <1>5. ASSUME \A s \in Ids : LockHolds(s) PROVE (\A s \in Ids : LockHolds(s))'
    BY <1>1, <1>5 DEF LockHolds, Ids
  <1>6. BeforeMain'
    BY <1>1, <1>4, <1>5 DEF Locks, BeforeMain
  <1>7. QED
    BY <1>3, <1>6 DEF Locks

LEMMA AppendToOne ==
  ASSUME NEW t, NEW u
  PROVE  Append(<<u>>, t) = <<u, t>> /\ Append(<<>>, t) = <<t>>
  <1>1. Append(<<u>>, t) = <<u, t>>
    <2> DEFINE l == <<u>>
               p == <<u, t>>
    <2>1. l \in Seq({u, t}) /\ Len(l) = 1 /\ l[1] = u
      OBVIOUS
    <2>2. p \in Seq({u, t}) /\ Len(p) = 2 /\ p[1] = u /\ p[2] = t
      OBVIOUS
    <2> HIDE DEF l, p
    <2> DEFINE U == {u, t}
    <2>3. t \in U /\ l \in Seq(U)
      BY <2>1
    <2> HIDE DEF U
    <2>4. /\ Append(l, t) \in Seq(U) /\ Len(Append(l, t)) = Len(l) + 1
          /\ \A i \in 1..Len(l) : Append(l, t)[i] = l[i]
          /\ Append(l, t)[Len(l) + 1] = t
      BY <2>3, AppendProperties
    <2>5. /\ Append(l, t) \in Seq({u, t}) /\ Len(Append(l, t)) = 2
          /\ Append(l, t)[1] = u /\ Append(l, t)[2] = t
      <3>1. 1 \in 1..Len(l) /\ Len(l) + 1 = 2
        BY <2>1
      <3>2. QED
        BY <2>1, <2>4, <3>1 DEF U
    <2>6. \A i \in 1..Len(Append(l, t)) : Append(l, t)[i] = p[i]
      <3>1. \A i \in 1..2 : i = 1 \/ i = 2
        OBVIOUS
      <3>2. QED
        BY <2>2, <2>5, <3>1
    <2>7. Append(l, t) = p
      BY <2>2, <2>5, <2>6, SeqEqual
    <2>8. QED
      BY <2>7 DEF l, p
  <1>2. Append(<<>>, t) = <<t>>
    OBVIOUS
  <1>3. QED
    BY <1>1, <1>2

LEMMA ClaimLocks ==
  ASSUME Base, Locks, NEW t \in Tasks, NEW c \in CallIds, ClaimStep(t, c)
  PROVE  Locks'
  <1> DEFINE C == "Consumer"
             S == "Sweeper"
  <1>0. calls[c] \in Ids
    BY ClaimFacts DEF Base, ClaimStep
  <1> PICK s \in Ids : s = calls[c]
    BY <1>0
  <1>1. /\ s \in Ids /\ ~states[s].ended /\ calls[c] = s
        /\ on' = [on EXCEPT ![t] = s]
        /\ Len(states') = Len(states)
        /\ \A i \in Ids : states'[i].call = states[i].call /\ (i # s => states'[i] = states[i])
        /\ \/ /\ states[s].lock = <<>> /\ states'[s].lock = <<t>> /\ states'[s].ended
              /\ pc' = [pc EXCEPT ![t] = "summarising"]
           \/ /\ states[s].lock # <<>> /\ states'[s].lock = Append(states[s].lock, t)
              /\ ~states'[s].ended /\ pc' = [pc EXCEPT ![t] = "queued"]
    BY ClaimFacts DEF Base, ClaimStep
  <1>2. /\ calls' = calls /\ (IF t = C THEN pc[t] = "idle" ELSE pc[t] = "iterating")
    BY ClaimFrame DEF Base
  <1>3. states[s].call = c
    BY <1>1, Names DEF Base, CallsMatch
  <1>4. /\ pc'[t] \in {"summarising", "queued"} /\ \A u \in Tasks : u # t => pc'[u] = pc[u]
        /\ on'[t] = s /\ \A u \in Tasks : u # t => on'[u] = on[u]
        /\ Ids' = Ids
    BY <1>1 DEF Base, Types, Ids
  <1>5. /\ pc'[t] = "summarising" => states[s].lock = <<>> /\ states'[s].lock = <<t>> /\ states'[s].ended
        /\ pc'[t] = "queued" => states[s].lock # <<>> /\ states'[s].lock = Append(states[s].lock, t)
    BY <1>1 DEF Base, Types
  <1>6. /\ ~Locking(t) /\ on[t] = 0
        /\ \A u \in Tasks : u # t => /\ Locking(u)' <=> Locking(u)
                                     /\ Finishing(u)' <=> Finishing(u)
                                     /\ Finalising(u)' <=> Finalising(u)
    BY <1>2, <1>4, WhoIsWhere DEF Locking, Finishing, Finalising, Watching
  <1>7. ASSUME NEW u \in Tasks, Finalising(u) PROVE on[u] \in Ids /\ on[u] # s /\ states[on[u]].ended
    BY <1>1, <1>7, WhoIsWhere DEF Locks, FinalisingEnds
  <1>8. FinalisingEnds'
    <2> SUFFICES ASSUME NEW u \in Tasks, Finalising(u)' PROVE states'[on'[u]].ended
      BY DEF FinalisingEnds
    <2>1. CASE u = t
      BY <1>4, <1>5, <2>1 DEF Finalising
    <2>2. CASE u # t
      BY <1>1, <1>4, <1>6, <1>7, <2>2
    <2>3. QED
      BY <2>1, <2>2
  <1>9. NobodyElses'
    <2> SUFFICES ASSUME NEW u \in Tasks, Finishing(u)'
                 PROVE  calls'[states'[on'[u]].call] \in {0, on'[u]}
      BY DEF NobodyElses
    <2>1. CASE u = t
      BY <1>1, <1>2, <1>3, <1>4, <2>1
    <2>2. CASE u # t
      <3>1. Finishing(u) /\ on'[u] = on[u] /\ on[u] \in Ids
        BY <1>4, <1>6, <2>2, WhoIsWhere
      <3>2. QED
        BY <1>1, <1>2, <3>1 DEF Locks, NobodyElses
    <2>3. QED
      BY <2>1, <2>2
  <1>10. ASSUME pc'["Main"] = "idle"
         PROVE  SweeperFirst' /\ \A i \in Ids : LockHolds(i)'
    <2>1. t # "Main" /\ pc["Main"] = "idle"
      BY <1>4, <1>10, Names
    <2>2. SweeperFirst /\ \A i \in Ids : LockHolds(i)
      BY <2>1 DEF Locks, BeforeMain
    <2>3. ASSUME NEW i \in Ids, i # s PROVE LockHolds(i)'
      <3>1. states'[i] = states[i] /\ i # 0
        BY <1>1, <2>3, Names
      <3>2. \A u \in Tasks : on'[u] = i <=> on[u] = i
        BY <1>4, <1>6, <2>3, <3>1
      <3>3. LockHolds(i)
        BY <2>2, <2>3
      <3> HIDE DEF C, S
      <3>4. QED
        BY <3>1, <3>2, <3>3, Names DEF LockHolds
    <2>4. CASE t = S
      <3>1. on[S] = 0 /\ on'[S] = s /\ on'[C] = on[C] /\ s # 0
        BY <1>1, <1>4, <1>6, <2>4, Names
      <3>2. states[s].lock = IF on[C] = s THEN <<C>> ELSE <<>>
        BY <1>1, <2>2, <3>1 DEF LockHolds
      <3>3. LockHolds(s)'
        <4>1. CASE on[C] = s
          <5>1. states[s].lock = <<C>> /\ <<C>> # <<>>
            BY <3>2, <4>1
          <5>2. states'[s].lock = <<C, S>>
            BY <1>1, <2>4, <5>1, AppendToOne
          <5>3. QED
            BY <3>1, <4>1, <5>2 DEF LockHolds
        <4>2. CASE on[C] # s
          <5>1. states'[s].lock = <<S>>
            BY <1>1, <2>4, <3>2, <4>2
          <5>2. QED
            BY <3>1, <4>2, <5>1 DEF LockHolds
        <4>3. QED
          BY <4>1, <4>2
      <3>4. SweeperFirst'
        <4>2. IsTracked(on[S])'
          BY <1>1, <1>2, <1>3, <3>1 DEF IsTracked
        <4>3. Finalising(C)' => on'[S] # on'[C]
          BY <1>6, <1>7, <2>4, <3>1, Names
        <4>4. ASSUME pc'[C] = "queued" PROVE on'[C] # s /\ states'[on'[C]].ended
          <5>1. pc[C] = "queued" /\ on[C] \in Ids
            BY <1>4, <2>4, <4>4, Names, WhoIsWhere DEF Finishing
          <5>2. pc[S] = "iterating"
            BY <1>2, <2>4
          <5>3. states[on[C]].ended
            BY <2>2, <5>1, <5>2 DEF SweeperFirst
          <5>4. QED
            BY <1>1, <3>1, <5>1, <5>3
        <4>5. QED
          BY <3>1, <4>2, <4>3, <4>4 DEF SweeperFirst
      <3>5. QED
        BY <2>3, <3>3, <3>4
    <2>5. CASE t = C
      <3>1. on[C] = 0 /\ on'[C] = s /\ on'[S] = on[S] /\ pc'[S] = pc[S] /\ s # 0
        BY <1>1, <1>4, <1>6, <2>5, Names
      <3>2. states[s].lock = IF on[S] = s THEN <<S>> ELSE <<>>
        BY <1>1, <2>2, <3>1 DEF LockHolds
      <3>3. states'[s].lock = IF on[S] = s THEN <<S, C>> ELSE <<C>>
        <4>1. CASE on[S] = s
          <5>1. states[s].lock = <<S>> /\ <<S>> # <<>>
            BY <3>2, <4>1
          <5>2. QED
            BY <1>1, <2>5, <4>1, <5>1, AppendToOne
        <4>2. CASE on[S] # s
          BY <1>1, <2>5, <3>2, <4>2
        <4>3. QED
          BY <4>1, <4>2
      <3>4. LockHolds(s)'
        BY <3>1, <3>3 DEF LockHolds
      <3>5. SweeperFirst'
        <4>1. ASSUME Locking(S)' PROVE IsTracked(on[S])'
          <5>1. Locking(S) /\ on[S] \in Ids
            BY <1>6, <2>5, <4>1, Names, WhoIsWhere
          <5>2. IsTracked(on[S])
            BY <2>2, <5>1 DEF SweeperFirst
          <5>3. QED
            BY <1>1, <1>2, <3>1, <5>1, <5>2 DEF IsTracked
        <4>2. ASSUME Finalising(C)' PROVE on'[S] # on'[C]
          <5>1. pc'[C] = "summarising"
            BY <1>4, <2>5, <4>2 DEF Finalising
          <5>2. states[s].lock = <<>>
            BY <1>5, <2>5, <5>1
          <5>3. on[S] # s
            <6>1. <<S>> # <<>>
              OBVIOUS
            <6>2. QED
              BY <3>2, <5>2, <6>1
          <5>4. QED
            BY <3>1, <5>3
        <4>3. ASSUME pc'[C] = "queued"
              PROVE  pc'[S] = "queued" /\ on'[S] = on'[C] /\ states'[on'[C]].lock = <<S, C>>
          <5>1. on[S] = s
            BY <1>5, <2>5, <3>2, <4>3
          <5>2. Finishing(S)
            BY <1>1, <5>1, WhoIsWhere, Names
          <5>3. ~Finalising(S)
            BY <1>7, <5>1, Names
          <5>4. QED
            BY <3>1, <3>3, <5>1, <5>2, <5>3 DEF Finishing, Finalising
        <4>4. QED
          BY <4>1, <4>2, <4>3 DEF SweeperFirst
      <3>6. QED
        BY <2>3, <3>4, <3>5
    <2>6. QED
      BY <2>1, <2>4, <2>5, Names
  <1>11. BeforeMain'
    BY <1>4, <1>10 DEF BeforeMain
  <1>12. QED
    BY <1>8, <1>9, <1>11 DEF Locks

LEMMA WorkLocks ==
  ASSUME Base, Locks, NEW t \in Tasks, WorkStep(t)
  PROVE  Locks'
  <1> DEFINE C == "Consumer"
             S == "Sweeper"
  <1>1. /\ UNCHANGED <<calls, on>> /\ Locking(t) /\ Len(states') = Len(states)
        /\ \A i \in Ids :
             /\ states'[i].call = states[i].call /\ states'[i].lock = states[i].lock
             /\ states[i].ended => states'[i].ended
        /\ Finalising(t)' => states'[on[t]].ended \/ Finalising(t)
    BY WorkFacts
  <1>2. PICK w \in Awaits :
          /\ pc' = [pc EXCEPT ![t] = w]
          /\ \/ pc[t] = "queued" /\ w = "summarising" /\ Head(states[on[t]].lock) = t
             \/ pc[t] = "summarising" /\ w = "reporting"
             \/ t = C /\ Watching(t) /\ w \in {"live_queued", "analysing", "sending"}
    BY WorkFacts
  <1>3. pc'[t] = w /\ (\A u \in Tasks : u # t => pc'[u] = pc[u]) /\ Ids' = Ids
    BY <1>1, <1>2 DEF Base, Types, Ids
  <1>4. \A u \in Tasks : /\ Locking(u)' <=> Locking(u)
                         /\ Finishing(u)' <=> Finishing(u)
                         /\ u # t => (Finalising(u)' <=> Finalising(u))
    BY <1>1, <1>2, <1>3 DEF Locking, Finishing, Finalising, Watching
  <1>5. \A u \in Tasks : Locking(u) => on[u] \in Ids
    BY WhoIsWhere
  <1>6. FinalisingEnds'
    <2> SUFFICES ASSUME NEW u \in Tasks, Finalising(u)' PROVE states'[on'[u]].ended
      BY DEF FinalisingEnds
    <2>1. Finalising(u) => states'[on[u]].ended
      BY <1>1, <1>5, WhoIsWhere DEF Locks, FinalisingEnds
    <2>2. QED
      BY <1>1, <1>4, <2>1
  <1>7. NobodyElses'
    BY <1>1, <1>4, <1>5, WhoIsWhere DEF Locks, NobodyElses
  <1>8. ASSUME pc'["Main"] = "idle"
        PROVE  SweeperFirst' /\ \A i \in Ids : LockHolds(i)'
    <2>1. t # "Main" /\ pc["Main"] = "idle"
      BY <1>2, <1>3, <1>8, Names DEF Watching
    <2>2. SweeperFirst /\ \A i \in Ids : LockHolds(i)
      BY <2>1 DEF Locks, BeforeMain
    <2>3. \A i \in Ids : LockHolds(i)'
      BY <1>1, <2>2 DEF LockHolds
    <2>4. ASSUME Locking(S)' PROVE IsTracked(on[S])'
      BY <1>1, <1>4, <1>5, <2>2, <2>4, Names DEF SweeperFirst, IsTracked
    <2>5. ASSUME Finalising(C)' PROVE on'[S] # on'[C]
      <3>1. CASE Finalising(C)
        BY <1>1, <2>2, <3>1 DEF SweeperFirst
      <3>2. CASE ~Finalising(C)
        <4>1. pc[C] = "queued" /\ Head(states[on[C]].lock) = C
          BY <1>2, <1>3, <1>4, <2>5, <3>2, Names DEF Finalising
        <4>2. on[S] = on[C] => states[on[C]].lock = <<S, C>>
          BY <2>2, <4>1 DEF SweeperFirst
        <4>3. Head(<<S, C>>) # C
          OBVIOUS
        <4>4. QED
          BY <1>1, <4>1, <4>2, <4>3
      <3>3. QED
        BY <3>1, <3>2
    <2>6. ASSUME pc'[C] = "queued"
          PROVE  /\ on'[S] = on'[C] => states'[on'[C]].lock = <<S, C>>
                 /\ \/ states'[on'[C]].ended
                    \/ pc'[S] = "done"
                    \/ pc'[S] = "queued" /\ on'[S] = on'[C]
      <3>1. pc[C] = "queued" /\ t # C /\ on[C] \in Ids
        BY <1>2, <1>3, <1>5, <2>6, Names DEF Locking, Finishing
      <3>2. on'[S] = on'[C] => states'[on'[C]].lock = <<S, C>>
        BY <1>1, <2>2, <3>1 DEF SweeperFirst
      <3>3. CASE states[on[C]].ended
        BY <1>1, <3>1, <3>2, <3>3
      <3>4. CASE pc[S] = "done"
        <4>1. t # S
          BY <1>1, <3>4 DEF Locking, Finishing, Watching
        <4>2. QED
          BY <1>3, <3>2, <3>4, <4>1, Names
      <3>5. CASE pc[S] = "queued" /\ on[S] = on[C]
        <4>1. CASE t = S
          <5>1. pc'[S] = "summarising"
            BY <1>2, <1>3, <3>5, <4>1
          <5>2. states'[on'[S]].ended
            BY <1>6, <5>1, Names DEF FinalisingEnds, Finalising
          <5>3. QED
            BY <1>1, <3>2, <3>5, <5>2
        <4>2. CASE t # S
          BY <1>1, <1>3, <3>2, <3>5, <4>2, Names
        <4>3. QED
          BY <4>1, <4>2
      <3>6. QED
        BY <2>2, <3>1, <3>3, <3>4, <3>5 DEF SweeperFirst
    <2>7. QED
      BY <2>3, <2>4, <2>5, <2>6 DEF SweeperFirst
  <1>9. BeforeMain'
    BY <1>3, <1>8 DEF BeforeMain
  <1>10. QED
    BY <1>6, <1>7, <1>9 DEF Locks

(* A finaliser that forgets the call, or any task that leaves its state.    *)
LEMMA LeftLocks ==
  ASSUME Base, Locks, NEW t \in Tasks, Left(t),
         NEW w \in {"idle", "iterating", "admitting", "unwinding", "done", "crashed"},
         pc' = [pc EXCEPT ![t] = w],
         \/ calls' = calls
         \/ Finalising(t) /\ calls' = [calls EXCEPT ![states[on[t]].call] = 0],
         t = "Sweeper" => w = "done" \/ Finalising(t),
         t = "Main" => w # "idle"
  PROVE  Locks'
  <1> DEFINE C == "Consumer"
             S == "Sweeper"
  <1>1. /\ pc'[t] = w /\ (\A u \in Tasks : u # t => pc'[u] = pc[u]) /\ Ids' = Ids
        /\ on'[t] = 0 /\ (\A u \in Tasks : u # t => on'[u] = on[u])
    BY DEF Base, Types, Left, Ids
  <1>2. /\ \A i \in Ids : /\ states'[i].call = states[i].call
                          /\ (states'[i].ended <=> states[i].ended)
                          /\ i # on[t] => states'[i] = states[i]
        /\ Locking(t) => states'[on[t]].lock = Without(states[on[t]].lock, t)
    BY DEF Left
  <1>3. /\ ~Locking(t)' /\ ~Finishing(t)' /\ ~Finalising(t)'
        /\ \A u \in Tasks : u # t => /\ Locking(u)' <=> Locking(u)
                                     /\ Finishing(u)' <=> Finishing(u)
                                     /\ Finalising(u)' <=> Finalising(u)
    BY <1>1 DEF Locking, Finishing, Finalising, Watching
  <1>4. FinalisingEnds'
    BY <1>1, <1>2, <1>3, WhoIsWhere DEF Locks, FinalisingEnds
  <1>5. \A d \in CallIds : calls'[d] \in {0, calls[d]}
    BY DEF Base, Types
  <1>6. \A i \in Ids : states[i].call \in CallIds
    <2>1. \A i \in Ids : states[i] \in CallStates
      BY ElementOfSeq DEF Base, Types, Ids
    <2>2. QED
      BY <2>1 DEF CallStates
  <1>7. NobodyElses'
    <2> SUFFICES ASSUME NEW u \in Tasks, Finishing(u)'
                 PROVE  calls'[states'[on'[u]].call] \in {0, on'[u]}
      BY DEF NobodyElses
    <2>1. u # t /\ Finishing(u) /\ on'[u] = on[u] /\ on[u] \in Ids
      BY <1>1, <1>3, WhoIsWhere
    <2>2. calls[states[on[u]].call] \in {0, on[u]}
      BY <2>1 DEF Locks, NobodyElses
    <2>3. QED
      BY <1>2, <1>5, <1>6, <2>1, <2>2
  <1>8. ASSUME pc'["Main"] = "idle"
        PROVE  SweeperFirst' /\ \A i \in Ids : LockHolds(i)'
    <2>1. t # "Main" /\ pc["Main"] = "idle"
      BY <1>1, <1>8, Names
    <2>2. SweeperFirst /\ \A i \in Ids : LockHolds(i)
      BY <2>1 DEF Locks, BeforeMain
    <2>3. ASSUME NEW i \in Ids, i # on[t] PROVE LockHolds(i)'
      <3>1. states'[i] = states[i] /\ i # 0
        BY <1>2, <2>3, Names
      <3>2. \A u \in Tasks : on'[u] = i <=> on[u] = i
        BY <1>1, <2>3, <3>1
      <3>3. LockHolds(i)
        BY <2>2, <2>3
      <3> HIDE DEF C, S
      <3>4. QED
        BY <3>1, <3>2, <3>3, Names DEF LockHolds
    <2>4. ASSUME NEW i \in Ids, i = on[t] PROVE LockHolds(i)'
      <3>1. Locking(t) /\ states'[i].lock = Without(states[i].lock, t) /\ LockHolds(i) /\ i # 0
        BY <1>2, <2>2, <2>4, WhoIsWhere, Names
      <3>2. CASE t = S
        <4>1. on'[S] = 0 /\ on'[C] = on[C] /\ on[S] = i
          BY <1>1, <2>4, <3>2, Names
        <4>2. states[i].lock \in IF on[C] = i THEN {<<S, C>>, <<C, S>>} ELSE {<<S>>}
          BY <3>1, <4>1 DEF LockHolds
        <4>3. states'[i].lock = IF on[C] = i THEN <<C>> ELSE <<>>
          <5>1. S # C
            OBVIOUS
          <5> HIDE DEF S, C
          <5>2. /\ Without(<<S, C>>, S) = <<C>> /\ Without(<<C, S>>, S) = <<C>>
            BY <5>1, WithoutOf
          <5>3. CASE on[C] = i
            BY <3>1, <3>2, <4>2, <5>2, <5>3
          <5>4. CASE on[C] # i
            BY <3>1, <3>2, <4>2, <5>1, <5>4, WithoutOf
          <5>5. QED
            BY <5>3, <5>4
        <4>4. QED
          BY <3>1, <4>1, <4>3 DEF LockHolds
      <3>3. CASE t = C
        <4>1. on'[C] = 0 /\ on'[S] = on[S] /\ on[C] = i
          BY <1>1, <2>4, <3>3, Names
        <4>2. states[i].lock \in IF on[S] = i THEN {<<S, C>>, <<C, S>>} ELSE {<<C>>}
          BY <3>1, <4>1 DEF LockHolds
        <4>3. states'[i].lock = IF on[S] = i THEN <<S>> ELSE <<>>
          <5>1. S # C
            OBVIOUS
          <5> HIDE DEF S, C
          <5>2. /\ Without(<<S, C>>, C) = <<S>> /\ Without(<<C, S>>, C) = <<S>>
            BY <5>1, WithoutOf
          <5>3. CASE on[S] = i
            BY <3>1, <3>3, <4>2, <5>2, <5>3
          <5>4. CASE on[S] # i
            BY <3>1, <3>3, <4>2, <5>1, <5>4, WithoutOf
          <5>5. QED
            BY <5>3, <5>4
        <4>4. QED
          BY <3>1, <4>1, <4>3 DEF LockHolds
      <3>4. QED
        BY <2>1, <3>2, <3>3, Names
    <2>5. ASSUME Locking(S)' PROVE IsTracked(on[S])'
      <3>1. t # S /\ Locking(S) /\ on[S] \in Ids /\ on'[S] = on[S]
        BY <1>1, <1>3, <2>5, Names, WhoIsWhere
      <3>2. calls[states[on[S]].call] = on[S]
        BY <2>2, <3>1 DEF SweeperFirst, IsTracked
      <3>3. calls'[states[on[S]].call] = on[S]
        <4>1. CASE calls' = calls
          BY <3>2, <4>1
        <4>2. CASE Finalising(t) /\ calls' = [calls EXCEPT ![states[on[t]].call] = 0]
          <5>1. t = C /\ on[C] \in Ids
            BY <2>1, <3>1, <4>2, Names, WhoIsWhere
          <5>2. on[S] # on[C]
            BY <2>2, <4>2, <5>1 DEF SweeperFirst
          <5>3. calls[states[on[C]].call] \in {0, on[C]}
            BY <4>2, <5>1, Names, WhoIsWhere DEF Locks, NobodyElses
          <5>4. states[on[S]].call # states[on[C]].call
            BY <3>1, <3>2, <5>2, <5>3, Names
          <5>5. QED
            BY <1>6, <3>1, <3>2, <4>2, <5>1, <5>4 DEF Base, Types
        <4>3. QED
          BY <4>1, <4>2
      <3>4. QED
        BY <1>2, <3>1, <3>3 DEF IsTracked
    <2>6. ASSUME Finalising(C)' PROVE on'[S] # on'[C]
      <3>1. t = S /\ Finalising(C) /\ on'[C] = on[C] /\ on'[S] = 0 /\ on[C] \in Ids
        <4>1. t # C
          BY <1>3, <2>6
        <4>2. QED
          BY <1>1, <1>3, <2>1, <2>6, <4>1, Names, WhoIsWhere
      <3>2. QED
        BY <3>1, Names
    <2>7. ASSUME pc'[C] = "queued"
          PROVE  /\ on'[S] # on'[C]
                 /\ states'[on'[C]].ended \/ pc'[S] = "done"
      <3>1. t = S /\ pc[C] = "queued" /\ on'[C] = on[C] /\ on'[S] = 0
        BY <1>1, <2>1, <2>7, Names
      <3>2. on[C] \in Ids
        BY <3>1, Names, WhoIsWhere DEF Finishing
      <3>3. CASE w = "done"
        BY <1>1, <3>1, <3>2, <3>3, Names
      <3>4. CASE Finalising(S)
        <4>1. pc[S] # "done" /\ pc[S] # "queued"
          BY <3>4 DEF Finalising
        <4>2. states[on[C]].ended
          BY <2>2, <3>1, <4>1 DEF SweeperFirst
        <4>3. QED
          BY <1>2, <3>1, <3>2, <4>2, Names
      <3>5. QED
        BY <3>1, <3>3, <3>4
    <2>8. SweeperFirst'
      BY <2>5, <2>6, <2>7 DEF SweeperFirst
    <2>9. QED
      BY <2>3, <2>4, <2>8
  <1>9. BeforeMain'
    BY <1>1, <1>8 DEF BeforeMain
  <1>10. QED
    BY <1>4, <1>7, <1>9 DEF Locks

LEMMA LeavingLocks ==
  ASSUME Base, Locks, NEW t \in Tasks,
         SettleStep(t) \/ QuitStep(t) \/ (t = "Consumer" /\ FreeStep)
  PROVE  Locks'
  <1>1. CASE SettleStep(t)
    <2> DEFINE w == IF t = "Consumer" THEN "admitting" ELSE "iterating"
    <2>1. /\ Left(t) /\ Finalising(t) /\ pc' = [pc EXCEPT ![t] = w]
          /\ calls' = [calls EXCEPT ![states[on[t]].call] = 0]
      BY <1>1, SettleFacts
    <2>2. /\ w \in {"idle", "iterating", "admitting", "unwinding", "done", "crashed"}
          /\ w # "idle"
      OBVIOUS
    <2> HIDE DEF w
    <2>3. QED
      BY <2>1, <2>2, LeftLocks
  <1>2. CASE QuitStep(t)
    <2> DEFINE w == IF t = "Consumer" THEN "unwinding" ELSE IF t = "Sweeper" THEN "done" ELSE "crashed"
    <2>1. Left(t) /\ calls' = calls /\ pc' = [pc EXCEPT ![t] = w]
      BY <1>2, QuitFacts, Names
    <2>2. /\ w \in {"idle", "iterating", "admitting", "unwinding", "done", "crashed"}
          /\ w # "idle" /\ (t = "Sweeper" => w = "done")
      OBVIOUS
    <2> HIDE DEF w
    <2>3. QED
      BY <2>1, <2>2, LeftLocks
  <1>3. CASE t = "Consumer" /\ FreeStep
    <2>1. Left(t) /\ calls' = calls /\ pc' = [pc EXCEPT ![t] = "idle"]
      BY <1>3, FreeFacts
    <2>2. QED
      BY <1>3, <2>1, LeftLocks
  <1>4. QED
    BY <1>1, <1>2, <1>3

(* Only the consumer adds a turn, and only while Main is idle.              *)
LEMMA AdmitLocks ==
  ASSUME Base, Locks, SegmentInHand, Admit
  PROVE  Locks'
  <1> DEFINE C == "Consumer"
             S == "Sweeper"
  <1> PICK c \in CallIds : c = topic[segment]
    BY AdmitFrame
  <1>1. /\ pc[C] = "admitting" /\ pc["Main"] = "idle" /\ on[C] = 0
    BY AdmitFrame
  <1>2. PICK s \in 1..(Len(states) + 1) :
          /\ calls[c] = IF s \in Ids THEN s ELSE 0
          /\ calls' = [calls EXCEPT ![c] = s]
          /\ Len(states') = IF s \in Ids THEN Len(states) ELSE Len(states) + 1
          /\ \A i \in Ids : i # s => states'[i] = states[i]
          /\ s \in Ids => /\ states'[s].call = states[s].call
                          /\ (states'[s].ended <=> states[s].ended)
          /\ LET lock == IF s \in Ids THEN states[s].lock ELSE <<>> IN
             \/ /\ pc' \in {[pc EXCEPT ![C] = "live_queued"], [pc EXCEPT ![C] = "analysing"]}
                /\ on' = [on EXCEPT ![C] = s]
                /\ states'[s].lock = Append(lock, C)
             \/ /\ pc' = [pc EXCEPT ![C] = "idle"]
                /\ on' = [on EXCEPT ![C] = 0]
                /\ states'[s].lock = lock
    BY AdmitFacts DEF Base
  <1>3. SweeperFirst /\ \A i \in Ids : LockHolds(i)
    BY <1>1 DEF Locks, BeforeMain
  <1>4. /\ Ids' \subseteq Ids \cup {s} /\ Ids \subseteq Ids' /\ s # 0
        /\ \A u \in Tasks : on[u] = s => s \in Ids
    <2>1. Len(states) \in Nat
      BY LenProperties DEF Base, Types
    <2>2. Ids' \subseteq Ids \cup {s} /\ Ids \subseteq Ids' /\ s # 0
      BY <1>2, <2>1 DEF Ids
    <2>3. QED
      BY <2>2, WhoIsWhere
  <1>5. /\ \A u \in Tasks : u # C => pc'[u] = pc[u] /\ on'[u] = on[u]
        /\ pc'[C] \in {"live_queued", "analysing", "idle"}
        /\ on'[C] \in {0, s}
    BY <1>2, Names DEF Base, Types
  <1>6. /\ ~Finishing(C)' /\ ~Finalising(C)'
        /\ \A u \in Tasks : u # C => /\ Locking(u)' <=> Locking(u)
                                     /\ Finishing(u)' <=> Finishing(u)
                                     /\ Finalising(u)' <=> Finalising(u)
    BY <1>5 DEF Locking, Finishing, Finalising, Watching
  <1>7. \A i \in Ids : states'[i].call = states[i].call /\ (states'[i].ended <=> states[i].ended)
    BY <1>2
  <1>8. FinalisingEnds'
    BY <1>5, <1>6, <1>7, WhoIsWhere DEF Locks, FinalisingEnds
  <1>9. Finishing(S) => calls'[states[on[S]].call] = on[S] /\ on[S] \in Ids
    <2> SUFFICES ASSUME Finishing(S)
                 PROVE  calls'[states[on[S]].call] = on[S] /\ on[S] \in Ids
      OBVIOUS
    <2>1. on[S] \in Ids /\ calls[states[on[S]].call] = on[S]
      BY <1>3, WhoIsWhere, Names DEF SweeperFirst, IsTracked
    <2>2. states[on[S]].call = c => s = on[S]
      BY <1>2, <2>1, Names
    <2>3. QED
      BY <1>2, <2>1, <2>2 DEF Base, Types
  <1>10. NobodyElses'
    <2> SUFFICES ASSUME NEW u \in Tasks, Finishing(u)'
                 PROVE  calls'[states'[on'[u]].call] \in {0, on'[u]}
      BY DEF NobodyElses
    <2>1. u = S /\ Finishing(S)
      <3>1. u # C /\ Finishing(u)
        BY <1>6
      <3>2. u # "Main"
        BY <1>1, <3>1 DEF Finishing
      <3>3. QED
        BY <3>1, <3>2, Names
    <2>2. QED
      BY <1>5, <1>7, <1>9, <2>1, Names
  <1>11. ASSUME NEW i \in Ids' PROVE LockHolds(i)'
    <2>1. CASE i # s
      <3>1. i \in Ids /\ states'[i] = states[i] /\ i # 0
        BY <1>2, <1>4, <2>1, Names
      <3>2. on'[C] # i /\ on[C] # i /\ on'[S] = on[S] /\ LockHolds(i)
        BY <1>1, <1>3, <1>5, <2>1, <3>1, Names
      <3>3. QED
        BY <3>1, <3>2 DEF LockHolds
    <2>2. CASE i = s
      <3> DEFINE lock == IF s \in Ids THEN states[s].lock ELSE <<>>
      <3>1. lock = IF on[S] = s THEN <<S>> ELSE <<>>
        <4>1. CASE s \in Ids
          BY <1>1, <1>3, <1>4, <4>1 DEF LockHolds
        <4>2. CASE s \notin Ids
          BY <1>4, <4>2, Names
        <4>3. QED
          BY <4>1, <4>2
      <3>2. /\ on'[S] = on[S]
            /\ \/ on'[C] = s /\ states'[s].lock = Append(lock, C)
               \/ on'[C] = 0 /\ states'[s].lock = lock
        <4>1. on'[S] = on[S]
          BY <1>5, Names
        <4>2. on \in [Tasks -> 0..Len(states)]
          BY DEF Base, Types
        <4> HIDE DEF lock
        <4>3. \/ on' = [on EXCEPT ![C] = s] /\ states'[s].lock = Append(lock, C)
              \/ on' = [on EXCEPT ![C] = 0] /\ states'[s].lock = lock
          BY <1>2 DEF lock
        <4>4. QED
          BY <4>1, <4>2, <4>3, Names
      <3> HIDE DEF lock
      <3>3. states'[s].lock = IF on[S] = s THEN (IF on'[C] = s THEN <<S, C>> ELSE <<S>>)
                                           ELSE (IF on'[C] = s THEN <<C>> ELSE <<>>)
        <4>1. Append(<<S>>, C) = <<S, C>> /\ Append(<<>>, C) = <<C>>
          BY AppendToOne
        <4>2. QED
          BY <1>4, <3>1, <3>2, <4>1
      <3>4. QED
        BY <2>2, <3>2, <3>3 DEF LockHolds
    <2>3. QED
      BY <2>1, <2>2
  <1>12. SweeperFirst'
    <2>1. ASSUME Locking(S)' PROVE IsTracked(on[S])'
      BY <1>5, <1>6, <1>7, <1>9, <2>1, Names, WhoIsWhere DEF IsTracked
    <2>2. pc'[C] # "queued"
      BY <1>5
    <2>3. QED
      BY <1>6, <2>1, <2>2 DEF SweeperFirst
  <1>13. BeforeMain'
    BY <1>11, <1>12 DEF BeforeMain
  <1>14. QED
    BY <1>8, <1>10, <1>13 DEF Locks

-----------------------------------------------------------------------------
(* The books.                                                               *)

LEMMA Appended ==
  ASSUME NEW U, NEW seq \in Seq(U), NEW r \in U
  PROVE  /\ \A k \in DOMAIN seq : k \in DOMAIN Append(seq, r) /\ Append(seq, r)[k] = seq[k]
         /\ \E k \in DOMAIN Append(seq, r) : Append(seq, r)[k] = r
         /\ Append(seq, r) # seq
  <1>1. Len(seq) \in Nat /\ DOMAIN seq = 1..Len(seq)
    BY LenProperties
  <1>2. /\ Append(seq, r) \in Seq(U)
        /\ Len(Append(seq, r)) = Len(seq) + 1
        /\ \A k \in 1..Len(seq) : Append(seq, r)[k] = seq[k]
        /\ Append(seq, r)[Len(seq) + 1] = r
    BY AppendProperties
  <1>3. DOMAIN Append(seq, r) = 1..(Len(seq) + 1)
    BY <1>2, LenProperties
  <1>4. \A k \in DOMAIN seq : k \in DOMAIN Append(seq, r) /\ Append(seq, r)[k] = seq[k]
    BY <1>1, <1>2, <1>3
  <1>5. Len(seq) + 1 \in DOMAIN Append(seq, r)
    BY <1>1, <1>3
  <1>6. Append(seq, r) # seq
    <2> DEFINE new == Append(seq, r)
    <2>1. Len(new) = Len(seq) + 1
      BY <1>2
    <2> HIDE DEF new
    <2>2. new # seq
      BY <1>1, <2>1
    <2>3. QED
      BY <2>2 DEF new
  <1>7. QED
    BY <1>2, <1>4, <1>5, <1>6

(* What is settled stays settled.                                           *)
LEMMA SettledStays ==
  ASSUME insights \in Seq(Insights), NEW r,
         insights' = insights \/ (r \in Insights /\ insights' = Append(insights, r)),
         postFailed \subseteq postFailed'
  PROVE  /\ \A i : Settled(i) => Settled(i)'
         /\ insights' # insights /\ r.kind = "post_call" => Settled(r.state)'
  <1>1. ASSUME insights' # insights
        PROVE  /\ \A k \in DOMAIN insights : k \in DOMAIN insights' /\ insights'[k] = insights[k]
               /\ \E k \in DOMAIN insights' : insights'[k] = r
    <2>1. insights' = Append(insights, r) /\ r \in Insights
      BY <1>1
    <2>2. /\ \A k \in DOMAIN insights : /\ k \in DOMAIN Append(insights, r)
                                      /\ Append(insights, r)[k] = insights[k]
          /\ \E k \in DOMAIN Append(insights, r) : Append(insights, r)[k] = r
      BY <2>1, Appended
    <2>3. QED
      BY <2>1, <2>2
  <1>2. \A k \in DOMAIN insights : k \in DOMAIN insights' /\ insights'[k] = insights[k]
    BY <1>1
  <1>3. \A i : Posts(i) # {} => Posts(i)' # {}
    <2> SUFFICES ASSUME NEW i, NEW k \in Posts(i) PROVE k \in Posts(i)'
      OBVIOUS
    <2>1. QED
      BY <1>2 DEF Posts
  <1>4. \A i : Settled(i) => Settled(i)'
    BY <1>3 DEF Settled
  <1>5. insights' # insights /\ r.kind = "post_call" => Posts(r.state)' # {}
    BY <1>1 DEF Posts
  <1>6. QED
    BY <1>4, <1>5 DEF Settled

(* A step that untracks no call keeps every call accounted for, if what is  *)
(* ended has its finaliser, or the trace of one.                            *)
LEMMA AccountsKept ==
  ASSUME EveryCallIsAccountedFor, Len(states') = Len(states), calls' = calls,
         \A i \in Ids : /\ states'[i].call = states[i].call
                        /\ Settled(i) => Settled(i)'
                        /\ states'[i].ended =>
                             states[i].ended \/ \E t \in Tasks : Finalising(t)' /\ on'[t] = i,
         abandoned \subseteq abandoned',
         \A t \in Tasks : Finalising(t) =>
           on[t] \in abandoned' \/ (Finalising(t)' /\ on'[t] = on[t])
  PROVE  EveryCallIsAccountedFor'
  <1>1. Ids' = Ids
    BY DEF Ids
  <1>2. \A i \in Ids : IsTracked(i)' <=> IsTracked(i)
    BY DEF IsTracked
  <1>3. ASSUME NEW i \in Ids, ~IsTracked(i)' PROVE Settled(i)'
    BY <1>2, <1>3 DEF EveryCallIsAccountedFor
  <1>4. ASSUME NEW i \in Ids, IsTracked(i)', states'[i].ended
        PROVE  i \in abandoned' \/ \E t \in Tasks : Finalising(t)' /\ on'[t] = i
    <2>1. CASE states[i].ended
      <3>1. i \in abandoned \/ \E t \in Tasks : Finalising(t) /\ on[t] = i
        BY <1>2, <1>4, <2>1 DEF EveryCallIsAccountedFor
      <3>2. QED
        BY <3>1
    <2>2. QED
      BY <1>4, <2>1
  <1>5. QED
    BY <1>1, <1>3, <1>4 DEF EveryCallIsAccountedFor

LEMMA QuietAccounts ==
  ASSUME Base, EveryCallIsAccountedFor, QuietStep
  PROVE  EveryCallIsAccountedFor'
  <1>1. /\ UNCHANGED <<states, calls, on, insights, postFailed, abandoned>>
        /\ \A t \in Tasks : pc'[t] = pc[t] \/ (~Locking(t) /\ ~Locking(t)')
    BY QuietFacts DEF Base
  <1>2. \A t \in Tasks : Finalising(t)' <=> Finalising(t)
    BY <1>1 DEF Locking, Finishing, Finalising
  <1>3. \A i : Settled(i)' <=> Settled(i)
    BY <1>1 DEF Settled, Posts
  <1>4. QED
    BY <1>1, <1>2, <1>3, AccountsKept

LEMMA ClaimAccounts ==
  ASSUME Base, EveryCallIsAccountedFor, NEW t \in Tasks, NEW c \in CallIds, ClaimStep(t, c)
  PROVE  EveryCallIsAccountedFor'
  <1> PICK s \in Ids : s = calls[c]
    BY ClaimFacts DEF Base, ClaimStep
  <1>1. /\ on' = [on EXCEPT ![t] = s]
        /\ Len(states') = Len(states)
        /\ \A i \in Ids : states'[i].call = states[i].call /\ (i # s => states'[i] = states[i])
        /\ \/ pc' = [pc EXCEPT ![t] = "summarising"]
           \/ ~states'[s].ended /\ pc' = [pc EXCEPT ![t] = "queued"]
    BY ClaimFacts DEF Base, ClaimStep
  <1>2. UNCHANGED <<calls, insights, postFailed, abandoned>> /\ pc[t] \in {"idle", "iterating"}
    BY ClaimFrame DEF Base
  <1>3. \A i : Settled(i)' <=> Settled(i)
    BY <1>2 DEF Settled, Posts
  <1>4. /\ on'[t] = s /\ (\A u \in Tasks : u # t => on'[u] = on[u] /\ pc'[u] = pc[u])
        /\ states'[s].ended => pc'[t] = "summarising"
    BY <1>1 DEF Base, Types
  <1>5. \A i \in Ids : states'[i].ended =>
          states[i].ended \/ \E u \in Tasks : Finalising(u)' /\ on'[u] = i
    BY <1>1, <1>4 DEF Finalising
  <1>6. \A u \in Tasks : Finalising(u) => Finalising(u)' /\ on'[u] = on[u]
    BY <1>2, <1>4 DEF Finalising
  <1>7. QED
    BY <1>1, <1>2, <1>3, <1>5, <1>6, AccountsKept

LEMMA WorkAccounts ==
  ASSUME Base, EveryCallIsAccountedFor, NEW t \in Tasks, WorkStep(t)
  PROVE  EveryCallIsAccountedFor'
  <1>1. /\ UNCHANGED <<calls, on, insights, postFailed, abandoned>>
        /\ Len(states') = Len(states)
        /\ \A i \in Ids : states'[i].call = states[i].call
    BY WorkFacts
  <1>2. PICK w \in Awaits :
          /\ pc' = [pc EXCEPT ![t] = w]
          /\ \/ pc[t] = "queued" /\ w = "summarising"
             \/ pc[t] = "summarising" /\ w = "reporting"
             \/ Watching(t) /\ w \in {"live_queued", "analysing", "sending"}
    BY WorkFacts
  <1>3. pc'[t] = w /\ \A u \in Tasks : u # t => pc'[u] = pc[u]
    BY <1>2 DEF Base, Types
  <1>4. \A u \in Tasks : Finalising(u) => Finalising(u)'
    BY <1>2, <1>3 DEF Finalising, Watching
  <1>5. \A i : Settled(i)' <=> Settled(i)
    BY <1>1 DEF Settled, Posts
  <1>6. ASSUME NEW i \in Ids, states'[i].ended, ~states[i].ended
        PROVE  Finalising(t)' /\ on'[t] = i
    <2>1. i = on[t] /\ Finishing(t)
      BY <1>6, WorkFacts
    <2>2. QED
      BY <1>1, <1>2, <1>3, <2>1 DEF Finishing, Finalising, Watching
  <1>7. QED
    BY <1>1, <1>4, <1>5, <1>6, AccountsKept

LEMMA QuitAccounts ==
  ASSUME Base, EveryCallIsAccountedFor, NEW t \in Tasks,
         QuitStep(t) \/ (t = "Consumer" /\ FreeStep)
  PROVE  EveryCallIsAccountedFor'
  <1>1. /\ Left(t) /\ UNCHANGED <<calls, postFailed>>
        /\ abandoned' = IF Finalising(t) THEN abandoned \cup {on[t]} ELSE abandoned
        /\ \E w : pc' = [pc EXCEPT ![t] = w]
        /\ \/ insights' = insights
           \/ insights' = Append(insights, Summary(t))
           \/ Watching("Consumer") /\ insights' = Append(insights, Signals)
    <2>1. CASE QuitStep(t)
      BY <2>1, QuitFacts
    <2>2. CASE t = "Consumer" /\ FreeStep
      BY <2>2, FreeFacts DEF Finalising, Watching
    <2>3. QED
      BY <2>1, <2>2
  <1>2. /\ Len(states') = Len(states)
        /\ \A i \in Ids : states'[i].call = states[i].call /\ (states'[i].ended <=> states[i].ended)
    BY <1>1 DEF Left
  <1>3. \A u \in Tasks : u # t => pc'[u] = pc[u] /\ on'[u] = on[u]
    BY <1>1 DEF Left, Base, Types
  <1>4. \A i : Settled(i) => Settled(i)'
    <2>1. insights \in Seq(Insights)
      BY DEF Base, Types
    <2>2. \E r \in Insights : insights' = insights \/ insights' = Append(insights, r)
      BY <1>1, RecordsAreInsights
    <2>3. QED
      BY <1>1, <2>1, <2>2, SettledStays
  <1>5. \A u \in Tasks : Finalising(u) =>
          on[u] \in abandoned' \/ (Finalising(u)' /\ on'[u] = on[u])
    BY <1>1, <1>3 DEF Finalising
  <1>6. abandoned \subseteq abandoned'
    BY <1>1
  <1>7. QED
    BY <1>1, <1>2, <1>4, <1>5, <1>6, AccountsKept

(* The call that is forgotten has been settled, and it is that state's.     *)
LEMMA SettleAccounts ==
  ASSUME Base, Locks, EveryCallIsAccountedFor, NEW t \in Tasks, SettleStep(t)
  PROVE  EveryCallIsAccountedFor'
  <1> PICK s \in Ids : s = on[t]
    BY SettleFacts, WhoIsWhere
  <1> DEFINE d == states[s].call
  <1>1. /\ Left(t) /\ Finalising(t) /\ UNCHANGED abandoned
        /\ \E w : pc' = [pc EXCEPT ![t] = w]
        /\ calls' = [calls EXCEPT ![d] = 0]
        /\ \/ insights' = insights /\ postFailed' = postFailed \cup {s}
           \/ insights' = Append(insights, Summary(t)) /\ postFailed' = postFailed
    BY SettleFacts
  <1>2. /\ Len(states') = Len(states) /\ Ids' = Ids
        /\ \A i \in Ids : states'[i].call = states[i].call /\ (states'[i].ended <=> states[i].ended)
    BY <1>1 DEF Left, Ids
  <1>3. \A u \in Tasks : u # t => pc'[u] = pc[u] /\ on'[u] = on[u]
    BY <1>1 DEF Left, Base, Types
  <1>4. insights \in Seq(Insights) /\ Summary(t) \in Insights
    BY RecordsAreInsights DEF Base, Types
  <1>5. \A i : Settled(i) => Settled(i)'
    BY <1>1, <1>4, SettledStays
  <1>6. Settled(s)'
    <2>1. CASE postFailed' = postFailed \cup {s}
      BY <2>1 DEF Settled
    <2>2. CASE insights' = Append(insights, Summary(t)) /\ postFailed' = postFailed
      <3>1. Append(insights, Summary(t)) # insights
        BY <1>4, Appended
      <3>2. insights' # insights
        BY <2>2, <3>1
      <3>3. Summary(t).kind = "post_call" /\ Summary(t).state = s
        BY DEF Summary
      <3>4. PICK r : r = Summary(t)
        OBVIOUS
      <3>5. Settled(r.state)'
        BY <1>4, <2>2, <3>2, <3>3, <3>4, SettledStays
      <3>6. QED
        BY <3>3, <3>4, <3>5
    <2>3. QED
      BY <1>1, <2>1, <2>2
  <1>7. /\ calls[d] \in {0, s}
        /\ d \in CallIds /\ (\A i \in Ids : states[i].call \in CallIds)
        /\ calls'[d] = 0 /\ \A e \in CallIds : e # d => calls'[e] = calls[e]
    <2>1. \A i \in Ids : states[i] \in CallStates
      BY ElementOfSeq DEF Base, Types, Ids
    <2>2. \A i \in Ids : states[i].call \in CallIds
      BY <2>1 DEF CallStates
    <2>3. Finishing(t)
      BY <1>1, WhoIsWhere
    <2>4. calls[d] \in {0, s}
      BY <2>3 DEF Locks, NobodyElses
    <2>5. QED
      BY <1>1, <2>2, <2>4 DEF Base, Types
  <1>8. ASSUME NEW i \in Ids, ~IsTracked(i)' PROVE Settled(i)'
    <2>1. CASE ~IsTracked(i)
      BY <1>5, <2>1 DEF EveryCallIsAccountedFor
    <2>2. CASE IsTracked(i)
      <3>1. calls[states[i].call] = i /\ calls'[states[i].call] # i /\ i # 0
        BY <1>2, <1>8, <2>2, Names DEF IsTracked
      <3>2. states[i].call = d
        BY <1>7, <3>1
      <3>3. i = s
        BY <1>7, <3>1, <3>2
      <3>4. QED
        BY <1>6, <3>3
    <2>3. QED
      BY <2>1, <2>2
  <1>9. ASSUME NEW i \in Ids, IsTracked(i)', states'[i].ended
        PROVE  i \in abandoned' \/ \E u \in Tasks : Finalising(u)' /\ on'[u] = i
    <2>1. calls'[states[i].call] = i /\ i # 0 /\ states[i].ended
      BY <1>2, <1>9, Names DEF IsTracked
    <2>2. states[i].call # d /\ calls[states[i].call] = i
      BY <1>7, <2>1
    <2>3. i # s
      BY <2>2
    <2>4. i \in abandoned \/ \E u \in Tasks : Finalising(u) /\ on[u] = i
      BY <2>1, <2>2 DEF EveryCallIsAccountedFor, IsTracked
    <2>5. ASSUME NEW u \in Tasks, Finalising(u), on[u] = i PROVE Finalising(u)' /\ on'[u] = i
      BY <1>3, <2>3, <2>5 DEF Finalising
    <2>6. QED
      BY <1>1, <2>4, <2>5
  <1>10. QED
    BY <1>2, <1>8, <1>9 DEF EveryCallIsAccountedFor

LEMMA AdmitAccounts ==
  ASSUME Base, SegmentInHand, EveryCallIsAccountedFor, Admit
  PROVE  EveryCallIsAccountedFor'
  <1> DEFINE C == "Consumer"
  <1> PICK c \in CallIds : c = topic[segment]
    BY AdmitFrame
  <1>1. /\ pc[C] = "admitting" /\ UNCHANGED <<insights, postFailed, abandoned>>
    BY AdmitFrame
  <1>2. PICK s \in 1..(Len(states) + 1) :
          /\ calls[c] = IF s \in Ids THEN s ELSE 0
          /\ calls' = [calls EXCEPT ![c] = s]
          /\ Len(states') = IF s \in Ids THEN Len(states) ELSE Len(states) + 1
          /\ \A i \in Ids : i # s => states'[i] = states[i]
          /\ s \in Ids => /\ states'[s].call = states[s].call
                          /\ (states'[s].ended <=> states[s].ended)
          /\ s \notin Ids => states'[s].call = c /\ ~states'[s].ended
          /\ \E w : pc' = [pc EXCEPT ![C] = w]
          /\ \E w : on' = [on EXCEPT ![C] = w]
    BY AdmitFacts DEF Base
  <1>3. Ids' \subseteq Ids \cup {s} /\ s # 0
    <2>1. Len(states) \in Nat
      BY LenProperties DEF Base, Types
    <2>2. QED
      BY <1>2, <2>1 DEF Ids
  <1>4. \A u \in Tasks : u # C => pc'[u] = pc[u] /\ on'[u] = on[u]
    BY <1>2 DEF Base, Types
  <1>5. \A u \in Tasks : Finalising(u) => Finalising(u)' /\ on'[u] = on[u]
    BY <1>1, <1>4 DEF Finalising
  <1>6. \A i : Settled(i)' <=> Settled(i)
    BY <1>1 DEF Settled, Posts
  <1>7. calls'[c] = s /\ \A e \in CallIds : e # c => calls'[e] = calls[e]
    BY <1>2 DEF Base, Types
  <1>8. \A i \in Ids : states[i].call \in CallIds
    <2>1. \A i \in Ids : states[i] \in CallStates
      BY ElementOfSeq DEF Base, Types, Ids
    <2>2. QED
      BY <2>1 DEF CallStates
  <1>9. s \in Ids => states[s].call = c /\ IsTracked(s)
    BY <1>2, <1>3 DEF Base, CallsMatch, IsTracked
  <1>10. IsTracked(s)'
    BY <1>2, <1>7, <1>9 DEF IsTracked
  <1>11. ASSUME NEW i \in Ids, i # s PROVE (IsTracked(i)' <=> IsTracked(i)) /\ states'[i] = states[i]
    <2>1. states'[i] = states[i] /\ i # 0
      BY <1>2, <1>11, Names
    <2>2. CASE states[i].call = c
      BY <1>2, <1>7, <1>11, <2>1, <2>2 DEF IsTracked
    <2>3. CASE states[i].call # c
      BY <1>7, <1>8, <2>1, <2>3 DEF IsTracked
    <2>4. QED
      BY <2>1, <2>2, <2>3
  <1>12. ASSUME NEW i \in Ids'
         PROVE  /\ ~IsTracked(i)' => Settled(i)'
                /\ IsTracked(i)' /\ states'[i].ended =>
                     i \in abandoned' \/ \E u \in Tasks : Finalising(u)' /\ on'[u] = i
    <2>1. CASE i = s
      <3>1. states'[i].ended => i \in Ids /\ IsTracked(i) /\ states[i].ended
        BY <1>2, <1>9, <2>1
      <3>2. states'[i].ended => i \in abandoned \/ \E u \in Tasks : Finalising(u) /\ on[u] = i
        BY <3>1 DEF EveryCallIsAccountedFor
      <3>3. QED
        BY <1>1, <1>5, <1>10, <2>1, <3>2
    <2>2. CASE i # s
      <3>1. i \in Ids
        BY <1>3, <2>2
      <3>2. /\ ~IsTracked(i) => Settled(i)
            /\ IsTracked(i) /\ states[i].ended =>
                 i \in abandoned \/ \E u \in Tasks : Finalising(u) /\ on[u] = i
        BY <3>1 DEF EveryCallIsAccountedFor
      <3>3. QED
        BY <1>1, <1>5, <1>6, <1>11, <2>2, <3>1, <3>2
    <2>3. QED
      BY <2>1, <2>2
  <1>13. QED
    BY <1>12 DEF EveryCallIsAccountedFor

(* A step that takes nothing off the topic keeps what was heard, and what   *)
(* is in hand stays there until it is heard.                                *)
LEMMA HearingKept ==
  ASSUME SegmentInHand, EveryFinalIsHeard, UNCHANGED <<topic, position, segment>>,
         Len(states') = Len(states), \A i \in Ids : states'[i].turns = states[i].turns,
         (Finishing("Consumer") \/ pc["Consumer"] = "admitting")' =>
            Finishing("Consumer") \/ pc["Consumer"] = "admitting",
         (Watching("Consumer") \/ pc["Consumer"] = "idle")' =>
            Watching("Consumer") \/ pc["Consumer"] = "idle"
  PROVE  SegmentInHand' /\ EveryFinalIsHeard'
  <1>1. \A i : Heard(i)' <=> Heard(i)
    BY DEF Heard, Ids
  <1>2. SegmentInHand'
    BY <1>1 DEF SegmentInHand
  <1>3. ASSUME NEW i \in 1..position
        PROVE  topic[i] = Other \/ Heard(i) \/ (segment = i /\ pc'["Consumer"] # "idle")
    <2>1. topic[i] = Other \/ Heard(i) \/ (segment = i /\ pc["Consumer"] # "idle")
      BY DEF EveryFinalIsHeard, Heard
    <2>2. CASE segment = i /\ pc["Consumer"] # "idle" /\ pc'["Consumer"] = "idle"
      <3>1. Watching("Consumer")
        BY <2>2
      <3>2. QED
        BY <2>2, <3>1 DEF SegmentInHand
    <2>3. QED
      BY <2>1, <2>2
  <1>4. EveryFinalIsHeard'
    BY <1>1, <1>3 DEF EveryFinalIsHeard, Heard
  <1>5. QED
    BY <1>2, <1>4

(* The consumer takes the next record, and it is a final.                   *)
LEMMA HearingTake ==
  ASSUME Base, SegmentInHand, EveryFinalIsHeard, UNCHANGED topic,
         Len(states') = Len(states), \A i \in Ids : states'[i].turns = states[i].turns,
         pc["Consumer"] = "idle",
         Finishing("Consumer")' \/ pc'["Consumer"] = "admitting",
         position' = position + 1, segment' = position',
         segment' \in 1..Len(topic), topic[segment'] \in CallIds
  PROVE  SegmentInHand' /\ EveryFinalIsHeard'
  <1>1. \A i : Heard(i)' <=> Heard(i)
    BY DEF Heard, Ids
  <1>2. pc'["Consumer"] \notin {"idle", "live_queued", "analysing", "sending"}
    BY DEF Finishing
  <1>3. SegmentInHand'
    BY <1>2 DEF SegmentInHand, Watching
  <1>4. ASSUME NEW i \in 1..position'
        PROVE  topic[i] = Other \/ Heard(i) \/ segment' = i
    <2>1. i \in 1..position \/ i = position + 1
      BY DEF Base, Types
    <2>2. QED
      BY <2>1 DEF EveryFinalIsHeard, Heard
  <1>5. EveryFinalIsHeard'
    BY <1>1, <1>2, <1>4 DEF EveryFinalIsHeard, Heard
  <1>6. QED
    BY <1>3, <1>5

LEMMA QuietHearing ==
  ASSUME Base, SegmentInHand, EveryFinalIsHeard, QuietStep
  PROVE  SegmentInHand' /\ EveryFinalIsHeard'
  <1>1. UNCHANGED <<topic, states>>
    BY QuietFacts DEF Base
  <1>2. Len(states') = Len(states) /\ \A i \in Ids : states'[i].turns = states[i].turns
    BY <1>1
  <1>3. \A i : Heard(i)' <=> Heard(i)
    BY <1>1 DEF Heard, Ids
  <1>4. CASE SkipRecord
    <2>1. /\ topic[position + 1] = Other /\ position' = position + 1
          /\ UNCHANGED <<segment, pc>>
      BY <1>4 DEF SkipRecord, FinalFor, taskVars
    <2>2. SegmentInHand'
      BY <1>1, <1>3, <2>1 DEF SegmentInHand, Finishing, Watching
    <2>3. ASSUME NEW i \in 1..position'
          PROVE  topic[i] = Other \/ Heard(i) \/ (segment = i /\ pc["Consumer"] # "idle")
      <3>1. i \in 1..position \/ i = position + 1
        BY <2>1 DEF Base, Types
      <3>2. QED
        BY <2>1, <3>1 DEF EveryFinalIsHeard, Heard
    <2>4. EveryFinalIsHeard'
      BY <1>1, <1>3, <2>1, <2>3 DEF EveryFinalIsHeard, Heard
    <2>5. QED
      BY <2>2, <2>4
  <1>5. CASE Rebalance
    <2>1. /\ position' \in committed..(position - 1) /\ UNCHANGED <<segment, pc>>
      BY <1>5 DEF Rebalance, taskVars
    <2>2. SegmentInHand'
      BY <1>1, <1>3, <2>1 DEF SegmentInHand, Finishing, Watching
    <2>3. \A i \in 1..position' : i \in 1..position
      BY <2>1 DEF Base, Types
    <2>4. EveryFinalIsHeard'
      BY <1>1, <1>3, <2>1, <2>3 DEF EveryFinalIsHeard, Heard
    <2>5. QED
      BY <2>2, <2>4
  <1>6. CASE \E c \in CallIds : TakeFinal(c) /\ pc'["Consumer"] = "admitting"
    <2>1. /\ pc["Consumer"] = "idle" /\ position < Len(topic) /\ topic[position + 1] \in CallIds
          /\ position' = position + 1 /\ segment' = position + 1
      BY <1>6 DEF TakeFinal, At, FinalFor
    <2>2. position + 1 \in 1..Len(topic)
      <3>1. Len(topic) \in Nat
        BY LenProperties DEF Base, Types
      <3>2. QED
        BY <2>1, <3>1 DEF Base, Types
    <2>3. QED
      BY <1>1, <1>2, <1>6, <2>1, <2>2, HearingTake
  <1>7. CASE \/ Sweep \/ Stop \/ ConsumerEnds
             \/ \E t \in {"Sweeper", "Main"} : EndOfList(t) \/ \E c \in CallIds : PassOver(t, c)
    <2>1. /\ UNCHANGED <<position, segment>>
          /\ pc'["Consumer"] = pc["Consumer"] \/ pc'["Consumer"] = "done"
      <3>1. CASE Sweep
        BY <3>1, Names DEF Sweep, Goto, Base, Types
      <3>2. CASE Stop
        BY <3>2, Names DEF Stop, Goto, Base, Types
      <3>3. CASE ConsumerEnds
        BY <3>3, Names DEF ConsumerEnds, Goto, Base, Types
      <3>4. ASSUME NEW t \in {"Sweeper", "Main"}, EndOfList(t) \/ \E c \in CallIds : PassOver(t, c)
            PROVE  UNCHANGED <<position, segment>> /\ pc'["Consumer"] = pc["Consumer"]
        BY <3>4, Names DEF EndOfList, PassOver, Goto, Base, Types
      <3>5. QED
        BY <1>7, <3>1, <3>2, <3>3, <3>4
    <2>2. QED
      BY <1>1, <1>2, <2>1, HearingKept DEF Finishing, Watching
  <1>8. QED
    BY <1>4, <1>5, <1>6, <1>7 DEF QuietStep

LEMMA ClaimHearing ==
  ASSUME Base, SegmentInHand, EveryFinalIsHeard,
         NEW t \in Tasks, NEW c \in CallIds, ClaimStep(t, c)
  PROVE  SegmentInHand' /\ EveryFinalIsHeard'
  <1>1. /\ Len(states') = Len(states) /\ \A i \in Ids : states'[i].turns = states[i].turns
        /\ pc' \in {[pc EXCEPT ![t] = "summarising"], [pc EXCEPT ![t] = "queued"]}
    BY ClaimFacts DEF Base, ClaimStep
  <1>2. /\ pc'[t] \in {"summarising", "queued"} /\ \A u \in Tasks : u # t => pc'[u] = pc[u]
    BY <1>1 DEF Base, Types
  <1>3. /\ UNCHANGED topic
        /\ IF t = "Consumer"
           THEN /\ pc[t] = "idle" /\ position' = position + 1 /\ segment' = position'
                /\ segment' \in 1..Len(topic) /\ topic[segment'] \in CallIds
           ELSE position' = position /\ segment' = segment
    BY ClaimFrame DEF Base
  <1>4. CASE t = "Consumer"
    BY <1>1, <1>2, <1>3, <1>4, HearingTake DEF Finishing
  <1>5. CASE t # "Consumer"
    <2>1. pc'["Consumer"] = pc["Consumer"]
      BY <1>2, <1>5, Names
    <2>2. QED
      BY <1>1, <1>3, <1>5, <2>1, HearingKept DEF Finishing, Watching
  <1>6. QED
    BY <1>4, <1>5

LEMMA WorkHearing ==
  ASSUME Base, SegmentInHand, EveryFinalIsHeard, NEW t \in Tasks, WorkStep(t)
  PROVE  SegmentInHand' /\ EveryFinalIsHeard'
  <1>1. /\ Len(states') = Len(states) /\ \A i \in Ids : states'[i].turns = states[i].turns
        /\ UNCHANGED <<topic, position, segment>>
    BY WorkFacts
  <1>2. PICK w \in Awaits :
          /\ pc' = [pc EXCEPT ![t] = w]
          /\ \/ pc[t] \in {"queued", "summarising"} /\ w \in {"summarising", "reporting"}
             \/ Watching(t) /\ w \in {"live_queued", "analysing", "sending"}
    BY WorkFacts
  <1>3. pc'[t] = w /\ \A u \in Tasks : u # t => pc'[u] = pc[u]
    BY <1>2 DEF Base, Types
  <1>4. /\ Finishing("Consumer")' <=> Finishing("Consumer")
        /\ Watching("Consumer")' <=> Watching("Consumer")
        /\ pc'["Consumer"] = "idle" <=> pc["Consumer"] = "idle"
        /\ pc'["Consumer"] = "admitting" <=> pc["Consumer"] = "admitting"
    BY <1>2, <1>3, Names DEF Finishing, Watching
  <1>5. QED
    BY <1>1, <1>4, HearingKept

LEMMA LeavingHearing ==
  ASSUME Base, SegmentInHand, EveryFinalIsHeard, NEW t \in Tasks,
         SettleStep(t) \/ QuitStep(t) \/ (t = "Consumer" /\ FreeStep)
  PROVE  SegmentInHand' /\ EveryFinalIsHeard'
  <1>1. PICK w :
          /\ Left(t) /\ pc' = [pc EXCEPT ![t] = w]
          /\ t = "Consumer" => \/ w = "unwinding"
                               \/ w = "admitting" /\ Finalising(t)
                               \/ w = "idle" /\ Watching(t)
    <2>1. CASE SettleStep(t)
      BY <2>1, SettleFacts
    <2>2. CASE QuitStep(t)
      <3>1. t = "Consumer" => pc' = [pc EXCEPT ![t] = "unwinding"]
        BY <2>2, QuitFacts
      <3>2. Left(t) /\ \E w : pc' = [pc EXCEPT ![t] = w]
        BY <2>2, QuitFacts
      <3>3. QED
        BY <3>1, <3>2
    <2>3. CASE t = "Consumer" /\ FreeStep
      BY <2>3, FreeFacts
    <2>4. QED
      BY <2>1, <2>2, <2>3
  <1>2. /\ Len(states') = Len(states) /\ \A i \in Ids : states'[i].turns = states[i].turns
        /\ UNCHANGED <<topic, position, segment>>
    BY <1>1 DEF Left
  <1>3. pc'[t] = w /\ \A u \in Tasks : u # t => pc'[u] = pc[u]
    BY <1>1 DEF Base, Types
  <1>4. CASE t = "Consumer"
    <2>1. (Finishing("Consumer") \/ pc["Consumer"] = "admitting")' => Finishing("Consumer")
      BY <1>1, <1>3, <1>4 DEF Finishing, Finalising
    <2>2. (Watching("Consumer") \/ pc["Consumer"] = "idle")' => Watching("Consumer")
      BY <1>1, <1>3, <1>4 DEF Watching
    <2>3. QED
      BY <1>2, <2>1, <2>2, HearingKept
  <1>5. CASE t # "Consumer"
    <2>1. pc'["Consumer"] = pc["Consumer"]
      BY <1>3, <1>5, Names
    <2>2. QED
      BY <1>2, <2>1, HearingKept DEF Finishing, Watching
  <1>6. QED
    BY <1>4, <1>5

LEMMA AdmitHearing ==
  ASSUME Base, SegmentInHand, EveryFinalIsHeard, Admit
  PROVE  SegmentInHand' /\ EveryFinalIsHeard'
  <1> DEFINE C == "Consumer"
  <1>1. /\ UNCHANGED <<topic, position, segment>> /\ topic[segment] \in CallIds
        /\ segment \in Nat
    BY AdmitFrame DEF Base, Types
  <1>2. PICK s \in 1..(Len(states) + 1) :
          /\ Len(states') = IF s \in Ids THEN Len(states) ELSE Len(states) + 1
          /\ \A i \in Ids : i # s => states'[i] = states[i]
          /\ s \in Ids => states'[s].turns = Append(states[s].turns, segment)
          /\ s \notin Ids => states'[s].turns = Append(<<>>, segment)
          /\ \E w \in {"live_queued", "analysing", "idle"} : pc' = [pc EXCEPT ![C] = w]
    BY <1>1, AdmitFacts DEF Base
  <1>3. pc'[C] \in {"live_queued", "analysing", "idle"}
    BY <1>2, Names DEF Base, Types
  <1>4. Ids \subseteq Ids' /\ s \in Ids'
    <2>1. Len(states) \in Nat
      BY LenProperties DEF Base, Types
    <2>2. QED
      BY <1>2, <2>1 DEF Ids
  <1>5. \A i \in Ids : states[i].turns \in Seq(Nat)
    <2>1. \A i \in Ids : states[i] \in CallStates
      BY ElementOfSeq DEF Base, Types, Ids
    <2>2. QED
      BY <2>1 DEF CallStates
  <1>6. \A q \in Seq(Nat) : /\ Contains(Append(q, segment), segment)
                           /\ \A u : Contains(q, u) => Contains(Append(q, segment), u)
    BY <1>1, AppendHas
  <1>7. Contains(states'[s].turns, segment)
    <2>1. CASE s \in Ids
      BY <1>2, <1>5, <1>6, <2>1
    <2>2. CASE s \notin Ids
      <3>1. <<>> \in Seq(Nat)
        OBVIOUS
      <3>2. QED
        BY <1>2, <1>6, <2>2, <3>1
    <2>3. QED
      BY <2>1, <2>2
  <1>8. Heard(segment)'
    BY <1>1, <1>4, <1>7 DEF Heard
  <1>9. ASSUME NEW i, Heard(i) PROVE Heard(i)'
    <2>1. PICK k \in Ids : Contains(states[k].turns, i)
      BY <1>9 DEF Heard
    <2>2. Contains(states'[k].turns, i)
      <3>1. CASE k = s
        BY <1>2, <1>5, <1>6, <2>1, <3>1
      <3>2. CASE k # s
        BY <1>2, <2>1, <3>2
      <3>3. QED
        BY <3>1, <3>2
    <2>3. QED
      BY <1>4, <2>1, <2>2 DEF Heard
  <1>10. SegmentInHand'
    BY <1>3, <1>8 DEF SegmentInHand, Finishing
  <1>11. ASSUME NEW i \in 1..position PROVE topic[i] = Other \/ Heard(i)'
    <2>1. topic[i] = Other \/ Heard(i) \/ segment = i
      BY DEF EveryFinalIsHeard, Heard
    <2>2. QED
      BY <1>1, <1>8, <1>9, <2>1
  <1>12. EveryFinalIsHeard'
    BY <1>1, <1>11 DEF EveryFinalIsHeard, Heard
  <1>13. QED
    BY <1>10, <1>12

-----------------------------------------------------------------------------
(* The theorem.                                                             *)

LEMMA Start ==
  Init => IInv
  <1> SUFFICES ASSUME Init PROVE IInv
    OBVIOUS
  <1>1. /\ topic \in Topics /\ position = 0 /\ segment = 0 /\ committed = 0 /\ states = <<>>
        /\ calls = [c \in CallIds |-> 0] /\ pc = [t \in Tasks |-> "idle"]
        /\ on = [t \in Tasks |-> 0] /\ read = [t \in Tasks |-> 0] /\ cancelled = {}
        /\ insights = <<>>
    BY DEF Init
  <1>2. topic \in Seq(CallIds \cup {Other})
    BY <1>1, InsightWorkerAssumption
  <1>3. Len(topic) \in Nat /\ Len(states) = 0 /\ Ids = {}
    BY <1>1, <1>2, LenProperties DEF Ids
  <1>4. <<>> \in Seq(CallStates) /\ <<>> \in Seq(Insights)
    OBVIOUS
  <1>5. Types
    BY <1>1, <1>2, <1>3, <1>4 DEF Types, Awaits
  <1>6. \A t \in Tasks : pc[t] = "idle" /\ on[t] = 0
    BY <1>1
  <1>7. \A t \in Tasks : ~Locking(t) /\ ~Finishing(t) /\ ~Finalising(t) /\ ~Watching(t)
    BY <1>6 DEF Locking, Finishing, Finalising, Watching
  <1>8. Base
    BY <1>1, <1>5, <1>6, <1>7, Names DEF Base, Roles, InHands, CallsMatch, MainIsLast
  <1>9. Locks
    BY <1>3, <1>6, <1>7, Names DEF Locks, FinalisingEnds, NobodyElses, BeforeMain, SweeperFirst
  <1>10. SegmentInHand
    BY <1>1, <1>6, <1>7, Names DEF SegmentInHand
  <1>11. BooksBalance
    BY <1>1, <1>3 DEF BooksBalance, EveryCallIsAccountedFor, EveryFinalIsHeard
  <1>12. QED
    BY <1>8, <1>9, <1>10, <1>11 DEF IInv

LEMMA Stutter ==
  IInv /\ UNCHANGED vars => IInv'
  <1> SUFFICES ASSUME IInv, UNCHANGED vars PROVE IInv'
    OBVIOUS
  <1>1. UNCHANGED <<topic, committed, position, segment, states, calls, pc, on, read, cancelled,
                    insights, postFailed, abandoned>>
    BY DEF vars, kafkaVars, taskVars
  <1>2. Base'
    BY <1>1 DEF IInv, Base, Types, Roles, InHands, CallsMatch, MainIsLast, Locking, Finishing,
                Watching, Ids
  <1>3. FinalisingEnds' /\ NobodyElses'
    BY <1>1 DEF IInv, Locks, FinalisingEnds, NobodyElses, Finalising, Finishing
  <1>4. BeforeMain'
    <2>1. SweeperFirst => SweeperFirst'
      BY <1>1 DEF SweeperFirst, Locking, Finishing, Watching, Finalising, IsTracked
    <2>2. \A s \in Ids : LockHolds(s) => LockHolds(s)'
      BY <1>1 DEF LockHolds
    <2>3. QED
      BY <1>1, <2>1, <2>2 DEF IInv, Locks, BeforeMain, Ids
  <1>5. SegmentInHand'
    BY <1>1 DEF IInv, SegmentInHand, Finishing, Watching, Heard, Ids
  <1>6. EveryCallIsAccountedFor'
    <2>1. \A i : (Settled(i)' <=> Settled(i)) /\ (IsTracked(i)' <=> IsTracked(i))
      BY <1>1 DEF Settled, Posts, IsTracked
    <2>2. QED
      BY <1>1, <2>1 DEF IInv, BooksBalance, EveryCallIsAccountedFor, Finalising, Ids
  <1>7. EveryFinalIsHeard'
    BY <1>1 DEF IInv, BooksBalance, EveryFinalIsHeard, Ids
  <1>8. QED
    BY <1>2, <1>3, <1>4, <1>5, <1>6, <1>7 DEF IInv, Locks, BooksBalance

LEMMA Inductive ==
  IInv /\ [Next]_vars => IInv'
  <1> SUFFICES ASSUME IInv, Next PROVE IInv'
    BY Stutter
  <1>1. Base /\ Locks /\ SegmentInHand /\ EveryCallIsAccountedFor /\ EveryFinalIsHeard /\ Types
    BY DEF IInv, BooksBalance, Base
  <1>2. SUFFICES Base' /\ Locks' /\ SegmentInHand' /\ EveryCallIsAccountedFor' /\ EveryFinalIsHeard'
    BY DEF IInv, BooksBalance
  <1>3. CASE QuietStep
    BY <1>1, <1>3, QuietBase, QuietLocks, QuietAccounts, QuietHearing
  <1>4. CASE Admit
    BY <1>1, <1>4, AdmitBase, AdmitLocks, AdmitAccounts, AdmitHearing
  <1>5. ASSUME NEW t \in Tasks, NEW c \in CallIds, ClaimStep(t, c)
        PROVE  Base' /\ Locks' /\ SegmentInHand' /\ EveryCallIsAccountedFor' /\ EveryFinalIsHeard'
    BY <1>1, <1>5, ClaimBase, ClaimLocks, ClaimAccounts, ClaimHearing
  <1>6. ASSUME NEW t \in Tasks, WorkStep(t)
        PROVE  Base' /\ Locks' /\ SegmentInHand' /\ EveryCallIsAccountedFor' /\ EveryFinalIsHeard'
    BY <1>1, <1>6, WorkBase, WorkLocks, WorkAccounts, WorkHearing
  <1>7. ASSUME NEW t \in Tasks, SettleStep(t)
        PROVE  Base' /\ Locks' /\ SegmentInHand' /\ EveryCallIsAccountedFor' /\ EveryFinalIsHeard'
    BY <1>1, <1>7, LeavingBase, LeavingLocks, SettleAccounts, LeavingHearing
  <1>8. ASSUME NEW t \in Tasks, QuitStep(t)
        PROVE  Base' /\ Locks' /\ SegmentInHand' /\ EveryCallIsAccountedFor' /\ EveryFinalIsHeard'
    BY <1>1, <1>8, LeavingBase, LeavingLocks, QuitAccounts, LeavingHearing
  <1>9. CASE FreeStep
    <2>1. PICK t \in Tasks : t = "Consumer"
      BY Names
    <2>2. QED
      BY <1>1, <1>9, <2>1, LeavingBase, LeavingLocks, QuitAccounts, LeavingHearing
  <1>10. QED
    BY <1>1, <1>3, <1>4, <1>5, <1>6, <1>7, <1>8, <1>9, StepKinds

(* consumer.py:140-266: in every reachable state, with any calls, ceiling,  *)
(* stride and topic, and with failing sends and models, rebalances and      *)
(* signals, a call the worker has heard of is tracked and open, being       *)
(* finalised, settled, or abandoned by a finaliser that was cut off; and a  *)
(* final it took off the topic is a turn of a call or in the hand of the    *)
(* consumer.                                                                *)
THEOREM BooksAreKept ==
  Spec => []BooksBalance
  <1>1. IInv => BooksBalance
    BY DEF IInv
  <1>2. QED
    BY Start, Inductive, <1>1, PTL DEF Spec

-----------------------------------------------------------------------------
(* Late work: the invariant.                                                *)

(* The consumer is over, or will be at its next turn.                       *)
Over == "Consumer" \in cancelled \/ pc["Consumer"] \in {"unwinding", "done"}

(* Its finally waits for the sweeper.                                       *)
UnwindWaits ==
  pc["Consumer"] \in {"unwinding", "done"} => "Sweeper" \in cancelled \/ pc["Sweeper"] = "done"

(* Who works on a state, and does not wait for its lock, is head of it.     *)
Works(t) == Finalising(t) \/ pc[t] \in {"analysing", "sending"}
HeadWorks == \A t \in Tasks : Works(t) => HasLock(t)

Turns(s) == Len(states[s].turns)

(* After the turn that a summary misses, the consumer waits for its lock.   *)
AskedFor(s) == pc["Consumer"] = "live_queued" /\ on["Consumer"] = s

Ahead(t) ==
  \/ Turns(on[t]) <= read[t]
  \/ Turns(on[t]) <= read[t] + 1 /\ (Over \/ AskedFor(on[t]))

OneTurnAhead == \A t \in Tasks : pc[t] = "reporting" => Ahead(t)

Claimed(t, s) == Finishing(t) /\ on[t] = s

(* A state that gets no more turns, ...                                     *)
Closed(s) == ~IsTracked(s) \/ Over \/ Claimed("Consumer", s)

(* ... and one that stays tracked, for its finaliser is gone.               *)
Stuck(s) == states[s].ended /\ IsTracked(s) /\ \A t \in Tasks : ~Claimed(t, s)

(* What a summary in the topic may miss.                                    *)
MissesOneTurn(s, upto) == Stuck(s) \/ (Closed(s) /\ Turns(s) - upto <= 1)

SummariesMissOneTurn ==
  \A k \in DOMAIN insights : insights[k].kind = "post_call" =>
    \E s \in Ids, upto \in Nat :
      insights[k].state = s /\ insights[k].upto = upto /\ MissesOneTurn(s, upto)

AtMostOne(P) == \A k, l \in P : k = l
AtMostTwo(P) == P = {} \/ \E k, l \in P : P = {k, l}

Reports(t, s) == pc[t] = "reporting" /\ on[t] = s

(* How many summaries a state has, and what those who are to make another   *)
(* have seen of them.                                                       *)
Summaries(s) ==
  /\ ~states[s].ended => Posts(s) = {}
  /\ Claimed("Main", s) => Posts(s) = {} /\ \A t \in Tasks \ {"Main"} : ~Reports(t, s)
  /\ Claimed("Sweeper", s) /\ Claimed("Consumer", s) => Posts(s) = {}
  /\ Claimed("Sweeper", s) \/ Claimed("Consumer", s) => AtMostOne(Posts(s))
  /\ AtMostTwo(Posts(s))

Roomy == Cardinality(CallIds) <= MaxTracked

SummariesBelowCeiling(s) ==
  Roomy => /\ ~Finishing("Consumer") /\ AtMostOne(Posts(s))
           /\ Claimed("Sweeper", s) => Posts(s) = {}

LateLives(s) == {l \in Lives(s) : \E k \in Posts(s) : k < l}

Watches(s) == Watching("Consumer") /\ on["Consumer"] = s

(* A late analysis was waiting when its call was forgotten.                 *)
LateOnce(s) ==
  s \notin abandoned =>
    /\ Posts(s) # {} => ~IsTracked(s)
    /\ Watches(s) => LateLives(s) = {}
    /\ AtMostOne(LateLives(s))

AllBounded == \A s \in Ids : Summaries(s) /\ SummariesBelowCeiling(s) /\ LateOnce(s)

-----------------------------------------------------------------------------
(* What else the steps do.                                                  *)

LEMMA WithoutHead ==
  ASSUME NEW lock \in Seq(Tasks), NEW t, Contains(lock, t), lock[1] # t
  PROVE  Without(lock, t)[1] = lock[1]
  <1> DEFINE i == CHOOSE i \in 1..Len(lock) : lock[i] = t
             a == SubSeq(lock, 1, i - 1)
             b == SubSeq(lock, i + 1, Len(lock))
  <1>1. i \in 1..Len(lock) /\ lock[i] = t /\ Len(lock) \in Nat
    BY LenProperties DEF Contains
  <1>2. Without(lock, t) = a \o b
    BY DEF Without, RemoveAt
  <1> HIDE DEF i
  <1>3. 1 \in 1..(i - 1) /\ i - 1 \in Nat
    BY <1>1
  <1>4. a \in Seq(Tasks) /\ Len(a) = i - 1 /\ a[1] = lock[1]
    BY <1>1, <1>3, SubSeqProperties, ElementOfSeq
  <1>5. b \in Seq(Tasks)
    <2>1. \A k \in (i + 1)..Len(lock) : lock[k] \in Tasks
      BY <1>1, ElementOfSeq
    <2>2. QED
      BY <1>1, <2>1, SubSeqProperties
  <1> HIDE DEF a, b
  <1>6. (a \o b)[1] = a[1]
    <2>1. /\ Len(b) \in Nat
          /\ \A k \in 1..(Len(a) + Len(b)) :
               (a \o b)[k] = IF k <= Len(a) THEN a[k] ELSE b[k - Len(a)]
      BY <1>4, <1>5, ConcatProperties, LenProperties
    <2>2. 1 \in 1..(Len(a) + Len(b)) /\ 1 <= Len(a)
      BY <1>3, <1>4, <2>1
    <2>3. QED
      BY <2>1, <2>2
  <1>7. QED
    BY <1>2, <1>4, <1>6

LEMMA WorkMore ==
  ASSUME Base, NEW t \in Tasks, WorkStep(t)
  PROVE  /\ pc[t] \in {"queued", "live_queued"} => HasLock(t)
         /\ \A u \in Tasks : u # t => read'[u] = read[u]
         /\ pc'[t] = "reporting" => /\ pc[t] = "summarising" /\ cancelled = {}
                                    /\ read'[t] = Turns(on[t])
  <1>1. read \in [Tasks -> Nat] /\ pc \in [Tasks -> Awaits]
    BY DEF Base, Types
  <1>2. CASE Acquire(t)
    BY <1>1, <1>2 DEF Acquire, At, Goto
  <1>3. CASE Summarise(t)
    BY <1>1, <1>3 DEF Summarise, Back, Goto, Turns
  <1>4. CASE t = "Consumer" /\ LiveAcquire
    <2>1. pc[t] = "live_queued" /\ HasLock(t) /\ UNCHANGED read
      BY <1>4 DEF LiveAcquire, At
    <2>2. pc'[t] \in {"analysing", "idle"}
      BY <1>1, <1>4 DEF LiveAcquire, ReleaseIdle, Goto
    <2>3. QED
      BY <2>1, <2>2
  <1>5. CASE t = "Consumer" /\ Analyse
    <2>1. /\ pc[t] = "analysing" /\ pc'[t] \in {"idle", "sending"}
          /\ \A u \in Tasks : u # t => read'[u] = read[u]
      BY <1>1, <1>5 DEF Analyse, Back, Goto
    <2>2. QED
      BY <2>1
  <1>6. QED
    BY <1>2, <1>3, <1>4, <1>5 DEF WorkStep

LEMMA FreeMore ==
  ASSUME FreeStep, pc["Consumer"] = "live_queued"
  PROVE  HasLock("Consumer")
  BY DEF FreeStep, Send, Back, LiveAcquire, Analyse

LEMMA QuitMore ==
  ASSUME Base, NEW t \in Tasks, QuitStep(t)
  PROVE  /\ Unwind(t)
         /\ t = "Main" => cancelled = {}
         /\ \/ insights' = insights
            \/ pc[t] = "reporting" /\ insights' = Append(insights, Summary(t))
            \/ t = "Consumer" /\ Watching(t) /\ insights' = Append(insights, Signals)
  <1>1. CASE SummariseRaises(t)
    BY <1>1 DEF SummariseRaises, Back
  <1>2. CASE ReportFails(t)
    BY <1>2 DEF ReportFails, Back
  <1>3. CASE Cancelled(t)
    <2>1. t # "Main" /\ (Watching(t) => t = "Consumer")
      BY <1>3, Names DEF Cancelled, Base, Roles
    <2>2. QED
      BY <1>3, <2>1 DEF Cancelled, Watching
  <1>4. CASE t = "Consumer" /\ SendFails
    BY <1>4 DEF SendFails, Back, Watching
  <1>5. CASE t = "Consumer" /\ AnalyseRaises
    BY <1>5 DEF AnalyseRaises, Back, Watching
  <1>6. QED
    BY <1>1, <1>2, <1>3, <1>4, <1>5 DEF QuitStep

(* Once over, the consumer stays so, and it waits for the sweeper.          *)
LEMMA QuietEnds ==
  ASSUME Base, QuietStep, UnwindWaits
  PROVE  (Over => Over') /\ UnwindWaits'
  <1>0. pc \in [Tasks -> Awaits] /\ Roles
    BY DEF Base, Types
  <1>1. CASE SkipRecord \/ Rebalance
    BY <1>1 DEF SkipRecord, Rebalance, taskVars, Over, UnwindWaits
  <1>2. CASE Sweep
    BY <1>0, <1>2, Names DEF Sweep, At, Goto, Over, UnwindWaits
  <1>3. CASE Stop
    BY <1>0, <1>3, Names DEF Stop, Goto, Over, UnwindWaits
  <1>4. CASE ConsumerEnds
    BY <1>0, <1>4, Names DEF ConsumerEnds, Goto, Over, UnwindWaits
  <1>5. CASE \E c \in CallIds : TakeFinal(c) /\ pc'["Consumer"] = "admitting"
    <2>1. pc["Consumer"] = "idle" /\ "Consumer" \notin cancelled
      BY <1>5 DEF TakeFinal, At
    <2>2. QED
      BY <1>5, <2>1 DEF Over, UnwindWaits
  <1>6. CASE \E t \in {"Sweeper", "Main"} : EndOfList(t) \/ \E c \in CallIds : PassOver(t, c)
    <2>1. PICK t \in {"Sweeper", "Main"} : EndOfList(t) \/ \E c \in CallIds : PassOver(t, c)
      BY <1>6
    <2>2. /\ pc[t] = "iterating" /\ cancelled' = cancelled
          /\ pc' \in {pc, [pc EXCEPT ![t] = IF t = "Main" THEN "done" ELSE "idle"]}
      BY <2>1 DEF EndOfList, PassOver, Visiting, At, Goto
    <2>3. QED
      BY <1>0, <2>1, <2>2, Names DEF Over, UnwindWaits
  <1>7. QED
    BY <1>1, <1>2, <1>3, <1>4, <1>5, <1>6 DEF QuietStep

LEMMA OthersEnd ==
  ASSUME Base, UnwindWaits, NEW t \in Tasks,
         \/ WorkStep(t) \/ SettleStep(t) \/ QuitStep(t)
         \/ t = "Consumer" /\ FreeStep
         \/ \E c \in CallIds : ClaimStep(t, c)
  PROVE  (Over => Over') /\ UnwindWaits'
  <1>0. pc \in [Tasks -> Awaits] /\ Roles
    BY DEF Base, Types
  <1>1. CASE QuitStep(t)
    <2>1. Unwind(t)
      BY <1>1, QuitMore
    <2>2. CASE t = "Consumer"
      BY <1>0, <2>1, <2>2, Names DEF Unwind, Goto, Over, UnwindWaits
    <2>3. CASE t = "Sweeper"
      BY <1>0, <2>1, <2>3, Names DEF Unwind, Goto, Over, UnwindWaits
    <2>4. CASE t = "Main"
      BY <1>0, <2>1, <2>4, Names DEF Unwind, Goto, Over, UnwindWaits
    <2>5. QED
      BY <2>2, <2>3, <2>4, Names
  <1>2. CASE ~QuitStep(t)
    <2>1. /\ cancelled' = cancelled
          /\ \E w : pc' = [pc EXCEPT ![t] = w]
          /\ pc[t] \notin {"unwinding", "done"}
      <3>1. CASE WorkStep(t)
        <4>1. /\ cancelled' = cancelled /\ Locking(t)
              /\ \E w \in Awaits : pc' = [pc EXCEPT ![t] = w]
          BY <3>1, WorkFacts
        <4>2. QED
          BY <4>1 DEF Locking, Finishing, Watching
      <3>2. CASE SettleStep(t)
        BY <3>2, SettleFacts DEF Finalising
      <3>3. CASE t = "Consumer" /\ FreeStep
        BY <3>3, FreeFacts DEF Watching
      <3>4. CASE \E c \in CallIds : ClaimStep(t, c)
        <4>1. PICK c \in CallIds : ClaimStep(t, c)
          BY <3>4
        <4>2. QED
          BY <4>1, ClaimFrame, ClaimFacts DEF ClaimStep, Base
      <3>5. QED
        BY <1>2, <3>1, <3>2, <3>3, <3>4
    <2>2. \A u \in Tasks : pc[u] \in {"unwinding", "done"} => pc'[u] = pc[u]
      BY <1>0, <2>1
    <2>3. \A u \in Tasks : u # t => pc'[u] = pc[u]
      BY <1>0, <2>1
    <2>4. t = "Consumer" => pc'[t] \notin {"unwinding", "done"}
      <3>1. CASE WorkStep(t)
        BY <1>0, <3>1, WorkFacts DEF Locking, Finishing, Watching
      <3>2. CASE SettleStep(t)
        BY <1>0, <3>2, SettleFacts
      <3>3. CASE t = "Consumer" /\ FreeStep
        BY <1>0, <3>3, FreeFacts
      <3>4. CASE \E c \in CallIds : ClaimStep(t, c)
        <4>1. PICK c \in CallIds : ClaimStep(t, c)
          BY <3>4
        <4>2. QED
          BY <1>0, <4>1, ClaimFacts DEF ClaimStep, Base
      <3>5. QED
        BY <1>2, <3>1, <3>2, <3>3, <3>4
    <2>5. QED
      BY <2>1, <2>2, <2>3, <2>4, Names DEF Over, UnwindWaits
  <1>3. QED
    BY <1>1, <1>2

LEMMA AdmitEnds ==
  ASSUME Base, SegmentInHand, Admit, UnwindWaits
  PROVE  ~Over /\ UnwindWaits'
  <1>1. pc["Consumer"] = "admitting" /\ "Consumer" \notin cancelled /\ cancelled' = cancelled
    BY AdmitFrame
  <1>2. pc'["Consumer"] \in {"live_queued", "analysing", "idle"}
    BY AdmitFrame, AdmitFacts, Names DEF Base, Types
  <1>3. QED
    BY <1>1, <1>2 DEF Over, UnwindWaits
-----------------------------------------------------------------------------
(* Who works on a state is the head of its lock.                            *)

LEMMA AppendHead ==
  ASSUME NEW lock \in Seq(Tasks), NEW t, NEW u \in Tasks, Contains(lock, u)
  PROVE  lock # <<>> /\ Append(lock, t)[1] = lock[1]
  <1>1. Len(lock) \in Nat /\ 1 \in 1..Len(lock) /\ lock \in Seq(Tasks \cup {t})
    BY LenProperties, ElementOfSeq DEF Contains
  <1>2. QED
    BY <1>1, AppendProperties, EmptySeq

LEMMA WorkersWait ==
  ASSUME Base, NEW u \in Tasks, Works(u) \/ Locking(u)
  PROVE  /\ Locking(u) /\ on[u] \in Ids
         /\ states[on[u]].lock \in Seq(Tasks) /\ Contains(states[on[u]].lock, u)
  <1>1. Locking(u)
    BY DEF Works, Finalising, Locking, Finishing, Watching
  <1>2. on[u] \in Ids /\ Contains(states[on[u]].lock, u)
    BY <1>1 DEF Base, InHands
  <1>3. states[on[u]] \in CallStates
    BY <1>2, ElementOfSeq DEF Base, Types, Ids
  <1>4. QED
    BY <1>1, <1>2, <1>3 DEF CallStates

LEMMA QuietHead ==
  ASSUME Base, HeadWorks, QuietStep
  PROVE  HeadWorks'
  <1>1. /\ UNCHANGED <<states, on>>
        /\ \A t \in Tasks : pc'[t] = pc[t] \/ ~Locking(t)'
    BY QuietFacts DEF Base
  <1>2. \A t \in Tasks : Works(t)' => Locking(t)'
    BY DEF Works, Finalising, Locking, Finishing, Watching
  <1>3. \A t \in Tasks : Works(t)' => Works(t)
    BY <1>1, <1>2 DEF Works, Finalising
  <1>4. QED
    BY <1>1, <1>3 DEF HeadWorks, HasLock

LEMMA ClaimHead ==
  ASSUME Base, HeadWorks, NEW t \in Tasks, NEW c \in CallIds, ClaimStep(t, c)
  PROVE  HeadWorks'
  <1> SUFFICES ASSUME NEW u \in Tasks, Works(u)' PROVE HasLock(u)'
    BY DEF HeadWorks
  <1>1. /\ Types /\ pc \in [Tasks -> Awaits] /\ on \in [Tasks -> 0..Len(states)] /\ Claim(t, c)
    BY DEF Base, Types, ClaimStep
  <1>2. /\ calls[c] \in Ids
        /\ on' = [on EXCEPT ![t] = calls[c]]
        /\ \A i \in Ids : i # calls[c] => states'[i] = states[i]
        /\ \/ /\ states[calls[c]].lock = <<>> /\ states'[calls[c]].lock = <<t>>
              /\ pc' = [pc EXCEPT ![t] = "summarising"]
           \/ /\ states'[calls[c]].lock = Append(states[calls[c]].lock, t)
              /\ pc' = [pc EXCEPT ![t] = "queued"]
    BY <1>1, ClaimFacts
  <1>3. CASE u = t
    <2>1. states'[calls[c]].lock = <<t>>
      BY <1>1, <1>2, <1>3 DEF Works, Finalising
    <2>2. QED
      BY <1>1, <1>2, <1>3, <2>1 DEF HasLock
  <1>4. CASE u # t
    <2>1. Works(u) /\ on'[u] = on[u]
      BY <1>1, <1>2, <1>4 DEF Works, Finalising
    <2>2. /\ on[u] \in Ids /\ states[on[u]].lock \in Seq(Tasks)
          /\ Contains(states[on[u]].lock, u) /\ states[on[u]].lock[1] = u
      BY <2>1, WorkersWait DEF HeadWorks, HasLock
    <2>3. Append(states[on[u]].lock, t)[1] = u /\ states[on[u]].lock # <<>>
      BY <2>2, AppendHead
    <2>4. CASE on[u] = calls[c]
      BY <1>2, <2>1, <2>3, <2>4 DEF HasLock
    <2>5. CASE on[u] # calls[c]
      BY <1>2, <2>1, <2>2, <2>5 DEF HasLock
    <2>6. QED
      BY <2>4, <2>5
  <1>5. QED
    BY <1>3, <1>4

LEMMA WorkHead ==
  ASSUME Base, HeadWorks, NEW t \in Tasks, WorkStep(t)
  PROVE  HeadWorks'
  <1>1. /\ on' = on /\ \A i \in Ids : states'[i].lock = states[i].lock
        /\ Locking(t) /\ pc \in [Tasks -> Awaits]
    BY WorkFacts DEF Base, Types
  <1>2. PICK w \in Awaits : pc' = [pc EXCEPT ![t] = w]
    BY WorkFacts
  <1>3. HasLock(t)
    BY <1>1, WorkMore DEF HeadWorks, Works, Finalising, Locking, Finishing, Watching
  <1>4. ASSUME NEW u \in Tasks, Works(u)' PROVE HasLock(u) /\ on[u] \in Ids
    <2>1. CASE u = t
      BY <1>1, <1>3, <2>1, WorkersWait
    <2>2. CASE u # t
      <3>1. Works(u)
        BY <1>1, <1>2, <1>4, <2>2 DEF Works, Finalising
      <3>2. QED
        BY <3>1, WorkersWait DEF HeadWorks
    <2>3. QED
      BY <2>1, <2>2
  <1>5. QED
    BY <1>1, <1>4 DEF HeadWorks, HasLock

LEMMA LeftHead ==
  ASSUME Base, HeadWorks, NEW t \in Tasks, Left(t),
         NEW w \in {"idle", "iterating", "admitting", "unwinding", "done", "crashed"},
         pc' = [pc EXCEPT ![t] = w]
  PROVE  HeadWorks'
  <1>1. /\ pc \in [Tasks -> Awaits] /\ on \in [Tasks -> 0..Len(states)]
        /\ on' = [on EXCEPT ![t] = 0]
        /\ \A i \in Ids : i # on[t] => states'[i] = states[i]
        /\ Locking(t) => states'[on[t]].lock = Without(states[on[t]].lock, t)
    BY DEF Base, Types, Left
  <1>2. ASSUME NEW u \in Tasks, Works(u)' PROVE HasLock(u)'
    <2>1. u # t
      BY <1>1, <1>2 DEF Works, Finalising
    <2>2. Works(u) /\ on'[u] = on[u]
      BY <1>1, <1>2, <2>1 DEF Works, Finalising
    <2>3. HasLock(u) /\ on[u] \in Ids
      BY <2>2, WorkersWait DEF HeadWorks
    <2>4. CASE on[u] # on[t]
      BY <1>1, <2>2, <2>3, <2>4 DEF HasLock
    <2>5. CASE on[u] = on[t]
      <3>1. /\ Locking(t) /\ states[on[t]].lock \in Seq(Tasks)
            /\ Contains(states[on[t]].lock, t) /\ states[on[t]].lock[1] = u
        BY <2>3, <2>5, WorkersWait, WhoIsWhere DEF HasLock
      <3>2. Without(states[on[t]].lock, t)[1] = u
        BY <2>1, <3>1, WithoutHead
      <3>3. QED
        BY <1>1, <2>2, <2>5, <3>1, <3>2 DEF HasLock
    <2>6. QED
      BY <2>4, <2>5
  <1>3. QED
    BY <1>2 DEF HeadWorks

LEMMA LeavingHead ==
  ASSUME Base, HeadWorks, NEW t \in Tasks,
         SettleStep(t) \/ QuitStep(t) \/ (t = "Consumer" /\ FreeStep)
  PROVE  HeadWorks'
  <1>1. CASE SettleStep(t)
    BY <1>1, SettleFacts, LeftHead
  <1>2. CASE QuitStep(t)
    BY <1>2, QuitFacts, LeftHead, Names
  <1>3. CASE t = "Consumer" /\ FreeStep
    BY <1>3, FreeFacts, LeftHead
  <1>4. QED
    BY <1>1, <1>2, <1>3

LEMMA AdmitHead ==
  ASSUME Base, SegmentInHand, HeadWorks, Admit
  PROVE  HeadWorks'
  <1> DEFINE C == "Consumer"
  <1>1. /\ pc \in [Tasks -> Awaits] /\ on \in [Tasks -> 0..Len(states)] /\ Types
        /\ pc[C] = "admitting" /\ topic[segment] \in CallIds /\ C \in Tasks
    BY AdmitFrame, Names DEF Base, Types
  <1>2. PICK s \in 1..(Len(states) + 1) :
          /\ \A i \in Ids : i # s => states'[i] = states[i]
          /\ LET lock == IF s \in Ids THEN states[s].lock ELSE <<>> IN
             \/ /\ pc' \in {[pc EXCEPT !["Consumer"] = "live_queued"],
                            [pc EXCEPT !["Consumer"] = "analysing"]}
                /\ on' = [on EXCEPT !["Consumer"] = s]
                /\ states'[s].lock = Append(lock, "Consumer")
             \/ /\ pc' = [pc EXCEPT !["Consumer"] = "idle"]
                /\ on' = [on EXCEPT !["Consumer"] = 0]
                /\ states'[s].lock = lock
          /\ s \in Ids /\ states[s].lock # <<>> =>
               pc' = [pc EXCEPT !["Consumer"] = "live_queued"]
    BY <1>1, AdmitFacts
  <1>3. \A u \in Tasks : u # C => pc'[u] = pc[u] /\ on'[u] = on[u]
    BY <1>1, <1>2
  <1>4. ASSUME NEW u \in Tasks, Works(u)', u # C PROVE HasLock(u)'
    <2>1. Works(u) /\ on'[u] = on[u]
      BY <1>3, <1>4 DEF Works, Finalising
    <2>2. /\ on[u] \in Ids /\ states[on[u]].lock \in Seq(Tasks)
          /\ Contains(states[on[u]].lock, u) /\ states[on[u]].lock[1] = u
      BY <2>1, WorkersWait DEF HeadWorks, HasLock
    <2>3. Append(states[on[u]].lock, C)[1] = u
      BY <2>2, AppendHead
    <2>4. CASE on[u] = s
      BY <1>2, <2>1, <2>2, <2>3, <2>4 DEF HasLock
    <2>5. CASE on[u] # s
      BY <1>2, <2>1, <2>2, <2>5 DEF HasLock
    <2>6. QED
      BY <2>4, <2>5
  <1>5. ASSUME Works(C)' PROVE HasLock(C)'
    <2>1. pc'[C] = "analysing"
      BY <1>1, <1>2, <1>5 DEF Works, Finalising
    <2>2. on'[C] = s /\ states'[s].lock = Append(<<>>, C)
      <3>1. ~(s \in Ids /\ states[s].lock # <<>>)
        BY <1>1, <1>2, <2>1
      <3>2. QED
        BY <1>1, <1>2, <2>1, <3>1
    <2>3. QED
      BY <2>2, AppendToOne DEF HasLock
  <1>6. QED
    BY <1>4, <1>5 DEF HeadWorks

-----------------------------------------------------------------------------
(* At most one turn is ahead of a summary that is being sent.               *)

LEMMA AheadKept ==
  ASSUME OneTurnAhead, NEW u \in Tasks, pc[u] = "reporting",
         on'[u] = on[u], read'[u] = read[u],
         states'[on[u]].turns = states[on[u]].turns,
         Over => Over', AskedFor(on[u]) => AskedFor(on[u])' \/ Over'
  PROVE  Ahead(u)'
  <1>1. PICK s : s = on[u]
    OBVIOUS
  <1>2. on'[u] = s /\ Turns(s)' = Turns(s) /\ Ahead(u)
    BY <1>1 DEF OneTurnAhead, Turns
  <1>3. AskedFor(s) => AskedFor(s)' \/ Over'
    BY <1>1 DEF AskedFor
  <1>4. QED
    BY <1>1, <1>2, <1>3 DEF Ahead, Turns, AskedFor

LEMMA Reporters ==
  ASSUME Base, HeadWorks, NEW u \in Tasks, pc[u] = "reporting"
  PROVE  Works(u) /\ Locking(u) /\ on[u] \in Ids /\ HasLock(u)
  BY WorkersWait DEF HeadWorks, Works, Finalising

LEMMA QuietAhead ==
  ASSUME Base, HeadWorks, OneTurnAhead, UnwindWaits, QuietStep
  PROVE  OneTurnAhead'
  <1> SUFFICES ASSUME NEW u \in Tasks, pc'[u] = "reporting" PROVE Ahead(u)'
    BY DEF OneTurnAhead
  <1>1. /\ UNCHANGED <<states, on, read>>
        /\ \A t \in Tasks : pc'[t] = pc[t] \/ (~Locking(t) /\ ~Locking(t)')
    BY QuietFacts DEF Base
  <1>2. pc[u] = "reporting"
    BY <1>1 DEF Locking, Finishing
  <1>3. AskedFor(on[u]) => AskedFor(on[u])'
    BY <1>1, Names DEF AskedFor, Locking, Watching
  <1>4. QED
    BY <1>1, <1>2, <1>3, QuietEnds, AheadKept

LEMMA ClaimAhead ==
  ASSUME Base, HeadWorks, OneTurnAhead, UnwindWaits,
         NEW t \in Tasks, NEW c \in CallIds, ClaimStep(t, c)
  PROVE  OneTurnAhead'
  <1> SUFFICES ASSUME NEW u \in Tasks, pc'[u] = "reporting" PROVE Ahead(u)'
    BY DEF OneTurnAhead
  <1>1. /\ Types /\ pc \in [Tasks -> Awaits] /\ on \in [Tasks -> 0..Len(states)] /\ Claim(t, c)
    BY DEF Base, Types, ClaimStep
  <1>2. /\ on' = [on EXCEPT ![t] = calls[c]] /\ read' = read
        /\ \A i \in Ids : states'[i].turns = states[i].turns
        /\ \/ pc' = [pc EXCEPT ![t] = "summarising"]
           \/ pc' = [pc EXCEPT ![t] = "queued"]
        /\ pc[t] \in {"idle", "iterating"}
    BY <1>1, ClaimFacts, ClaimFrame
  <1>3. u # t /\ pc[u] = "reporting" /\ on'[u] = on[u]
    BY <1>1, <1>2
  <1>4. on[u] \in Ids
    BY <1>3, Reporters
  <1>5. AskedFor(on[u]) => AskedFor(on[u])'
    BY <1>1, <1>2, <1>3, Names DEF AskedFor
  <1>6. QED
    BY <1>2, <1>3, <1>4, <1>5, OthersEnd, AheadKept

LEMMA WorkAhead ==
  ASSUME Base, HeadWorks, OneTurnAhead, UnwindWaits, NEW t \in Tasks, WorkStep(t)
  PROVE  OneTurnAhead'
  <1> SUFFICES ASSUME NEW u \in Tasks, pc'[u] = "reporting" PROVE Ahead(u)'
    BY DEF OneTurnAhead
  <1>1. /\ pc \in [Tasks -> Awaits] /\ on' = on /\ Locking(t)
        /\ \A i \in Ids : states'[i].turns = states[i].turns
    BY WorkFacts DEF Base, Types
  <1>2. PICK w \in Awaits : pc' = [pc EXCEPT ![t] = w]
    BY WorkFacts
  <1>3. CASE u = t
    <2>1. read'[t] = Turns(on[t]) /\ on[t] \in Ids
      BY <1>1, <1>3, WorkMore, WorkersWait
    <2>2. Turns(on[t])' = Turns(on[t])
      BY <1>1, <2>1 DEF Turns
    <2>3. states[on[t]] \in CallStates
      BY <2>1, ElementOfSeq DEF Base, Types, Ids
    <2>4. Turns(on[t]) \in Nat
      BY <2>3, LenProperties DEF CallStates, Turns
    <2>5. QED
      BY <1>3, <2>1, <2>2, <2>4 DEF Ahead
  <1>4. CASE u # t
    <2>1. pc[u] = "reporting" /\ read'[u] = read[u]
      BY <1>1, <1>2, <1>4, WorkMore
    <2>2. on[u] \in Ids /\ HasLock(u)
      BY <2>1, Reporters
    <2>3. AskedFor(on[u]) => AskedFor(on[u])'
      <3>1. ASSUME AskedFor(on[u]) PROVE t # "Consumer"
        <4>1. t = "Consumer" => HasLock("Consumer")
          BY <3>1, WorkMore DEF AskedFor
        <4>2. QED
          BY <1>4, <2>2, <3>1, <4>1 DEF HasLock, AskedFor
      <3>2. QED
        BY <1>1, <1>2, <3>1, Names DEF AskedFor
    <2>4. QED
      BY <1>1, <2>1, <2>2, <2>3, OthersEnd, AheadKept
  <1>5. QED
    BY <1>3, <1>4

LEMMA LeavingAhead ==
  ASSUME Base, HeadWorks, OneTurnAhead, UnwindWaits, NEW t \in Tasks,
         SettleStep(t) \/ QuitStep(t) \/ (t = "Consumer" /\ FreeStep)
  PROVE  OneTurnAhead'
  <1> SUFFICES ASSUME NEW u \in Tasks, pc'[u] = "reporting" PROVE Ahead(u)'
    BY DEF OneTurnAhead
  <1>1. /\ pc \in [Tasks -> Awaits] /\ on \in [Tasks -> 0..Len(states)] /\ Left(t)
        /\ \E w \in {"idle", "iterating", "admitting", "unwinding", "done", "crashed"} :
             pc' = [pc EXCEPT ![t] = w]
    <2>1. CASE SettleStep(t)
      BY <2>1, SettleFacts DEF Base, Types
    <2>2. CASE QuitStep(t)
      BY <2>2, QuitFacts, Names DEF Base, Types
    <2>3. CASE t = "Consumer" /\ FreeStep
      BY <2>3, FreeFacts DEF Base, Types
    <2>4. QED
      BY <2>1, <2>2, <2>3
  <1>2. u # t /\ pc[u] = "reporting" /\ on'[u] = on[u]
    BY <1>1 DEF Left
  <1>3. on[u] \in Ids /\ HasLock(u)
    BY <1>2, Reporters
  <1>4. AskedFor(on[u]) => AskedFor(on[u])' \/ Over'
    <2>1. CASE t # "Consumer"
      BY <1>1, <2>1, Names DEF AskedFor, Left
    <2>2. CASE t = "Consumer" /\ SettleStep(t)
      BY <2>2, SettleFacts DEF AskedFor, Finalising
    <2>3. CASE t = "Consumer" /\ QuitStep(t)
      <3>1. pc' = [pc EXCEPT ![t] = "unwinding"]
        BY <2>3, QuitFacts
      <3>2. QED
        BY <1>1, <2>3, <3>1 DEF Over
    <2>4. CASE t = "Consumer" /\ FreeStep
      BY <1>2, <1>3, <2>4, FreeMore DEF AskedFor, HasLock
    <2>5. QED
      BY <2>1, <2>2, <2>3, <2>4
  <1>5. QED
    BY <1>1, <1>2, <1>3, <1>4, OthersEnd, AheadKept DEF Left

LEMMA AdmitAhead ==
  ASSUME Base, SegmentInHand, HeadWorks, OneTurnAhead, UnwindWaits, Admit
  PROVE  OneTurnAhead'
  <1> DEFINE C == "Consumer"
  <1> SUFFICES ASSUME NEW u \in Tasks, pc'[u] = "reporting" PROVE Ahead(u)'
    BY DEF OneTurnAhead
  <1>1. /\ pc \in [Tasks -> Awaits] /\ on \in [Tasks -> 0..Len(states)] /\ Types
        /\ pc[C] = "admitting" /\ topic[segment] \in CallIds /\ C \in Tasks
        /\ read' = read /\ read[u] \in Nat /\ ~Over
    BY AdmitFrame, AdmitEnds, Names DEF Base, Types
  <1>2. PICK s \in 1..(Len(states) + 1) :
          /\ \A i \in Ids : i # s => states'[i] = states[i]
          /\ s \in Ids => states'[s].turns = Append(states[s].turns, segment)
          /\ LET lock == IF s \in Ids THEN states[s].lock ELSE <<>> IN
             \/ /\ pc' \in {[pc EXCEPT !["Consumer"] = "live_queued"],
                            [pc EXCEPT !["Consumer"] = "analysing"]}
                /\ on' = [on EXCEPT !["Consumer"] = s]
                /\ states'[s].lock = Append(lock, "Consumer")
             \/ /\ pc' = [pc EXCEPT !["Consumer"] = "idle"]
                /\ on' = [on EXCEPT !["Consumer"] = 0]
                /\ states'[s].lock = lock
          /\ s \in Ids /\ states[s].lock # <<>> =>
               pc' = [pc EXCEPT !["Consumer"] = "live_queued"]
    BY <1>1, AdmitFacts
  <1>3. u # C /\ pc[u] = "reporting" /\ on'[u] = on[u]
    BY <1>1, <1>2
  <1>4. on[u] \in Ids /\ states[on[u]] \in CallStates
    BY <1>3, Reporters, ElementOfSeq DEF Base, Types, Ids
  <1>5. Turns(on[u]) <= read[u] /\ Turns(on[u]) \in Nat
    <2>1. Turns(on[u]) \in Nat
      BY <1>4, LenProperties DEF CallStates, Turns
    <2>2. ~AskedFor(on[u])
      BY <1>1 DEF AskedFor
    <2>3. QED
      BY <1>1, <1>3, <2>1, <2>2 DEF OneTurnAhead, Ahead
  <1>6. CASE on[u] # s
    <2>1. Turns(on[u])' <= read'[u]
      BY <1>1, <1>2, <1>3, <1>4, <1>5, <1>6 DEF Turns
    <2>2. QED
      BY <1>3, <2>1 DEF Ahead, Turns
  <1>7. CASE on[u] = s
    <2>1. states[s].lock # <<>>
      <3>1. /\ states[on[u]].lock \in Seq(Tasks) /\ Contains(states[on[u]].lock, u)
        BY <1>3, Reporters, WorkersWait
      <3>2. QED
        BY <1>7, <3>1, AppendHead
    <2>2. pc' = [pc EXCEPT ![C] = "live_queued"] /\ on'[C] = s
      BY <1>1, <1>2, <1>4, <1>7, <2>1
    <2>3. Turns(s)' = Turns(s) + 1
      <3>1. states'[s].turns = Append(states[s].turns, segment) /\ states[s].turns \in Seq(Nat)
        BY <1>2, <1>4, <1>7 DEF CallStates
      <3>2. segment \in Nat
        BY <1>1, LenProperties DEF Types
      <3>3. QED
        BY <3>1, <3>2, AppendProperties DEF Turns
    <2>4. AskedFor(s)' /\ Turns(s)' <= read'[u] + 1
      BY <1>1, <1>5, <1>7, <2>2, <2>3 DEF AskedFor
    <2>5. QED
      BY <1>3, <1>7, <2>4 DEF Ahead, Turns, AskedFor
  <1>8. QED
    BY <1>6, <1>7

-----------------------------------------------------------------------------
(* Who finalises what, and which states are tracked, after a step.          *)

LEMMA QuietClaims ==
  ASSUME Base, QuietStep, NEW u \in Tasks, NEW s
  PROVE  Claimed(u, s)' <=> Claimed(u, s)
  <1>1. on' = on /\ (pc'[u] = pc[u] \/ (~Locking(u) /\ ~Locking(u)'))
    BY QuietFacts DEF Base
  <1>2. (Finishing(u) => Locking(u)) /\ (Finishing(u)' => Locking(u)')
    BY DEF Locking
  <1>3. QED
    BY <1>1, <1>2 DEF Claimed, Finishing

LEMMA ClaimClaims ==
  ASSUME Base, NEW t \in Tasks, NEW c \in CallIds, ClaimStep(t, c), NEW u \in Tasks, NEW s
  PROVE  Claimed(u, s)' <=> Claimed(u, s) \/ (u = t /\ s = calls[c])
  <1>1. /\ pc \in [Tasks -> Awaits] /\ on \in [Tasks -> 0..Len(states)]
        /\ on' = [on EXCEPT ![t] = calls[c]]
        /\ pc' = [pc EXCEPT ![t] = "summarising"] \/ pc' = [pc EXCEPT ![t] = "queued"]
        /\ pc[t] \in {"idle", "iterating"}
    BY ClaimFacts, ClaimFrame DEF Base, Types, ClaimStep
  <1>2. CASE u = t
    BY <1>1, <1>2 DEF Claimed, Finishing
  <1>3. CASE u # t
    BY <1>1, <1>3 DEF Claimed, Finishing
  <1>4. QED
    BY <1>2, <1>3

LEMMA WorkClaims ==
  ASSUME Base, NEW t \in Tasks, WorkStep(t), NEW u \in Tasks, NEW s
  PROVE  Claimed(u, s)' <=> Claimed(u, s)
  <1>1. pc \in [Tasks -> Awaits] /\ on' = on
    BY WorkFacts DEF Base, Types
  <1>2. PICK w \in Awaits :
          /\ pc' = [pc EXCEPT ![t] = w]
          /\ \/ /\ pc[t] = "queued" /\ w = "summarising" /\ Head(states[on[t]].lock) = t
             \/ pc[t] = "summarising" /\ w = "reporting"
             \/ /\ t = "Consumer" /\ Watching(t)
                /\ w \in {"live_queued", "analysing", "sending"}
    BY WorkFacts
  <1>3. Finishing(u)' <=> Finishing(u)
    <2>1. CASE u = t
      BY <1>1, <1>2, <2>1 DEF Finishing, Watching
    <2>2. CASE u # t
      BY <1>1, <1>2, <2>2 DEF Finishing
    <2>3. QED
      BY <2>1, <2>2
  <1>4. QED
    BY <1>1, <1>3 DEF Claimed

LEMMA LeftClaims ==
  ASSUME Base, NEW t \in Tasks,
         SettleStep(t) \/ QuitStep(t) \/ (t = "Consumer" /\ FreeStep),
         NEW u \in Tasks, NEW s
  PROVE  Claimed(u, s)' <=> u # t /\ Claimed(u, s)
  <1>1. /\ pc \in [Tasks -> Awaits] /\ on \in [Tasks -> 0..Len(states)] /\ Left(t)
        /\ \E w \in {"idle", "iterating", "admitting", "unwinding", "done", "crashed"} :
             pc' = [pc EXCEPT ![t] = w]
    <2>1. CASE SettleStep(t)
      BY <2>1, SettleFacts DEF Base, Types
    <2>2. CASE QuitStep(t)
      BY <2>2, QuitFacts, Names DEF Base, Types
    <2>3. CASE t = "Consumer" /\ FreeStep
      BY <2>3, FreeFacts DEF Base, Types
    <2>4. QED
      BY <2>1, <2>2, <2>3
  <1>2. CASE u = t
    BY <1>1, <1>2 DEF Claimed, Finishing
  <1>3. CASE u # t
    BY <1>1, <1>3 DEF Claimed, Finishing, Left
  <1>4. QED
    BY <1>2, <1>3

(* What Admit does to the states that are there before it.                  *)
LEMMA AdmitMore ==
  ASSUME Base, SegmentInHand, Admit
  PROVE  /\ \A u \in Tasks, s \in Ids : Claimed(u, s)' <=> Claimed(u, s)
         /\ ~Finishing("Consumer")' /\ Ids \subseteq Ids'
         /\ \A i \in Ids :
              /\ IsTracked(i)' <=> IsTracked(i)
              /\ states'[i].ended <=> states[i].ended
              /\ ~IsTracked(i) => states'[i].turns = states[i].turns
         /\ \A i \in Ids' \ Ids : ~states'[i].ended
         /\ Watching("Consumer")' /\ on'["Consumer"] \in Ids =>
              IsTracked(on["Consumer"])'
  <1> DEFINE C == "Consumer"
  <1>1. /\ pc \in [Tasks -> Awaits] /\ on \in [Tasks -> 0..Len(states)] /\ Types
        /\ pc[C] = "admitting" /\ topic[segment] \in CallIds /\ C \in Tasks
        /\ Len(states) \in Nat /\ calls \in [CallIds -> 0..Len(states)] /\ CallsMatch
    BY AdmitFrame, Names, LenProperties DEF Base, Types
  <1> DEFINE c == topic[segment]
  <1>2. PICK s \in 1..(Len(states) + 1) :
          /\ calls[c] = IF s \in Ids THEN s ELSE 0
          /\ calls' = [calls EXCEPT ![c] = s]
          /\ Len(states') = IF s \in Ids THEN Len(states) ELSE Len(states) + 1
          /\ \A i \in Ids : i # s => states'[i] = states[i]
          /\ s \in Ids => /\ states'[s].call = states[s].call
                          /\ (states'[s].ended <=> states[s].ended)
          /\ s \notin Ids => ~states'[s].ended
          /\ \/ /\ pc' \in {[pc EXCEPT !["Consumer"] = "live_queued"],
                            [pc EXCEPT !["Consumer"] = "analysing"]}
                /\ on' = [on EXCEPT !["Consumer"] = s]
             \/ /\ pc' = [pc EXCEPT !["Consumer"] = "idle"]
                /\ on' = [on EXCEPT !["Consumer"] = 0]
    BY <1>1, AdmitFacts
  <1>3. /\ ~Finishing(C) /\ ~Finishing(C)'
        /\ \A u \in Tasks : u # C => pc'[u] = pc[u] /\ on'[u] = on[u]
    BY <1>1, <1>2 DEF Finishing
  <1>4. \A u \in Tasks, i \in Ids : Claimed(u, i)' <=> Claimed(u, i)
    BY <1>3 DEF Claimed, Finishing
  <1>5. Ids \subseteq Ids' /\ \A i \in Ids' \ Ids : i = s /\ s \notin Ids
    BY <1>1, <1>2 DEF Ids
  <1>6. \A i \in Ids : states'[i].call = states[i].call /\ (states'[i].ended <=> states[i].ended)
    BY <1>2
  <1>7. \A i \in Ids : IsTracked(i)' <=> IsTracked(i)
    <2> SUFFICES ASSUME NEW i \in Ids PROVE IsTracked(i)' <=> IsTracked(i)
      OBVIOUS
    <2>1. states[i].call \in CallIds /\ i # 0
      <3>1. states[i] \in CallStates
        BY <1>1, ElementOfSeq DEF Types, Ids
      <3>2. QED
        BY <3>1, Names DEF CallStates
    <2> HIDE DEF c
    <2>2. CASE states[i].call = c
      <3>1. IsTracked(i)' <=> s = i
        BY <1>1, <1>2, <1>6, <2>1, <2>2 DEF IsTracked
      <3>2. QED
        BY <1>1, <1>2, <2>1, <2>2, <3>1 DEF IsTracked
    <2>3. CASE states[i].call # c
      BY <1>1, <1>2, <1>6, <2>1, <2>3 DEF IsTracked
    <2>4. QED
      BY <2>2, <2>3
  <1>8. s \in Ids => IsTracked(s)
    BY <1>1, <1>2, Names DEF IsTracked, CallsMatch
  <1>9. Watching(C)' => on'[C] = s
    BY <1>1, <1>2 DEF Watching
  <1>10. Watching(C)' /\ on'[C] \in Ids => IsTracked(on[C])'
    BY <1>5, <1>7, <1>8, <1>9
  <1>11. \A i \in Ids : ~IsTracked(i) => states'[i].turns = states[i].turns
    BY <1>2, <1>8
  <1>12. \A i \in Ids' \ Ids : ~states'[i].ended
    BY <1>2, <1>5
  <1>13. \A i \in Ids :
           /\ IsTracked(i)' <=> IsTracked(i)
           /\ states'[i].ended <=> states[i].ended
           /\ ~IsTracked(i) => states'[i].turns = states[i].turns
    BY <1>6, <1>7, <1>11
  <1>14. QED
    BY <1>3, <1>4, <1>5, <1>10, <1>12, <1>13

(* Only the state that is settled is untracked.                             *)
LEMMA SettleMore ==
  ASSUME Base, Locks, NEW t \in Tasks, SettleStep(t), NEW i \in Ids
  PROVE  IsTracked(i)' <=> IsTracked(i) /\ i # on[t]
  <1>1. PICK s \in Ids : s = on[t]
    BY SettleFacts, WhoIsWhere
  <1>2. /\ Finishing(t) /\ Left(t) /\ calls \in [CallIds -> 0..Len(states)]
        /\ calls' = [calls EXCEPT ![states[s].call] = 0]
    BY <1>1, SettleFacts, WhoIsWhere DEF Base, Types
  <1>3. /\ states[s].call \in CallIds /\ states[i].call \in CallIds /\ i # 0
    <2>1. states[s] \in CallStates /\ states[i] \in CallStates
      BY ElementOfSeq DEF Base, Types, Ids
    <2>2. QED
      BY <2>1, Names DEF CallStates
  <1>4. calls[states[s].call] \in {0, s}
    BY <1>1, <1>2 DEF Locks, NobodyElses
  <1>5. states'[i].call = states[i].call
    BY <1>2 DEF Left
  <1>6. CASE states[i].call = states[s].call
    BY <1>1, <1>2, <1>3, <1>4, <1>5, <1>6 DEF IsTracked
  <1>7. CASE states[i].call # states[s].call
    BY <1>1, <1>2, <1>3, <1>4, <1>5, <1>7 DEF IsTracked
  <1>8. QED
    BY <1>6, <1>7

-----------------------------------------------------------------------------
(* What the summaries in the topic may miss.                                *)

LEMMA MissKept ==
  ASSUME NEW s \in Ids, NEW upto, MissesOneTurn(s, upto),
         ~Stuck(s) /\ Closed(s) => states'[s].turns = states[s].turns,
         Stuck(s) => Stuck(s)', Closed(s) => Closed(s)'
  PROVE  MissesOneTurn(s, upto)'
  BY DEF MissesOneTurn, Turns

LEMMA SummariesAfter ==
  ASSUME Types, SummariesMissOneTurn, NEW r, Ids \subseteq Ids',
         insights' = insights \/ (r \in Insights /\ insights' = Append(insights, r)),
         \A s \in Ids, upto \in Nat : MissesOneTurn(s, upto) => MissesOneTurn(s, upto)',
         insights' # insights /\ r.kind = "post_call" =>
           r.state \in Ids' /\ MissesOneTurn(r.state, r.upto)'
  PROVE  SummariesMissOneTurn'
  <1>1. /\ insights \in Seq(Insights) /\ DOMAIN insights = 1..Len(insights)
        /\ Len(insights) \in Nat
    BY LenProperties DEF Types
  <1>2. ASSUME NEW k \in DOMAIN insights, insights'[k] = insights[k],
               insights'[k].kind = "post_call"
        PROVE  \E s \in Ids', upto \in Nat :
                 /\ insights'[k].state = s /\ insights'[k].upto = upto
                 /\ MissesOneTurn(s, upto)'
    BY <1>2 DEF SummariesMissOneTurn
  <1>3. CASE insights' = insights
    BY <1>2, <1>3 DEF SummariesMissOneTurn
  <1>4. CASE insights' # insights
    <2>1. r \in Insights /\ insights' = Append(insights, r)
      BY <1>4
    <2>2. /\ insights' \in Seq(Insights) /\ Len(insights') = Len(insights) + 1
          /\ \A k \in 1..Len(insights) : insights'[k] = insights[k]
          /\ insights'[Len(insights) + 1] = r
      <3>1. /\ Append(insights, r) \in Seq(Insights) /\ Len(Append(insights, r)) = Len(insights) + 1
            /\ \A k \in 1..Len(insights) : Append(insights, r)[k] = insights[k]
            /\ Append(insights, r)[Len(insights) + 1] = r
        <4>1. insights \in Seq(Insights) /\ r \in Insights
          BY <1>1, <2>1
        <4>2. QED
          BY <4>1, AppendProperties
      <3>2. QED
        BY <2>1, <3>1
    <2>3. DOMAIN insights' = 1..(Len(insights) + 1)
      BY <2>2, LenProperties
    <2>4. ASSUME NEW k \in DOMAIN insights', insights'[k].kind = "post_call"
          PROVE  \E s \in Ids', upto \in Nat :
                   /\ insights'[k].state = s /\ insights'[k].upto = upto
                   /\ MissesOneTurn(s, upto)'
      <3>1. CASE k \in DOMAIN insights
        BY <1>1, <1>2, <2>2, <2>4, <3>1
      <3>2. CASE k \notin DOMAIN insights
        <4>1. k = Len(insights) + 1
          BY <1>1, <2>3, <3>2
        <4>2. insights'[k] = r /\ r.upto \in Nat
          BY <2>1, <2>2, <4>1 DEF Insights
        <4>3. QED
          BY <1>4, <2>4, <4>2
      <3>3. QED
        BY <3>1, <3>2
    <2>5. QED
      BY <2>4 DEF SummariesMissOneTurn
  <1>5. QED
    BY <1>3, <1>4

(* A step that changes no turn and untracks nothing.                        *)
LEMMA MissesSame ==
  ASSUME Base, SummariesMissOneTurn, Len(states') = Len(states), calls' = calls,
         insights' = insights, Over => Over',
         \A i \in Ids :
           /\ states'[i].call = states[i].call
           /\ states'[i].turns = states[i].turns
           /\ states[i].ended => states'[i].ended,
         \A t \in Tasks, i \in Ids : Claimed(t, i) => Claimed(t, i)',
         \A t \in Tasks, i \in Ids : Claimed(t, i)' /\ states[i].ended => Claimed(t, i)
  PROVE  SummariesMissOneTurn'
  <1>1. Ids' = Ids /\ Types
    BY DEF Ids, Base
  <1>2. \A s \in Ids : IsTracked(s)' <=> IsTracked(s)
    BY DEF IsTracked
  <1>3. \A s \in Ids : Stuck(s) => Stuck(s)'
    BY <1>2 DEF Stuck
  <1>4. \A s \in Ids : Closed(s) => Closed(s)'
    BY <1>2, Names DEF Closed
  <1>5. \A s \in Ids, upto \in Nat : MissesOneTurn(s, upto) => MissesOneTurn(s, upto)'
    BY <1>3, <1>4, MissKept
  <1>6. QED
    BY <1>1, <1>5, SummariesAfter

LEMMA QuietMisses ==
  ASSUME Base, SummariesMissOneTurn, UnwindWaits, QuietStep
  PROVE  SummariesMissOneTurn'
  <1>1. UNCHANGED <<states, calls, insights>>
    BY QuietFacts DEF Base
  <1>2. QED
    BY <1>1, QuietEnds, QuietClaims, MissesSame

LEMMA ClaimMisses ==
  ASSUME Base, SummariesMissOneTurn, UnwindWaits,
         NEW t \in Tasks, NEW c \in CallIds, ClaimStep(t, c)
  PROVE  SummariesMissOneTurn'
  <1>1. UNCHANGED <<calls, insights>>
    BY ClaimFrame DEF Base
  <1>2. /\ ~states[calls[c]].ended /\ calls[c] \in Ids /\ Len(states') = Len(states)
        /\ \A i \in Ids :
             /\ states'[i].call = states[i].call
             /\ states'[i].turns = states[i].turns
             /\ i # calls[c] => states'[i] = states[i]
    BY ClaimFacts DEF Base, ClaimStep
  <1>3. \A i \in Ids : states[i].ended => states'[i].ended
    BY <1>2
  <1>4. \A u \in Tasks, i \in Ids : Claimed(u, i)' <=> Claimed(u, i) \/ (u = t /\ i = calls[c])
    BY ClaimClaims
  <1>5. Over => Over'
    BY OthersEnd
  <1>6. QED
    BY <1>1, <1>2, <1>3, <1>4, <1>5, MissesSame

LEMMA WorkMisses ==
  ASSUME Base, SummariesMissOneTurn, UnwindWaits, NEW t \in Tasks, WorkStep(t)
  PROVE  SummariesMissOneTurn'
  <1>1. /\ UNCHANGED <<calls, insights>> /\ Len(states') = Len(states)
        /\ \A i \in Ids :
             /\ states'[i].call = states[i].call
             /\ states'[i].turns = states[i].turns
             /\ states[i].ended => states'[i].ended
    BY WorkFacts
  <1>2. QED
    BY <1>1, OthersEnd, WorkClaims, MissesSame

LEMMA AheadCounts ==
  ASSUME Base, OneTurnAhead, NEW t \in Tasks, pc[t] = "reporting"
  PROVE  on[t] \in Ids /\ Turns(on[t]) - read[t] <= 1
  <1>1. on[t] \in Ids /\ read[t] \in Nat
    BY DEF Base, Types, InHands, Locking, Finishing
  <1>2. states[on[t]] \in CallStates
    BY <1>1, ElementOfSeq DEF Base, Types, Ids
  <1>3. Turns(on[t]) \in Nat
    BY <1>2, LenProperties DEF Turns, CallStates
  <1>4. Turns(on[t]) <= read[t] \/ Turns(on[t]) <= read[t] + 1
    BY DEF OneTurnAhead, Ahead
  <1>5. QED
    BY <1>1, <1>3, <1>4

LEMMA SettleMisses ==
  ASSUME Base, Locks, OneTurnAhead, SummariesMissOneTurn, UnwindWaits,
         NEW t \in Tasks, SettleStep(t)
  PROVE  SummariesMissOneTurn'
  <1>1. PICK s \in Ids : s = on[t]
    BY SettleFacts, WhoIsWhere
  <1>2. /\ Left(t) /\ Finishing(t) /\ Claimed(t, s) /\ Summary(t) \in Insights
        /\ insights' = insights \/ insights' = Append(insights, Summary(t))
    BY <1>1, SettleFacts, WhoIsWhere, RecordsAreInsights DEF Claimed
  <1>3. \A i \in Ids : IsTracked(i)' <=> IsTracked(i) /\ i # s
    BY <1>1, SettleMore
  <1>4. \A u \in Tasks, i \in Ids : Claimed(u, i)' <=> u # t /\ Claimed(u, i)
    BY LeftClaims
  <1>5. Ids' = Ids /\ Types /\ (Over => Over')
    BY <1>2, OthersEnd DEF Left, Ids, Base
  <1>6. ASSUME NEW i \in Ids PROVE (Stuck(i) => Stuck(i)') /\ (Closed(i) => Closed(i)')
    <2>1. Stuck(i) => Stuck(i)'
      BY <1>2, <1>3, <1>4 DEF Stuck, Left
    <2>2. Claimed("Consumer", i) => Closed(i)'
      <3>1. CASE t = "Consumer" /\ Claimed("Consumer", i)
        BY <1>1, <1>3, <3>1 DEF Closed, Claimed
      <3>2. CASE t # "Consumer"
        BY <1>4, <3>2, Names DEF Closed
      <3>3. QED
        BY <3>1, <3>2
    <2>3. QED
      BY <1>3, <1>5, <2>1, <2>2 DEF Closed
  <1>7. \A i \in Ids, upto \in Nat : MissesOneTurn(i, upto) => MissesOneTurn(i, upto)'
    BY <1>2, <1>6, MissKept DEF Left
  <1>8. PICK r \in Insights : r = Summary(t)
    BY <1>2
  <1>9. ASSUME insights' # insights PROVE r.state \in Ids' /\ MissesOneTurn(r.state, r.upto)'
    <2>1. pc[t] = "reporting"
      BY <1>9 DEF SettleStep, NoSummary, Report, Back
    <2>2. r.state = s /\ r.upto = read[t]
      BY <1>1, <1>8 DEF Summary
    <2>3. states'[s].turns = states[s].turns /\ Turns(s) - r.upto <= 1
      BY <1>1, <1>2, <2>1, <2>2, AheadCounts DEF Left
    <2>4. Closed(s)'
      BY <1>3 DEF Closed
    <2>5. MissesOneTurn(s, r.upto)'
      BY <2>3, <2>4 DEF MissesOneTurn, Turns
    <2>6. QED
      BY <1>5, <2>2, <2>5
  <1>10. QED
    BY <1>2, <1>5, <1>7, <1>8, <1>9, SummariesAfter

LEMMA QuitMisses ==
  ASSUME Base, Locks, OneTurnAhead, SummariesMissOneTurn, UnwindWaits,
         NEW t \in Tasks, QuitStep(t) \/ (t = "Consumer" /\ FreeStep)
  PROVE  SummariesMissOneTurn'
  <1>1. Left(t) /\ calls' = calls
    BY QuitFacts, FreeFacts
  <1>2. \A i \in Ids : IsTracked(i)' <=> IsTracked(i)
    BY <1>1 DEF Left, IsTracked
  <1>3. \A u \in Tasks, i \in Ids : Claimed(u, i)' <=> u # t /\ Claimed(u, i)
    BY LeftClaims
  <1>4. Ids' = Ids /\ Types /\ (Over => Over') /\ pc \in [Tasks -> Awaits]
    BY <1>1, OthersEnd DEF Left, Ids, Base, Types
  <1>5. t = "Consumer" => Over' \/ \A i \in Ids : ~Claimed(t, i)
    <2>1. CASE QuitStep(t)
      BY <1>4, <2>1, QuitFacts DEF Over
    <2>2. CASE t = "Consumer" /\ FreeStep
      BY <2>2, FreeFacts DEF Claimed, Finishing, Watching
    <2>3. QED
      BY <2>1, <2>2
  <1>6. ASSUME NEW i \in Ids PROVE (Stuck(i) => Stuck(i)') /\ (Closed(i) => Closed(i)')
    <2>1. Stuck(i) => Stuck(i)'
      BY <1>1, <1>2, <1>3 DEF Stuck, Left
    <2>2. Claimed("Consumer", i) => Closed(i)'
      BY <1>3, <1>5, Names DEF Closed
    <2>3. QED
      BY <1>2, <1>4, <2>1, <2>2 DEF Closed
  <1>7. \A i \in Ids, upto \in Nat : MissesOneTurn(i, upto) => MissesOneTurn(i, upto)'
    BY <1>1, <1>6, MissKept DEF Left
  <1>8. ASSUME pc[t] = "reporting", QuitStep(t)
        PROVE  \E s \in Ids, upto \in Nat :
                 s = on[t] /\ upto = read[t] /\ MissesOneTurn(s, upto)'
    <2>1. PICK s \in Ids, upto \in Nat : s = on[t] /\ upto = read[t]
      BY <1>8, AheadCounts DEF Base, Types
    <2>2. states'[s].turns = states[s].turns /\ Turns(s) - upto <= 1
      BY <1>1, <1>8, <2>1, AheadCounts DEF Left
    <2>3. states'[s].ended
      BY <1>1, <1>8, <2>1 DEF Left, Locks, FinalisingEnds, Finalising
    <2>4. Stuck(s)' \/ Closed(s)'
      <3>1. CASE t = "Consumer"
        BY <1>4, <1>8, <3>1, QuitFacts DEF Closed, Over
      <3>2. CASE t # "Consumer" /\ (\E u \in Tasks : u # t /\ Claimed(u, s))
        <4>1. PICK u \in Tasks : u # t /\ Claimed(u, s)
          BY <3>2
        <4>2. CASE u = "Consumer"
          BY <1>3, <4>1, <4>2 DEF Closed
        <4>3. CASE u # "Consumer"
          <5>1. pc["Main"] # "idle"
            BY <1>8, <3>2, <4>1, <4>3, Names DEF Claimed, Finishing
          <5>2. Over
            BY <5>1 DEF Base, MainIsLast, Over
          <5>3. QED
            BY <1>4, <5>2 DEF Closed
        <4>4. QED
          BY <4>2, <4>3
      <3>3. CASE t # "Consumer" /\ (\A u \in Tasks : ~(u # t /\ Claimed(u, s)))
        BY <1>3, <2>3, <3>3 DEF Stuck, Closed
      <3>4. QED
        BY <3>1, <3>2, <3>3
    <2>5. MissesOneTurn(s, upto)'
      BY <2>2, <2>4 DEF MissesOneTurn, Turns
    <2>6. QED
      BY <2>1, <2>5
  <1>9. CASE insights' = insights
    BY <1>4, <1>7, <1>9, SummariesAfter
  <1>10. CASE QuitStep(t) /\ pc[t] = "reporting" /\ insights' = Append(insights, Summary(t))
    <2>1. PICK r \in Insights : r = Summary(t)
      BY RecordsAreInsights
    <2>2. PICK s \in Ids, upto \in Nat :
            s = on[t] /\ upto = read[t] /\ MissesOneTurn(s, upto)'
      BY <1>8, <1>10
    <2>3. r.state = s /\ r.upto = upto
      BY <2>1, <2>2 DEF Summary
    <2>4. r.state \in Ids' /\ MissesOneTurn(r.state, r.upto)'
      BY <1>4, <2>2, <2>3
    <2>5. QED
      BY <1>4, <1>7, <1>10, <2>1, <2>4, SummariesAfter
  <1>11. CASE t = "Consumer" /\ Watching(t) /\ insights' = Append(insights, Signals)
    <2>1. PICK r \in Insights : r = Signals
      BY <1>11, RecordsAreInsights
    <2>2. r.kind = "live"
      BY <2>1 DEF Signals
    <2>3. QED
      BY <1>4, <1>7, <1>11, <2>1, <2>2, SummariesAfter
  <1>12. QED
    BY <1>9, <1>10, <1>11, QuitMore, FreeFacts

LEMMA AdmitMisses ==
  ASSUME Base, SegmentInHand, UnwindWaits, SummariesMissOneTurn, Admit
  PROVE  SummariesMissOneTurn'
  <1>1. /\ \A u \in Tasks, s \in Ids : Claimed(u, s)' <=> Claimed(u, s)
        /\ Ids \subseteq Ids' /\ ~Over
        /\ \A i \in Ids :
              /\ IsTracked(i)' <=> IsTracked(i)
              /\ states'[i].ended <=> states[i].ended
              /\ ~IsTracked(i) => states'[i].turns = states[i].turns
    BY AdmitMore, AdmitEnds
  <1>2. \A i : ~Claimed("Consumer", i)
    BY AdmitFrame DEF Claimed, Finishing
  <1>3. \A i \in Ids : Closed(i) => ~IsTracked(i)
    BY <1>1, <1>2 DEF Closed
  <1>4. \A i \in Ids : (Stuck(i) => Stuck(i)') /\ (Closed(i) => Closed(i)')
    BY <1>1, <1>3 DEF Stuck, Closed
  <1>5. \A i \in Ids, upto \in Nat : MissesOneTurn(i, upto) => MissesOneTurn(i, upto)'
    BY <1>1, <1>3, <1>4, MissKept
  <1>6. insights' = insights /\ Types
    BY AdmitFrame DEF Base
  <1>7. QED
    BY <1>1, <1>5, <1>6, SummariesAfter

-----------------------------------------------------------------------------
(* Records of the topic.                                                    *)

LEMMA SmallSets ==
  ASSUME NEW P, NEW n
  PROVE  /\ AtMostOne({}) /\ AtMostOne({n}) /\ AtMostTwo({}) /\ AtMostTwo({n})
         /\ AtMostOne(P) => AtMostTwo(P \cup {n})
         /\ P = {} => P \cup {n} = {n}
  <1>1. ASSUME AtMostOne(P) PROVE AtMostTwo(P \cup {n})
    <2>1. CASE P = {}
      BY <2>1 DEF AtMostTwo
    <2>2. CASE P # {}
      <3>1. PICK k \in P : TRUE
        BY <2>2
      <3>2. P \cup {n} = {k, n}
        BY <1>1, <3>1 DEF AtMostOne
      <3>3. QED
        BY <3>1, <3>2 DEF AtMostTwo
    <2>3. QED
      BY <2>1, <2>2
  <1>2. QED
    BY <1>1 DEF AtMostOne, AtMostTwo

(* The record that a step appends, if any, ...                              *)
LEMMA TopicSame ==
  ASSUME insights' = insights, NEW s
  PROVE  Posts(s)' = Posts(s) /\ LateLives(s)' = LateLives(s)
  BY DEF Posts, Lives, LateLives

(* ... comes after all others.                                              *)
LEMMA TopicGrows ==
  ASSUME Types, NEW r \in Insights, insights' = Append(insights, r), NEW s
  PROVE  /\ Posts(s)' = IF r.kind = "post_call" /\ r.state = s
                        THEN Posts(s) \cup {Len(insights) + 1} ELSE Posts(s)
         /\ LateLives(s)' \subseteq LateLives(s) \cup {Len(insights) + 1}
         /\ r.kind = "post_call" \/ r.state # s => LateLives(s)' = LateLives(s)
  <1> DEFINE n == Len(insights) + 1
             I == insights'
  <1>1. /\ insights \in Seq(Insights) /\ DOMAIN insights = 1..Len(insights)
        /\ Len(insights) \in Nat
    BY LenProperties DEF Types
  <1>2. /\ Append(insights, r) \in Seq(Insights) /\ Len(Append(insights, r)) = n
        /\ \A k \in 1..Len(insights) : Append(insights, r)[k] = insights[k]
        /\ Append(insights, r)[n] = r
    BY <1>1, AppendProperties
  <1>3. DOMAIN I = 1..n /\ I[n] = r /\ \A k \in 1..Len(insights) : I[k] = insights[k]
    BY <1>2, LenProperties
  <1>4. /\ DOMAIN I = DOMAIN insights \cup {n} /\ n \notin DOMAIN insights
        /\ \A k \in DOMAIN insights : k < n /\ ~(n < k)
    BY <1>1, <1>3
  <1>5. \A k \in DOMAIN insights : I[k] = insights[k]
    BY <1>1, <1>3
  <1>6. ~(n < n)
    BY <1>1
  <1> HIDE DEF n, I
  <1>7. Posts(s)' = {k \in DOMAIN I : I[k].kind = "post_call" /\ I[k].state = s}
    BY DEF Posts, I
  <1>8. Lives(s)' = {k \in DOMAIN I : I[k].kind = "live" /\ I[k].state = s}
    BY DEF Lives, I
  <1>9. Posts(s)' = IF r.kind = "post_call" /\ r.state = s THEN Posts(s) \cup {n} ELSE Posts(s)
    BY <1>3, <1>4, <1>5, <1>7 DEF Posts
  <1>10. Lives(s)' = IF r.kind = "live" /\ r.state = s THEN Lives(s) \cup {n} ELSE Lives(s)
    BY <1>3, <1>4, <1>5, <1>8 DEF Lives
  <1>11. Posts(s) \subseteq DOMAIN insights /\ Lives(s) \subseteq DOMAIN insights
    BY DEF Posts, Lives
  <1>12. LateLives(s)' = {l \in Lives(s)' : \E k \in Posts(s)' : k < l}
    BY DEF LateLives
  <1>13. \A l \in Lives(s) : (\E k \in Posts(s)' : k < l) <=> (\E k \in Posts(s) : k < l)
    BY <1>4, <1>9, <1>11
  <1>14. LateLives(s)' \subseteq LateLives(s) \cup {n}
    BY <1>10, <1>12, <1>13 DEF LateLives
  <1>15. r.kind = "post_call" \/ r.state # s => LateLives(s)' = LateLives(s)
    <2>1. r.kind = "post_call" \/ r.state # s => Lives(s)' = Lives(s)
      BY <1>10
    <2>2. QED
      BY <1>12, <1>13, <2>1 DEF LateLives
  <1>16. QED
    BY <1>9, <1>14, <1>15 DEF n

LEMMA PostsOfStates ==
  ASSUME SummariesMissOneTurn, NEW s, s \notin Ids
  PROVE  Posts(s) = {} /\ LateLives(s) = {}
  BY DEF SummariesMissOneTurn, Posts, LateLives

LEMMA LeavingTopic ==
  ASSUME Base, NEW t \in Tasks,
         SettleStep(t) \/ QuitStep(t) \/ (t = "Consumer" /\ FreeStep)
  PROVE  \/ insights' = insights
         \/ /\ pc[t] = "reporting"
            /\ SettleStep(t) \/ QuitStep(t)
            /\ t = "Main" => cancelled = {}
            /\ \E r \in Insights :
                 /\ r.kind = "post_call" /\ r.state = on[t]
                 /\ insights' = Append(insights, r)
         \/ /\ t = "Consumer" /\ Watching(t)
            /\ \E r \in Insights :
                 /\ r.kind = "live" /\ r.state = on[t]
                 /\ insights' = Append(insights, r)
  <1>1. Summary(t).kind = "post_call" /\ Summary(t).state = on[t] /\ Summary(t) \in Insights
    BY RecordsAreInsights DEF Summary
  <1>2. /\ Signals.kind = "live" /\ Signals.state = on["Consumer"]
        /\ Watching("Consumer") => Signals \in Insights
    BY RecordsAreInsights DEF Signals
  <1>3. CASE SettleStep(t)
    <2>1. /\ cancelled = {}
          /\ insights' = insights \/ (pc[t] = "reporting" /\ insights' = Append(insights, Summary(t)))
      BY <1>3 DEF SettleStep, NoSummary, Report, Back
    <2>2. QED
      BY <1>1, <1>3, <2>1
  <1>4. CASE QuitStep(t)
    BY <1>1, <1>2, <1>4, QuitMore
  <1>5. CASE t = "Consumer" /\ FreeStep
    BY <1>2, <1>5, FreeFacts
  <1>6. QED
    BY <1>3, <1>4, <1>5

-----------------------------------------------------------------------------
(* Summaries and late signals are bounded.                                  *)

LEMMA SummariesSame ==
  ASSUME NEW s, Posts(s)' = Posts(s), states[s].ended => states'[s].ended,
         \A t \in Tasks : Claimed(t, s)' => Claimed(t, s),
         \A t \in Tasks : Reports(t, s)' => Reports(t, s)
  PROVE  Summaries(s) => Summaries(s)'
  BY Names DEF Summaries, AtMostOne, AtMostTwo

LEMMA BelowCeilingSame ==
  ASSUME NEW s, Posts(s)' = Posts(s), Finishing("Consumer")' => Finishing("Consumer"),
         Claimed("Sweeper", s)' => Claimed("Sweeper", s)
  PROVE  SummariesBelowCeiling(s) => SummariesBelowCeiling(s)'
  BY DEF SummariesBelowCeiling, Roomy, AtMostOne

LEMMA LateSame ==
  ASSUME NEW s, Posts(s)' = Posts(s), LateLives(s)' = LateLives(s),
         s \in abandoned => s \in abandoned', IsTracked(s)' => IsTracked(s),
         Watches(s)' => Watches(s)
  PROVE  LateOnce(s) => LateOnce(s)'
  BY DEF LateOnce, AtMostOne

LEMMA QuietBounded ==
  ASSUME Base, AllBounded, QuietStep
  PROVE  AllBounded'
  <1>1. /\ UNCHANGED <<states, calls, on, insights, abandoned>>
        /\ \A t \in Tasks : pc'[t] = pc[t] \/ (~Locking(t) /\ ~Locking(t)')
    BY QuietFacts DEF Base
  <1>2. \A t \in Tasks :
          /\ pc'[t] = "reporting" => pc[t] = "reporting"
          /\ Watching(t)' => Watching(t)
          /\ Finishing(t)' => Finishing(t)
    <2> SUFFICES ASSUME NEW t \in Tasks
                 PROVE  /\ pc'[t] = "reporting" => pc[t] = "reporting"
                        /\ Watching(t)' => Watching(t)
                        /\ Finishing(t)' => Finishing(t)
      OBVIOUS
    <2>1. CASE pc'[t] = pc[t]
      BY <2>1 DEF Watching, Finishing
    <2>2. CASE ~Locking(t)'
      BY <2>2 DEF Locking, Watching, Finishing
    <2>3. QED
      BY <1>1, <2>1, <2>2
  <1>3. ASSUME NEW s \in Ids
        PROVE  /\ Posts(s)' = Posts(s) /\ LateLives(s)' = LateLives(s)
               /\ Watches(s)' => Watches(s)
               /\ IsTracked(s)' => IsTracked(s)
               /\ \A t \in Tasks : Claimed(t, s)' => Claimed(t, s)
               /\ \A t \in Tasks : Reports(t, s)' => Reports(t, s)
    BY <1>1, <1>2, TopicSame, Names DEF Watches, IsTracked, Claimed, Reports
  <1>4. Ids' = Ids
    BY <1>1 DEF Ids
  <1>5. \A s \in Ids : Summaries(s)' /\ SummariesBelowCeiling(s)' /\ LateOnce(s)'
    BY <1>1, <1>2, <1>3, SummariesSame, BelowCeilingSame, LateSame, Names DEF AllBounded
  <1>6. QED
    BY <1>4, <1>5 DEF AllBounded

(* With room for every call the consumer never finalises.                   *)
LEMMA RoomForAll ==
  ASSUME Types, Roomy, NEW c \in CallIds, AtCeiling(c)
  PROVE  FALSE
  <1>1. /\ IsFiniteSet(CallIds) /\ MaxTracked \in Nat
        /\ Tracked \subseteq CallIds \ {c} /\ CallIds \ {c} \subseteq CallIds
    BY InsightWorkerAssumption DEF AtCeiling, Tracked
  <1>2. /\ IsFiniteSet(CallIds \ {c}) /\ Cardinality(CallIds \ {c}) = Cardinality(CallIds) - 1
    BY <1>1, FS_RemoveElement
  <1>3. IsFiniteSet(Tracked) /\ Cardinality(Tracked) <= Cardinality(CallIds \ {c})
    BY <1>1, <1>2, FS_Subset
  <1>4. Cardinality(CallIds) \in Nat /\ Cardinality(Tracked) \in Nat
    BY <1>1, <1>3, FS_CardinalityType
  <1>5. QED
    BY <1>1, <1>2, <1>3, <1>4 DEF Roomy, AtCeiling

LEMMA ClaimBounded ==
  ASSUME Base, Locks, AllBounded, NEW t \in Tasks, NEW c \in CallIds, ClaimStep(t, c)
  PROVE  AllBounded'
  <1>1. /\ UNCHANGED <<calls, insights, abandoned>> /\ pc[t] \in {"idle", "iterating"}
        /\ pc \in [Tasks -> Awaits] /\ on \in [Tasks -> 0..Len(states)] /\ Types
    BY ClaimFrame DEF Base, Types
  <1>2. PICK s \in Ids : s = calls[c]
    BY ClaimFacts DEF Base, ClaimStep
  <1>3. /\ ~states[s].ended /\ Len(states') = Len(states)
        /\ on' = [on EXCEPT ![t] = s]
        /\ \A i \in Ids :
              /\ states'[i].call = states[i].call
              /\ i # s => states'[i] = states[i]
        /\ pc' = [pc EXCEPT ![t] = "summarising"] \/ pc' = [pc EXCEPT ![t] = "queued"]
    BY <1>2, ClaimFacts DEF Base, ClaimStep
  <1>4. \A u \in Tasks, i \in Ids : Claimed(u, i)' <=> Claimed(u, i) \/ (u = t /\ i = s)
    BY <1>2, ClaimClaims
  <1>5. \A u \in Tasks, i \in Ids : Reports(u, i)' => Reports(u, i)
    BY <1>1, <1>3 DEF Reports
  <1>6. \A i \in Ids : Watches(i)' => Watches(i)
    BY <1>1, <1>3, Names DEF Watches, Watching
  <1>7. \A i \in Ids :
          /\ Posts(i)' = Posts(i) /\ LateLives(i)' = LateLives(i)
          /\ (IsTracked(i)' => IsTracked(i))
    BY <1>1, <1>3, TopicSame DEF IsTracked
  <1>8. Roomy => t # "Consumer"
    <2>1. ASSUME t = "Consumer" PROVE \E d \in CallIds : AtCeiling(d)
      <3>1. PICK d \in CallIds : TakeFinal(d)
        BY <2>1, Names DEF ClaimStep
      <3>2. ~Goto("Consumer", "admitting")
        BY <1>1, <1>3, <2>1 DEF Goto
      <3>3. QED
        BY <3>1, <3>2 DEF TakeFinal
    <2>2. QED
      BY <1>1, <2>1, RoomForAll
  <1>9. Finishing("Consumer")' => Finishing("Consumer") \/ t = "Consumer"
    BY <1>1, <1>3, Names DEF Finishing
  <1>10. Posts(s) = {} /\ Posts(s)' = {} /\ \A u \in Tasks : ~Reports(u, s)'
    <2>1. Posts(s) = {}
      BY <1>3 DEF AllBounded, Summaries
    <2>2. \A u \in Tasks : ~Reports(u, s)
      BY <1>3 DEF Reports, Locks, FinalisingEnds, Finalising
    <2>3. QED
      BY <1>5, <1>7, <2>1, <2>2
  <1>11. Summaries(s)' /\ SummariesBelowCeiling(s)'
    <2>1. AtMostOne(Posts(s)') /\ AtMostTwo(Posts(s)')
      BY <1>10, SmallSets
    <2>2. Summaries(s)'
      BY <1>10, <2>1 DEF Summaries
    <2>3. Roomy => ~Finishing("Consumer")'
      BY <1>8, <1>9 DEF AllBounded, SummariesBelowCeiling
    <2>4. QED
      BY <1>10, <2>1, <2>2, <2>3 DEF SummariesBelowCeiling, Roomy
  <1>12. ASSUME NEW i \in Ids PROVE LateOnce(i)'
    BY <1>1, <1>6, <1>7, LateSame DEF AllBounded
  <1>13. ASSUME NEW i \in Ids, i # s PROVE Summaries(i)' /\ SummariesBelowCeiling(i)'
    <2>1. Summaries(i)'
      BY <1>3, <1>4, <1>5, <1>7, <1>13, SummariesSame DEF AllBounded
    <2>2. CASE Roomy
      <3>1. Finishing("Consumer")' => Finishing("Consumer")
        BY <1>8, <1>9, <2>2
      <3>2. Claimed("Sweeper", i)' => Claimed("Sweeper", i)
        BY <1>4, <1>13, Names
      <3>3. QED
        BY <1>7, <2>1, <3>1, <3>2, BelowCeilingSame DEF AllBounded
    <2>3. CASE ~Roomy
      BY <2>1, <2>3 DEF SummariesBelowCeiling, Roomy
    <2>4. QED
      BY <2>2, <2>3
  <1>14. Ids' = Ids
    BY <1>3 DEF Ids
  <1>15. QED
    BY <1>11, <1>12, <1>13, <1>14 DEF AllBounded

(* When nothing is cancelled, Main works alone.                             *)
LEMMA MainAlone ==
  ASSUME Base, UnwindWaits, cancelled = {}, pc["Main"] # "idle"
  PROVE  pc["Consumer"] \in {"unwinding", "done"} /\ pc["Sweeper"] = "done"
  BY DEF Base, MainIsLast, UnwindWaits

LEMMA WorkBounded ==
  ASSUME Base, UnwindWaits, AllBounded, NEW t \in Tasks, WorkStep(t)
  PROVE  AllBounded'
  <1>1. /\ pc \in [Tasks -> Awaits] /\ on' = on /\ UNCHANGED <<calls, insights, abandoned>>
        /\ Len(states') = Len(states)
        /\ \A i \in Ids :
             /\ states'[i].call = states[i].call
             /\ states[i].ended => states'[i].ended
    BY WorkFacts DEF Base, Types
  <1>2. PICK w \in Awaits :
          /\ pc' = [pc EXCEPT ![t] = w]
          /\ \/ /\ pc[t] = "queued" /\ w = "summarising" /\ Head(states[on[t]].lock) = t
             \/ pc[t] = "summarising" /\ w = "reporting"
             \/ /\ t = "Consumer" /\ Watching(t)
                /\ w \in {"live_queued", "analysing", "sending"}
    BY WorkFacts
  <1>3. \A u \in Tasks : Watching(u)' => Watching(u)
    <2> SUFFICES ASSUME NEW u \in Tasks, Watching(u)' PROVE Watching(u)
      OBVIOUS
    <2>1. CASE u = t
      BY <1>1, <1>2, <2>1 DEF Watching
    <2>2. CASE u # t
      BY <1>1, <1>2, <2>2 DEF Watching
    <2>3. QED
      BY <2>1, <2>2
  <1>4. \A u \in Tasks, i \in Ids : Claimed(u, i)' <=> Claimed(u, i)
    BY WorkClaims
  <1>5. ASSUME NEW i \in Ids
        PROVE  /\ Posts(i)' = Posts(i) /\ LateLives(i)' = LateLives(i)
               /\ (IsTracked(i)' => IsTracked(i)) /\ (Watches(i)' => Watches(i))
    BY <1>1, <1>3, TopicSame, Names DEF IsTracked, Watches
  <1>6. Finishing("Consumer")' => Finishing("Consumer")
    <2>1. CASE t = "Consumer"
      BY <1>1, <1>2, <2>1 DEF Finishing, Watching
    <2>2. CASE t # "Consumer"
      BY <1>1, <1>2, <2>2, Names DEF Finishing
    <2>3. QED
      BY <2>1, <2>2
  <1>7. ASSUME NEW i \in Ids, NEW u \in Tasks \ {"Main"}, Claimed("Main", i), Reports(u, i)'
        PROVE  Reports(u, i)
    <2>1. CASE u # t
      BY <1>1, <1>2, <1>7, <2>1 DEF Reports
    <2>2. CASE u = t
      <3>1. pc[t] = "summarising" /\ cancelled = {}
        BY <1>7, <2>2, WorkMore DEF Reports
      <3>2. pc["Main"] # "idle"
        BY <1>7 DEF Claimed, Finishing
      <3>3. QED
        BY <2>2, <3>1, <3>2, MainAlone, Names
    <2>3. QED
      BY <2>1, <2>2
  <1>8. ASSUME NEW i \in Ids PROVE Summaries(i)'
    <2>1. Summaries(i)
      BY DEF AllBounded
    <2>2. Claimed("Main", i)' => \A u \in Tasks \ {"Main"} : ~Reports(u, i)'
      BY <1>4, <1>7, <2>1, Names DEF Summaries
    <2>3. QED
      BY <1>1, <1>4, <1>5, <2>1, <2>2, Names DEF Summaries, AtMostOne, AtMostTwo
  <1>9. \A i \in Ids : SummariesBelowCeiling(i)' /\ LateOnce(i)'
    BY <1>1, <1>4, <1>5, <1>6, BelowCeilingSame, LateSame, Names DEF AllBounded
  <1>10. Ids' = Ids
    BY <1>1 DEF Ids
  <1>11. QED
    BY <1>8, <1>9, <1>10 DEF AllBounded

LEMMA AdmitBounded ==
  ASSUME Base, SegmentInHand, SummariesMissOneTurn, AllBounded, Admit
  PROVE  AllBounded'
  <1>1. /\ \A u \in Tasks, s \in Ids : Claimed(u, s)' <=> Claimed(u, s)
        /\ ~Finishing("Consumer")' /\ Ids \subseteq Ids'
        /\ \A i \in Ids : (IsTracked(i)' <=> IsTracked(i)) /\ (states'[i].ended <=> states[i].ended)
        /\ \A i \in Ids' \ Ids : ~states'[i].ended
        /\ Watching("Consumer")' /\ on'["Consumer"] \in Ids =>
             IsTracked(on["Consumer"])'
    BY AdmitMore
  <1>2. /\ UNCHANGED <<insights, abandoned>> /\ pc["Consumer"] = "admitting"
        /\ pc \in [Tasks -> Awaits] /\ on \in [Tasks -> 0..Len(states)]
    BY AdmitFrame DEF Base, Types
  <1>3. /\ \A u \in Tasks : u # "Consumer" => pc'[u] = pc[u] /\ on'[u] = on[u]
        /\ pc'["Consumer"] # "reporting"
    BY <1>2, AdmitFrame, AdmitFacts DEF Base
  <1>4. \A u \in Tasks : \A i : Reports(u, i)' => Reports(u, i)
    BY <1>3 DEF Reports
  <1>5. \A i : Posts(i)' = Posts(i) /\ LateLives(i)' = LateLives(i)
    BY <1>2, TopicSame
  <1>6. ASSUME NEW i \in Ids PROVE Summaries(i)' /\ SummariesBelowCeiling(i)' /\ LateOnce(i)'
    <2>1. Summaries(i)' /\ SummariesBelowCeiling(i)'
      BY <1>1, <1>4, <1>5, SummariesSame, BelowCeilingSame, Names DEF AllBounded
    <2>2. CASE i \in abandoned
      BY <1>2, <2>1, <2>2 DEF LateOnce
    <2>3. CASE i \notin abandoned
      <3>1. /\ Posts(i)' # {} => ~IsTracked(i)'
            /\ AtMostOne(LateLives(i)')
        BY <1>1, <1>5, <2>3 DEF AllBounded, LateOnce
      <3>2. ASSUME Watches(i)' PROVE LateLives(i)' = {}
        <4>1. IsTracked(i)'
          BY <1>1, <3>2 DEF Watches, IsTracked
        <4>2. Posts(i)' = {}
          BY <3>1, <4>1
        <4>3. QED
          BY <4>2 DEF LateLives
      <3>3. QED
        BY <2>1, <3>1, <3>2 DEF LateOnce
    <2>4. QED
      BY <2>2, <2>3
  <1>7. ASSUME NEW i \in Ids' \ Ids PROVE Summaries(i)' /\ SummariesBelowCeiling(i)' /\ LateOnce(i)'
    <2>1. Posts(i)' = {} /\ LateLives(i)' = {}
      BY <1>5, PostsOfStates
    <2>2. /\ AtMostOne(Posts(i)') /\ AtMostTwo(Posts(i)') /\ AtMostOne(LateLives(i)')
      BY <2>1, SmallSets
    <2>3. \A u \in Tasks : ~Reports(u, i)'
      <3>1. \A u \in Tasks : on[u] # i
        BY <1>2 DEF Ids
      <3>2. QED
        BY <1>4, <3>1 DEF Reports
    <2>4. QED
      BY <1>1, <2>1, <2>2, <2>3 DEF Summaries, SummariesBelowCeiling, LateOnce, Roomy
  <1>8. QED
    BY <1>6, <1>7 DEF AllBounded

LEMMA LeavingBounded ==
  ASSUME Base, Locks, UnwindWaits, AllBounded, NEW t \in Tasks,
         SettleStep(t) \/ QuitStep(t) \/ (t = "Consumer" /\ FreeStep)
  PROVE  AllBounded'
  <1>1. /\ pc \in [Tasks -> Awaits] /\ on \in [Tasks -> 0..Len(states)] /\ Left(t) /\ Types
        /\ abandoned \subseteq abandoned'
        /\ \E w \in {"idle", "iterating", "admitting", "unwinding", "done", "crashed"} :
             pc' = [pc EXCEPT ![t] = w]
    <2>1. CASE SettleStep(t)
      BY <2>1, SettleFacts DEF Base, Types
    <2>2. CASE QuitStep(t)
      BY <2>2, QuitFacts, Names DEF Base, Types
    <2>3. CASE t = "Consumer" /\ FreeStep
      BY <2>3, FreeFacts DEF Base, Types
    <2>4. QED
      BY <2>1, <2>2, <2>3
  <1>2. /\ Ids' = Ids
        /\ \A i \in Ids :
             /\ states'[i].call = states[i].call
             /\ states[i].ended => states'[i].ended
    BY <1>1 DEF Left, Ids
  <1>3. \A i \in Ids : IsTracked(i)' => IsTracked(i)
    <2>1. CASE SettleStep(t)
      BY <2>1, SettleMore
    <2>2. CASE calls' = calls
      BY <1>2, <2>2 DEF IsTracked
    <2>3. QED
      BY <2>1, <2>2, QuitFacts, FreeFacts
  <1>4. \A u \in Tasks, i \in Ids : Claimed(u, i)' <=> u # t /\ Claimed(u, i)
    BY LeftClaims
  <1>5. \A u \in Tasks, i \in Ids : Reports(u, i)' => u # t /\ Reports(u, i)
    BY <1>1 DEF Reports, Left
  <1>6. \A i \in Ids : Watches(i)' => t # "Consumer" /\ Watches(i)
    BY <1>1, Names DEF Watches, Watching, Left
  <1>7. Finishing("Consumer")' => Finishing("Consumer")
    <2>1. CASE t = "Consumer"
      BY <1>1, <2>1 DEF Finishing
    <2>2. CASE t # "Consumer"
      BY <1>1, <2>2, Names DEF Finishing
    <2>3. QED
      BY <2>1, <2>2
  <1>8. ASSUME NEW i \in Ids, Posts(i)' = Posts(i)
        PROVE  Summaries(i)' /\ SummariesBelowCeiling(i)'
    <2>1. Summaries(i) /\ SummariesBelowCeiling(i)
      BY DEF AllBounded
    <2>2. (\A u \in Tasks : Claimed(u, i)' => Claimed(u, i))
          /\ (\A u \in Tasks : Reports(u, i)' => Reports(u, i))
      BY <1>4, <1>5
    <2>3. QED
      BY <1>2, <1>7, <1>8, <2>1, <2>2, SummariesSame, BelowCeilingSame, Names
  <1>9. ASSUME NEW i \in Ids, Posts(i)' = Posts(i), LateLives(i)' = LateLives(i)
        PROVE  LateOnce(i)'
    BY <1>1, <1>3, <1>6, <1>9, LateSame DEF AllBounded
  <1>10. CASE insights' = insights
    BY <1>2, <1>8, <1>9, <1>10, TopicSame DEF AllBounded
  <1>11. ASSUME pc[t] = "reporting", SettleStep(t) \/ QuitStep(t), t = "Main" => cancelled = {},
                NEW r \in Insights, r.kind = "post_call", r.state = on[t],
                insights' = Append(insights, r)
         PROVE  AllBounded'
    <2>1. PICK s \in Ids : s = on[t]
      BY <1>11 DEF Base, InHands, Locking, Finishing
    <2>2. /\ \A i : LateLives(i)' = LateLives(i)
          /\ \A i \in Ids : i # s => Posts(i)' = Posts(i)
          /\ Posts(s)' = Posts(s) \cup {Len(insights) + 1}
      BY <1>1, <1>11, <2>1, TopicGrows
    <2>3. ASSUME NEW i \in Ids, i # s
          PROVE  Summaries(i)' /\ SummariesBelowCeiling(i)' /\ LateOnce(i)'
      BY <1>8, <1>9, <2>2, <2>3
    <2>4. LateOnce(s)'
      <3>1. CASE SettleStep(t)
        <4>1. ~IsTracked(s)'
          BY <2>1, <3>1, SettleMore
        <4>2. QED
          BY <1>1, <1>6, <2>2, <4>1 DEF AllBounded, LateOnce, AtMostOne
      <3>2. CASE QuitStep(t)
        <4>1. s \in abandoned'
          BY <1>11, <2>1, <3>2, QuitFacts DEF Finalising
        <4>2. QED
          BY <4>1 DEF LateOnce
      <3>3. QED
        BY <1>11, <3>1, <3>2
    <2>5. /\ Claimed(t, s) /\ Reports(t, s) /\ states'[s].ended
          /\ Summaries(s) /\ SummariesBelowCeiling(s)
      <3>1. states[s].ended
        BY <1>11, <2>1 DEF Locks, FinalisingEnds, Finalising
      <3>2. QED
        BY <1>2, <1>11, <2>1, <3>1 DEF Claimed, Reports, Finishing, AllBounded
    <2> DEFINE n == Len(insights) + 1
               P == Posts(s)
    <2>6. Posts(s)' = P \cup {n}
      BY <2>2
    <2>7. \A u \in Tasks : Claimed(u, s)' <=> u # t /\ Claimed(u, s)
      BY <1>4
    <2>8. AtMostOne({n}) /\ AtMostTwo({n}) /\ (AtMostOne(P) => AtMostTwo(P \cup {n}))
      BY SmallSets
    <2>9. CASE t = "Main"
      <3>1. P = {}
        BY <2>5, <2>9 DEF Summaries
      <3>2. ~Finishing("Consumer") /\ ~Finishing("Sweeper")
        BY <1>11, <2>9, MainAlone DEF Finishing
      <3>3. ~Claimed("Main", s)' /\ ~Claimed("Sweeper", s)' /\ ~Claimed("Consumer", s)'
        BY <2>7, <2>9, <3>2, Names DEF Claimed
      <3>4. Posts(s)' = {n}
        BY <2>6, <3>1
      <3> HIDE DEF n, P
      <3>5. Summaries(s)' /\ SummariesBelowCeiling(s)'
        BY <1>7, <2>5, <2>8, <3>2, <3>3, <3>4 DEF Summaries, SummariesBelowCeiling
      <3>6. QED
        BY <1>2, <2>3, <2>4, <3>5 DEF AllBounded
    <2>10. CASE t # "Main"
      <3>1. ~Claimed("Main", s) /\ ~Claimed("Main", s)'
        BY <2>5, <2>7, <2>10, Names DEF Summaries
      <3>2. AtMostOne(P)
        BY <2>5, <2>10, Names DEF Summaries
      <3>3. ~Claimed(t, s)'
        BY <2>7
      <3>4. (Claimed("Sweeper", s)' \/ Claimed("Consumer", s)') =>
               P = {} /\ ~(Claimed("Sweeper", s)' /\ Claimed("Consumer", s)')
        BY <2>5, <2>7, <2>10, <3>3, Names DEF Summaries
      <3>5. P = {} => Posts(s)' = {n}
        BY <2>6
      <3>6. Roomy => t = "Sweeper" /\ P = {}
        BY <2>5, <2>10, Names DEF SummariesBelowCeiling, Claimed
      <3> HIDE DEF n, P
      <3>7. Summaries(s)'
        BY <2>5, <2>6, <2>8, <3>1, <3>2, <3>4, <3>5 DEF Summaries
      <3>8. SummariesBelowCeiling(s)'
        BY <1>7, <2>5, <2>8, <3>3, <3>5, <3>6 DEF SummariesBelowCeiling, Roomy
      <3>9. QED
        BY <1>2, <2>3, <2>4, <3>7, <3>8 DEF AllBounded
    <2>11. QED
      BY <2>9, <2>10
  <1>12. ASSUME t = "Consumer", Watching(t),
                NEW r \in Insights, r.kind = "live", r.state = on[t],
                insights' = Append(insights, r)
         PROVE  AllBounded'
    <2>1. \A i \in Ids :
            /\ Posts(i)' = Posts(i)
            /\ LateLives(i)' \subseteq LateLives(i) \cup {Len(insights) + 1}
            /\ i # on[t] => LateLives(i)' = LateLives(i)
      BY <1>1, <1>12, TopicGrows
    <2>2. ASSUME NEW i \in Ids PROVE LateOnce(i)'
      <3>1. CASE i # on[t]
        BY <1>9, <2>1, <3>1
      <3>2. CASE i = on[t] /\ i \notin abandoned
        <4>1. LateLives(i) = {}
          BY <1>12, <3>2 DEF AllBounded, LateOnce, Watches
        <4>2. AtMostOne(LateLives(i)')
          BY <2>1, <4>1 DEF AtMostOne
        <4>3. QED
          BY <1>3, <1>6, <1>12, <2>1, <3>2, <4>2 DEF AllBounded, LateOnce
      <3>3. CASE i \in abandoned
        BY <1>1, <3>3 DEF LateOnce
      <3>4. QED
        BY <3>1, <3>2, <3>3
    <2>3. QED
      BY <1>2, <1>8, <2>1, <2>2 DEF AllBounded
  <1>13. QED
    BY <1>10, <1>11, <1>12, LeavingTopic

-----------------------------------------------------------------------------
(* The invariant of late work.                                              *)

LateInv == UnwindWaits /\ HeadWorks /\ OneTurnAhead /\ SummariesMissOneTurn /\ AllBounded

LEMMA LateStart ==
  Init => LateInv
  <1> SUFFICES ASSUME Init PROVE LateInv
    OBVIOUS
  <1>1. /\ states = <<>> /\ insights = <<>> /\ DOMAIN insights = {}
        /\ \A t \in Tasks : pc[t] = "idle"
    BY DEF Init
  <1>2. Ids = {}
    BY <1>1 DEF Ids
  <1>3. QED
    BY <1>1, <1>2, Names DEF LateInv, UnwindWaits, HeadWorks, Works, Finalising, OneTurnAhead,
                             SummariesMissOneTurn, AllBounded

LEMMA LateStutter ==
  LateInv /\ UNCHANGED vars => LateInv'
  <1> SUFFICES ASSUME LateInv, UNCHANGED vars PROVE LateInv'
    OBVIOUS
  <1>1. UNCHANGED <<states, calls, pc, on, read, cancelled, insights, abandoned>>
    BY DEF vars, kafkaVars, taskVars
  <1>2. UnwindWaits' /\ HeadWorks'
    BY <1>1 DEF LateInv, UnwindWaits, HeadWorks, Works, Finalising, HasLock
  <1>3. OneTurnAhead'
    BY <1>1 DEF LateInv, OneTurnAhead, Ahead, Turns, Over, AskedFor
  <1>4. \A u, s : Claimed(u, s)' <=> Claimed(u, s)
    BY <1>1 DEF Claimed, Finishing
  <1>5. \A s : IsTracked(s)' <=> IsTracked(s)
    BY <1>1 DEF IsTracked
  <1>6. \A s : Posts(s)' = Posts(s) /\ LateLives(s)' = LateLives(s)
    BY <1>1, TopicSame
  <1>7. \A s, upto : MissesOneTurn(s, upto)' <=> MissesOneTurn(s, upto)
    BY <1>1, <1>4, <1>5 DEF MissesOneTurn, Stuck, Closed, Turns, Over
  <1>8. SummariesMissOneTurn'
    BY <1>1, <1>7 DEF LateInv, SummariesMissOneTurn, Ids
  <1>9. \A s : (Watches(s)' <=> Watches(s)) /\ \A u : Reports(u, s)' <=> Reports(u, s)
    BY <1>1 DEF Watches, Watching, Reports
  <1>10. Finishing("Consumer")' <=> Finishing("Consumer")
    BY <1>1 DEF Finishing
  <1>11. AllBounded'
    <2>1. \A s \in Ids : Summaries(s)' /\ SummariesBelowCeiling(s)' /\ LateOnce(s)'
      BY <1>1, <1>4, <1>5, <1>6, <1>9, <1>10, SummariesSame, BelowCeilingSame, LateSame, Names
         DEF LateInv, AllBounded
    <2>2. QED
      BY <1>1, <2>1 DEF AllBounded, Ids
  <1>12. QED
    BY <1>2, <1>3, <1>8, <1>11 DEF LateInv

LEMMA LateInductive ==
  IInv /\ LateInv /\ [Next]_vars => LateInv'
  <1> SUFFICES ASSUME IInv, LateInv, Next PROVE LateInv'
    BY LateStutter
  <1>1. /\ Base /\ Locks /\ SegmentInHand /\ Types
        /\ UnwindWaits /\ HeadWorks /\ OneTurnAhead /\ SummariesMissOneTurn /\ AllBounded
    BY DEF IInv, LateInv, Base
  <1>2. CASE QuietStep
    BY <1>1, <1>2, QuietEnds, QuietHead, QuietAhead, QuietMisses, QuietBounded DEF LateInv
  <1>3. CASE Admit
    BY <1>1, <1>3, AdmitEnds, AdmitHead, AdmitAhead, AdmitMisses, AdmitBounded DEF LateInv
  <1>4. ASSUME NEW t \in Tasks, NEW c \in CallIds, ClaimStep(t, c) PROVE LateInv'
    BY <1>1, <1>4, OthersEnd, ClaimHead, ClaimAhead, ClaimMisses, ClaimBounded DEF LateInv
  <1>5. ASSUME NEW t \in Tasks, WorkStep(t) PROVE LateInv'
    BY <1>1, <1>5, OthersEnd, WorkHead, WorkAhead, WorkMisses, WorkBounded DEF LateInv
  <1>6. ASSUME NEW t \in Tasks, SettleStep(t) PROVE LateInv'
    BY <1>1, <1>6, OthersEnd, LeavingHead, LeavingAhead, SettleMisses, LeavingBounded DEF LateInv
  <1>7. ASSUME NEW t \in Tasks, QuitStep(t) \/ (t = "Consumer" /\ FreeStep) PROVE LateInv'
    BY <1>1, <1>7, OthersEnd, LeavingHead, LeavingAhead, QuitMisses, LeavingBounded DEF LateInv
  <1>8. CASE FreeStep
    <2>1. PICK t \in Tasks : t = "Consumer"
      BY Names
    <2>2. QED
      BY <1>7, <1>8, <2>1
  <1>9. QED
    BY <1>1, <1>2, <1>3, <1>4, <1>5, <1>6, <1>7, <1>8, StepKinds

LEMMA Misses ==
  IInv /\ LateInv => SummaryMissesOneTurnAtMost
  <1> SUFFICES ASSUME Base, SummariesMissOneTurn, NEW k \in DOMAIN insights,
                      insights[k].kind = "post_call", ~IsTracked(insights[k].state)
               PROVE  Turns(insights[k].state) - insights[k].upto <= 1
    BY DEF SummaryMissesOneTurnAtMost, Turns, IInv, LateInv
  <1>1. PICK s \in Ids, upto \in Nat :
          insights[k].state = s /\ insights[k].upto = upto /\ MissesOneTurn(s, upto)
    BY DEF SummariesMissOneTurn
  <1>2. QED
    BY <1>1 DEF MissesOneTurn, Stuck

LEMMA Counts ==
  ASSUME NEW P
  PROVE  (AtMostOne(P) => Cardinality(P) <= 1) /\ (AtMostTwo(P) => Cardinality(P) <= 2)
  <1>1. Cardinality({}) = 0
    BY FS_EmptySet
  <1>2. \A k : IsFiniteSet({k}) /\ Cardinality({k}) = 1
    BY FS_Singleton
  <1>3. ASSUME AtMostOne(P) PROVE Cardinality(P) <= 1
    <2>1. CASE P = {}
      BY <1>1, <2>1
    <2>2. CASE P # {}
      <3>1. PICK k \in P : TRUE
        BY <2>2
      <3>2. P = {k}
        BY <1>3, <3>1 DEF AtMostOne
      <3>3. Cardinality({k}) = 1
        BY <1>2
      <3>4. QED
        BY <3>2, <3>3
    <2>3. QED
      BY <2>1, <2>2
  <1>4. ASSUME AtMostTwo(P) PROVE Cardinality(P) <= 2
    <2>1. CASE P = {}
      BY <1>1, <2>1
    <2>2. CASE P # {}
      <3>1. PICK k, l \in P : P = {k, l}
        BY <1>4, <2>2 DEF AtMostTwo
      <3>2. P = {k} \cup {l}
        BY <3>1
      <3>3. Cardinality({k} \cup {l}) = IF l \in {k} THEN Cardinality({k}) ELSE Cardinality({k}) + 1
        BY <1>2, FS_AddElement
      <3>4. QED
        BY <1>2, <3>2, <3>3
    <2>3. QED
      BY <2>1, <2>2
  <1>5. QED
    BY <1>3, <1>4

LEMMA Bounds ==
  IInv /\ LateInv => LateWorkIsBounded
  <1> SUFFICES ASSUME AllBounded PROVE LateWorkIsBounded
    BY DEF LateInv
  <1>1. SecondSummaryOnlyAtCeiling
    <2> SUFFICES ASSUME NEW s \in Ids
                 PROVE  Cardinality(Posts(s)) <=
                          IF Cardinality(CallIds) > MaxTracked THEN 2 ELSE 1
      BY DEF SecondSummaryOnlyAtCeiling
    <2>1. AtMostTwo(Posts(s)) /\ (Roomy => AtMostOne(Posts(s)))
      BY DEF AllBounded, Summaries, SummariesBelowCeiling
    <2>2. Cardinality(Posts(s)) <= 2 /\ (Roomy => Cardinality(Posts(s)) <= 1)
      BY <2>1, Counts
    <2>3. Cardinality(CallIds) \in Nat /\ MaxTracked \in Nat
      BY InsightWorkerAssumption, FS_CardinalityType
    <2>4. QED
      BY <2>2, <2>3 DEF Roomy
  <1>2. OneLateLiveAtMost
    <2> SUFFICES ASSUME NEW s \in Ids \ abandoned PROVE Cardinality(LateLives(s)) <= 1
      BY DEF OneLateLiveAtMost, LateLives
    <2>1. QED
      BY Counts DEF AllBounded, LateOnce
  <1>3. QED
    BY <1>1, <1>2 DEF LateWorkIsBounded

(* consumer.py:183-187: with any calls, ceiling and topic, failures and     *)
(* signals, a summary of a call that is forgotten misses one turn at most:  *)
(* the one the consumer added while it was made.                            *)
THEOREM SummariesAreNearlyComplete ==
  Spec => []SummaryMissesOneTurnAtMost
  <1>1. Init => IInv /\ LateInv
    BY Start, LateStart
  <1>2. IInv /\ LateInv /\ [Next]_vars => IInv' /\ LateInv'
    BY Inductive, LateInductive
  <1>3. QED
    BY <1>1, <1>2, Misses, PTL DEF Spec

(* consumer.py:185-187, 252-266: `ended` is tested before the lock and not  *)
(* after it.  In every reachable state a call state has a second summary    *)
(* only if there are more calls than the ceiling, and never a third, and    *)
(* one live signal at most after its summary, unless an error cut its       *)
(* finaliser off.                                                           *)
THEOREM LateWorkStaysBounded ==
  Spec => []LateWorkIsBounded
  <1>1. Init => IInv /\ LateInv
    BY Start, LateStart
  <1>2. IInv /\ LateInv /\ [Next]_vars => IInv' /\ LateInv'
    BY Inductive, LateInductive
  <1>3. QED
    BY <1>1, <1>2, Bounds, PTL DEF Spec

-----------------------------------------------------------------------------
(* Types.                                                                   *)

TrackedUpto(c) == {d \in Tracked : calls[d] <= calls[c]}

(* Calls are tracked under different numbers, so that each comes at a place *)
(* of its own.                                                              *)
LEMMA PlacesApart ==
  ASSUME Base
  PROVE  /\ IsFiniteSet(Tracked) /\ Cardinality(Tracked) \in Nat
         /\ \A c \in Tracked : Cardinality(TrackedUpto(c)) \in 1..Cardinality(Tracked)
         /\ \A c, d \in Tracked : Cardinality(TrackedUpto(c)) = Cardinality(TrackedUpto(d)) => c = d
  <1>1. IsFiniteSet(Tracked) /\ Cardinality(Tracked) \in Nat
    <2>1. Tracked \in SUBSET CallIds
      BY DEF Tracked
    <2>2. QED
      BY <2>1, InsightWorkerAssumption, FS_Subset, FS_CardinalityType
  <1>2. \A c \in Tracked : c \in CallIds /\ calls[c] \in Nat /\ states[calls[c]].call = c
    <2>1. Len(states) \in Nat
      BY LenProperties DEF Base, Types
    <2>2. QED
      BY <2>1 DEF Base, Types, CallsMatch, Tracked
  <1>3. ASSUME NEW c \in Tracked
        PROVE  /\ TrackedUpto(c) \in SUBSET Tracked /\ IsFiniteSet(TrackedUpto(c))
               /\ Cardinality(TrackedUpto(c)) \in 1..Cardinality(Tracked)
    <2>1. TrackedUpto(c) \in SUBSET Tracked /\ c \in TrackedUpto(c)
      BY <1>2 DEF TrackedUpto
    <2>2. IsFiniteSet(TrackedUpto(c)) /\ Cardinality(TrackedUpto(c)) <= Cardinality(Tracked)
          /\ Cardinality(TrackedUpto(c)) \in Nat
      BY <1>1, <2>1, FS_Subset, FS_CardinalityType
    <2>3. Cardinality(TrackedUpto(c)) # 0
      BY <2>1, <2>2, FS_EmptySet
    <2>4. QED
      BY <1>1, <2>1, <2>2, <2>3
  <1>4. ASSUME NEW c \in Tracked, NEW d \in Tracked, calls[c] < calls[d]
        PROVE  Cardinality(TrackedUpto(c)) # Cardinality(TrackedUpto(d))
    <2>1. TrackedUpto(c) \in SUBSET TrackedUpto(d) /\ d \in TrackedUpto(d) /\ d \notin TrackedUpto(c)
      BY <1>2, <1>4 DEF TrackedUpto
    <2>2. TrackedUpto(d) # TrackedUpto(c)
      BY <2>1
    <2>3. QED
      BY <1>3, <2>1, <2>2, FS_Subset
  <1>5. ASSUME NEW c \in Tracked, NEW d \in Tracked,
               Cardinality(TrackedUpto(c)) = Cardinality(TrackedUpto(d))
        PROVE  c = d
    <2>1. ~(calls[c] < calls[d]) /\ ~(calls[d] < calls[c])
      BY <1>4, <1>5
    <2>2. calls[c] = calls[d]
      BY <1>2, <2>1
    <2>3. QED
      BY <1>2, <2>2
  <1>6. QED
    BY <1>1, <1>3, <1>5

(* list(self.calls) is a list of calls.                                     *)
LEMMA TrackedAreListed ==
  ASSUME Base
  PROVE  TrackedInOrder \in Seq(CallIds)
  <1>1. PICK n \in Nat : n = Cardinality(Tracked) /\ IsFiniteSet(Tracked)
    BY PlacesApart
  <1> DEFINE place == [c \in Tracked |-> Cardinality(TrackedUpto(c))]
  <1>2. place \in [Tracked -> 1..n]
    BY <1>1, PlacesApart
  <1>3. \A c, d \in Tracked : place[c] = place[d] => c = d
    BY PlacesApart
  <1>4. place \in Injection(Tracked, 1..n)
    <2> HIDE DEF place
    <2>1. QED
      BY <1>2, <1>3 DEF Injection, IsInjective
  <1>5. IsFiniteSet(1..n) /\ Cardinality(1..n) = n
    BY FS_Interval
  <1>6. place \in Surjection(Tracked, 1..n)
    <2> HIDE DEF place
    <2>1. QED
      BY <1>1, <1>4, <1>5, FS_Injection
  <1>7. ASSUME NEW k \in 1..n PROVE \E c \in Tracked : Cardinality(TrackedUpto(c)) = k
    <2>1. \E c \in Tracked : place[c] = k
      BY <1>6 DEF Surjection
    <2>2. QED
      BY <2>1
  <1>8. TrackedInOrder =
          [k \in 1..n |-> CHOOSE c \in Tracked : Cardinality(TrackedUpto(c)) = k]
    BY <1>1 DEF TrackedInOrder, TrackedUpto
  <1>9. \A k \in 1..n : (CHOOSE c \in Tracked : Cardinality(TrackedUpto(c)) = k) \in CallIds
    BY <1>7 DEF Tracked
  <1>10. QED
    BY <1>8, <1>9

(* What TypeOK says that the books do not need.                             *)
MoreTypes ==
  /\ topic \in Topics
  /\ rebalances \in 0..MaxRebalances
  /\ todo \in [Tasks -> Seq(CallIds)]
  /\ \A k \in DOMAIN insights : insights[k].state \in Ids
  /\ postFailed \subseteq Ids /\ abandoned \subseteq Ids

(* The lists that tasks go through, and the rebalances.                     *)
LEMMA ListsOfSteps ==
  ASSUME Next
  PROVE  /\ topic' = topic
         /\ \/ rebalances' = rebalances
            \/ rebalances < MaxRebalances /\ rebalances' = rebalances + 1
         /\ \/ todo' = todo
            \/ \E t \in Tasks : todo' = [todo EXCEPT ![t] = TrackedInOrder]
            \/ \E t \in Tasks : todo[t] # <<>> /\ todo' = [todo EXCEPT ![t] = Tail(todo[t])]
  <1>1. ASSUME NEW t \in Tasks, Step(t) PROVE UNCHANGED <<topic, rebalances, todo>>
    <2>1. CASE Acquire(t) \/ Summarise(t)
      BY <2>1 DEF Acquire, Summarise, kafkaVars
    <2>2. CASE NoSummary(t) \/ Report(t)
      BY <2>2 DEF NoSummary, Report, Forget, kafkaVars
    <2>3. CASE SummariseRaises(t) \/ ReportFails(t) \/ Cancelled(t)
      BY <2>3 DEF SummariseRaises, ReportFails, Cancelled, Unwind, kafkaVars
    <2>4. QED
      BY <1>1, <2>1, <2>2, <2>3 DEF Step, Finalise
  <1>2. ASSUME NEW t \in {"Sweeper", "Main"}, GoThrough(t)
        PROVE  /\ UNCHANGED <<topic, rebalances>> /\ t \in Tasks
               /\ todo' = todo \/ (todo[t] # <<>> /\ todo' = [todo EXCEPT ![t] = Tail(todo[t])])
    <2>1. CASE EndOfList(t)
      BY <2>1, Names DEF EndOfList, kafkaVars
    <2>2. CASE \E c \in CallIds : PassOver(t, c) \/ FinaliseNext(t, c)
      BY <2>2, Names DEF PassOver, FinaliseNext, Visiting, Visited, kafkaVars
    <2>3. QED
      BY <1>2, <2>1, <2>2 DEF GoThrough
  <1>3. CASE Consume
    <2>1. CASE SkipRecord \/ ConsumerEnds
      BY <2>1 DEF SkipRecord, ConsumerEnds, kafkaVars, taskVars
    <2>2. CASE Admit
      BY <2>2, Zenon DEF Admit, kafkaVars
    <2>3. CASE LiveAcquire \/ Analyse
      <3>1. CASE LiveAcquire
        BY <3>1 DEF LiveAcquire, kafkaVars
      <3>2. CASE Analyse
        BY <3>2, Zenon DEF Analyse, kafkaVars
      <3>3. QED
        BY <2>3, <3>1, <3>2
    <2>4. CASE \E c \in CallIds : TakeFinal(c)
      BY <2>4 DEF TakeFinal, kafkaVars
    <2>5. CASE Send \/ SendFails \/ AnalyseRaises
      BY <2>5 DEF Send, SendFails, AnalyseRaises, Unwind, kafkaVars
    <2>6. QED
      BY <1>3, <2>1, <2>2, <2>3, <2>4, <2>5 DEF Consume
  <1>4. CASE Sweep \/ Stop
    BY <1>4, Names DEF Sweep, Stop, kafkaVars
  <1>5. CASE Rebalance
    BY <1>5 DEF Rebalance, taskVars
  <1>6. QED
    BY <1>1, <1>2, <1>3, <1>4, <1>5 DEF Next

LEMMA ListsKept ==
  ASSUME Base, MoreTypes, Next
  PROVE  /\ topic' \in Topics /\ rebalances' \in 0..MaxRebalances
         /\ todo' \in [Tasks -> Seq(CallIds)]
  <1>1. topic' \in Topics /\ rebalances' \in 0..MaxRebalances
    BY ListsOfSteps, InsightWorkerAssumption DEF MoreTypes
  <1>2. todo \in [Tasks -> Seq(CallIds)]
    BY DEF MoreTypes
  <1>3. ASSUME NEW t \in Tasks, todo' = [todo EXCEPT ![t] = TrackedInOrder]
        PROVE  todo' \in [Tasks -> Seq(CallIds)]
    BY <1>2, <1>3, TrackedAreListed
  <1>4. ASSUME NEW t \in Tasks, todo[t] # <<>>, todo' = [todo EXCEPT ![t] = Tail(todo[t])]
        PROVE  todo' \in [Tasks -> Seq(CallIds)]
    <2>1. Tail(todo[t]) \in Seq(CallIds)
      BY <1>2, <1>4, HeadTailProperties
    <2>2. QED
      BY <1>2, <1>4, <2>1
  <1>5. QED
    BY <1>1, <1>2, <1>3, <1>4, ListsOfSteps

(* Insights and marks name states that exist.                               *)
LEMMA NamesKept ==
  ASSUME Types, MoreTypes, Len(states') >= Len(states), Len(states') \in Nat,
         NEW s \in Ids, NEW r \in Insights, r.state = s,
         insights' = insights \/ insights' = Append(insights, r),
         postFailed' \subseteq postFailed \cup {s}, abandoned' \subseteq abandoned \cup {s}
  PROVE  /\ \A k \in DOMAIN insights' : insights'[k].state \in Ids'
         /\ postFailed' \subseteq Ids' /\ abandoned' \subseteq Ids'
  <1>1. Ids \subseteq Ids' /\ s \in Ids'
    BY LenProperties DEF Types, Ids
  <1>2. /\ insights \in Seq(Insights) /\ Len(insights) \in Nat
        /\ \A k \in DOMAIN insights : insights[k].state \in Ids'
    BY <1>1, LenProperties DEF Types, MoreTypes
  <1>3. CASE insights' = insights
    BY <1>1, <1>2, <1>3 DEF MoreTypes
  <1>4. CASE insights' = Append(insights, r)
    <2>1. /\ Append(insights, r) \in Seq(Insights)
          /\ Len(Append(insights, r)) = Len(insights) + 1
          /\ \A k \in 1..Len(insights) : Append(insights, r)[k] = insights[k]
          /\ Append(insights, r)[Len(insights) + 1] = r
      BY <1>2, AppendProperties
    <2>2. DOMAIN insights' = 1..(Len(insights) + 1) /\ DOMAIN insights = 1..Len(insights)
      BY <1>2, <1>4, <2>1, LenProperties
    <2>3. \A k \in DOMAIN insights' : insights'[k].state \in Ids'
      BY <1>1, <1>2, <1>4, <2>1, <2>2
    <2>4. QED
      BY <1>1, <2>3 DEF MoreTypes
  <1>5. QED
    BY <1>3, <1>4

(* A step that names nothing new keeps the names there are.                 *)
LEMMA NothingNamed ==
  ASSUME Types, MoreTypes, Len(states') >= Len(states), Len(states') \in Nat,
         UNCHANGED <<insights, postFailed, abandoned>>
  PROVE  /\ \A k \in DOMAIN insights' : insights'[k].state \in Ids'
         /\ postFailed' \subseteq Ids' /\ abandoned' \subseteq Ids'
  <1>1. Ids \subseteq Ids'
    BY LenProperties DEF Types, Ids
  <1>2. QED
    BY <1>1 DEF MoreTypes

(* A task that leaves a state names that state only.                        *)
LEMMA LeavingNames ==
  ASSUME Base, MoreTypes, NEW t \in Tasks,
         SettleStep(t) \/ QuitStep(t) \/ (t = "Consumer" /\ FreeStep)
  PROVE  /\ \A k \in DOMAIN insights' : insights'[k].state \in Ids'
         /\ postFailed' \subseteq Ids' /\ abandoned' \subseteq Ids'
  <1>1. Len(states') = Len(states) /\ Len(states) \in Nat /\ Types
    <2>1. Left(t)
      BY SettleFacts, QuitFacts, FreeFacts
    <2>2. QED
      BY <2>1, LenProperties DEF Left, Base, Types
  <1>2. /\ Locking(t) \/ UNCHANGED <<insights, postFailed, abandoned>>
        /\ postFailed' \in {postFailed, postFailed \cup {on[t]}}
        /\ abandoned' \in {abandoned, abandoned \cup {on[t]}}
    <2>1. CASE SettleStep(t)
      BY <2>1, SettleFacts DEF Locking, Finishing, Finalising
    <2>2. CASE QuitStep(t)
      BY <2>2, QuitFacts DEF Locking, Finishing, Finalising
    <2>3. CASE t = "Consumer" /\ FreeStep
      BY <2>3, FreeFacts DEF Locking
    <2>4. QED
      BY <2>1, <2>2, <2>3
  <1>3. CASE UNCHANGED <<insights, postFailed, abandoned>>
    BY <1>1, <1>3, NothingNamed
  <1>4. CASE Locking(t)
    <2>1. on[t] \in Ids
      BY <1>4 DEF Base, InHands
    <2>2. \E r \in Insights :
            r.state = on[t] /\ (insights' = insights \/ insights' = Append(insights, r))
      <3>1. Summary(t) \in Insights /\ Summary(t).state = on[t]
        BY RecordsAreInsights DEF Summary
      <3>2. QED
        BY <3>1, LeavingTopic
    <2>3. PICK r \in Insights :
            r.state = on[t] /\ (insights' = insights \/ insights' = Append(insights, r))
      BY <2>2
    <2>4. /\ postFailed' \subseteq postFailed \cup {on[t]}
          /\ abandoned' \subseteq abandoned \cup {on[t]}
          /\ Len(states') >= Len(states) /\ Len(states') \in Nat
      BY <1>1, <1>2
    <2>5. QED
      BY <1>1, <2>1, <2>3, <2>4, NamesKept
  <1>5. QED
    BY <1>2, <1>3, <1>4

LEMMA MoreTypesKept ==
  ASSUME IInv, MoreTypes, Next
  PROVE  MoreTypes'
  <1>1. Base /\ Locks /\ SegmentInHand /\ Types /\ Roles /\ MainIsLast
    BY DEF IInv, Base
  <1>2. Len(states) \in Nat
    BY <1>1, LenProperties DEF Types
  <1>3. SUFFICES /\ \A k \in DOMAIN insights' : insights'[k].state \in Ids'
                 /\ postFailed' \subseteq Ids' /\ abandoned' \subseteq Ids'
    BY <1>1, ListsKept DEF MoreTypes
  <1>4. CASE QuietStep
    <2>1. UNCHANGED <<states, insights, postFailed, abandoned>>
      BY <1>1, <1>4, QuietFacts
    <2>2. QED
      BY <1>1, <1>2, <2>1, NothingNamed
  <1>5. CASE Admit
    <2>1. UNCHANGED <<insights, postFailed, abandoned>> /\ topic[segment] \in CallIds
      BY <1>1, <1>5, AdmitFrame
    <2>2. Len(states') >= Len(states) /\ Len(states') \in Nat
      <3>1. \E s \in 1..(Len(states) + 1) :
              Len(states') = IF s \in Ids THEN Len(states) ELSE Len(states) + 1
        BY <1>1, <1>5, <2>1, AdmitFacts
      <3>2. QED
        BY <1>2, <3>1
    <2>3. QED
      BY <1>1, <2>1, <2>2, NothingNamed
  <1>6. ASSUME NEW t \in Tasks, NEW c \in CallIds, ClaimStep(t, c)
        PROVE  Len(states') = Len(states) /\ UNCHANGED <<insights, postFailed, abandoned>>
    <2>1. Len(states') = Len(states)
      BY <1>1, <1>6, ClaimFacts DEF Base, ClaimStep
    <2>2. QED
      BY <1>1, <1>6, <2>1, ClaimFrame
  <1>7. ASSUME NEW t \in Tasks, WorkStep(t)
        PROVE  Len(states') = Len(states) /\ UNCHANGED <<insights, postFailed, abandoned>>
    BY <1>1, <1>7, WorkFacts
  <1>8. CASE Len(states') = Len(states) /\ UNCHANGED <<insights, postFailed, abandoned>>
    BY <1>1, <1>2, <1>8, NothingNamed
  <1>9. CASE FreeStep
    <2>1. PICK t \in Tasks : t = "Consumer"
      BY Names
    <2>2. QED
      BY <1>1, <1>9, <2>1, LeavingNames
  <1>10. ASSUME NEW t \in Tasks, SettleStep(t) \/ QuitStep(t)
         PROVE  /\ \A k \in DOMAIN insights' : insights'[k].state \in Ids'
                /\ postFailed' \subseteq Ids' /\ abandoned' \subseteq Ids'
    BY <1>1, <1>10, LeavingNames
  <1>11. QED
    BY <1>1, <1>4, <1>5, <1>6, <1>7, <1>8, <1>9, <1>10, StepKinds

LEMMA MoreTypesStutter ==
  MoreTypes /\ UNCHANGED vars => MoreTypes'
  BY DEF MoreTypes, vars, kafkaVars, taskVars, Ids

LEMMA MoreTypesStart ==
  Init => MoreTypes
  <1> SUFFICES ASSUME Init PROVE MoreTypes
    OBVIOUS
  <1>1. /\ topic \in Topics /\ rebalances = 0 /\ todo = [t \in Tasks |-> <<>>]
        /\ insights = <<>> /\ postFailed = {} /\ abandoned = {}
    BY DEF Init
  <1>2. DOMAIN insights = {}
    BY <1>1
  <1>3. <<>> \in Seq(CallIds)
    OBVIOUS
  <1>4. QED
    BY <1>1, <1>2, <1>3, InsightWorkerAssumption DEF MoreTypes

LEMMA TypesTogether ==
  ASSUME Types, MoreTypes
  PROVE  TypeOK
  <1>1. /\ insights \in Seq(Insights) /\ Len(insights) \in Nat
        /\ DOMAIN insights = 1..Len(insights)
        /\ \A k \in DOMAIN insights : insights[k] \in Insights /\ insights[k].state \in Ids
    BY LenProperties, ElementOfSeq DEF Types, MoreTypes
  <1> DEFINE Named == [kind : {"live", "post_call"}, state : Ids, from : Nat, upto : Nat]
  <1>2. \A r \in Insights : r.state \in Ids => r \in Named
    BY DEF Insights
  <1>3. insights \in Seq(Named)
    <2> HIDE DEF Named
    <2>1. \A k \in 1..Len(insights) : insights[k] \in Named
      BY <1>1, <1>2
    <2>2. insights = [k \in 1..Len(insights) |-> insights[k]]
      BY <1>1
    <2>3. QED
      BY <1>1, <2>1, <2>2
  <1>4. QED
    BY <1>3 DEF Types, MoreTypes, TypeOK, CallStates, Awaits

(* consumer.py, state.py: in every reachable state each variable has its    *)
(* type.  The lists that the sweeper and the main task go through are lists *)
(* of calls, and a record on the topic, a counted failure and an abandoned  *)
(* finaliser are about a state that was made.                               *)
THEOREM TypeCorrect ==
  Spec => []TypeOK
  <1>1. Init => IInv /\ MoreTypes
    BY Start, MoreTypesStart
  <1>2. IInv /\ MoreTypes /\ [Next]_vars => IInv' /\ MoreTypes'
    BY Inductive, MoreTypesKept, MoreTypesStutter
  <1>3. IInv /\ MoreTypes => TypeOK
    BY TypesTogether DEF IInv, Base
  <1>4. QED
    BY <1>1, <1>2, <1>3, PTL DEF Spec
=============================================================================
