# EdgeSense in TLA+

EdgeSense listens to a call, redacts it at the edge, analyses it while it runs
and after it ended, and stores and shows what it found. This directory holds
TLA+ specifications of the parts that carry its protocol, the TLC configurations
that check them on small instances, and TLAPS proofs of what holds for
instances of every size. Paths below are relative to `src/`.

    audio -> edge agent -> WebSocket -> ingest -> Kafka transcript.segments
          -> worker -> Kafka call.insights -> sink -> ClickHouse, live feed -> portal

Run a check with `tlc -config publisher.cfg MCPublisher`, a proof with
`tlapm Publisher_proofs.tla`. `PROJECT.json` lists the runs, maps every
definition to the lines it models, and lists the hazards and the theorems.

## The system

**Edge agent** (`services/edge-agent/edge_agent`, Python, two threads). State: the
segmenter's voice-activity counters, the redactor's carry of digits that may
still become a card number, the token vault, the sequence number of segments,
and the transport's bounded queue, connection and flags. The main thread turns
audio into segments and hands them to `WebSocketTransport.send`; the transport's
daemon thread connects, pumps the queue and reconnects. Hard: what a connection
that dies takes with it; an item off the queue whose send failed; closing while
the queue is full; a card number spread over several segments. Correct means: no
segment twice, none lost while connections hold and then only the last ones, order kept on each, `close()` flushes
and returns, and no digit of a number leaves before its fate is decided.

**Ingest** (`services/ingest`, Go, a goroutine per connection and a worker pool).
State: the publisher's channel and workers, the session keys and counters in
Redis, the readiness flag. Handlers validate a segment, claim its idempotency key
(`Store.SeenBefore`), call `Publisher.Publish`, touch the session and answer;
when the stream ends they end the session. Hard: a full channel, a broker that
is slow or loses acknowledgements, Redis failing between two commands, a stale
and a fresh connection of the same call, shutdown while handlers are anywhere.
Correct means: what was accepted is stored or counted as an error, what was
refused is never stored, no segment published or turned away twice without a
failed check, the counters agree, every segment is answered, a call that has
ended is not listed as active, Close drains.

**Worker** (`services/worker/worker`, Python, tasks of one event loop and the
threads they await). State: `CallState` per tracked call (turns, `analysed_upto`,
`ended`, lock, disclosures given, violations flagged, last signal of each type),
the consumer's position, the one model provider with the context it was handed
last. The consumer adds final segments and analyses windows (fast rules, then an
agent that calls tools); the sweeper finalises idle calls with a summary; the
main task cancels and finalises the rest. Hard: every await is a switch;
cancellation arrives at any of them; a call may look idle that is not; the
ceiling makes the consumer finalise as well; rebalances redeliver; two passes of
the agent share a provider; what was marked as told may not have been told.
Correct means: every call is tracked, being finalised, settled or known to be
abandoned; one summary that misses at most the turn that came while it was made;
no final segment skipped; quiet calls are finalised; no violation passes between
two windows; supervisors hear of everything flagged, once; a verdict, once
given, stands; every pass ends; an answer is about the call it is given for.

**Sink** (`services/sink/sink`, Python, a loop and up to three threads). State: a
buffer per table, the batches being written, the consumer's position and what
Kafka has committed of it. The handler turns envelopes into rows and flushes
full buffers, the ticker flushes aged ones, close flushes all. Hard: batches are
out of the buffer and outside the lock while they are written, come back when
ClickHouse refuses them, and meet newer rows and the ceiling; shutdown with
inserts under way; a crash between an insert and a commit, or after a commit.
Correct means: no row vanishes uncounted, none is in two places, closing leaves
only what ClickHouse refused, every row goes out in the end, the overview counts
each call once whatever was repeated, and figures that count rows are those of
calls when the merges are done.

**Live feed and portal** (`sink/api.py`, one event loop; `portal/src`, a browser).
State: the hub's clients and its replay buffer, the bridge from Kafka; in each
tab the socket, what it shows and whether it thinks it is connected, and the
query for the call in view. Hard: sockets that register while a message is being
broadcast, break between any two steps, reconnect and are replayed what they
have; answers that come after their question was changed. Correct means: replay
and tail meet without a gap, repeats come from replays only, an open tab has a
working feed in the end, a late answer is never shown.

**Others.** `packages/edgesense_core` holds the contracts the services share;
`eval`, `scripts` and `tools` measure and generate offline.

The services share nothing but messages: frames of a WebSocket between edge and
ingest and between hub and portal, the topics `transcript.segments` and
`call.insights` between ingest, worker, sink and hub, and the tables the sink
writes and the API reads. Within a service the components interact by calls and
by the shared state named above.

## Modules

| module | models | state and actions |
|---|---|---|
| `SegmentChannel` | the policy in the comment of `type Publisher`, `publish.go:18-35` | abstract: verdict of each job, what is pending, stored, failed; no channel, no workers. A failed job may be stored late |
| `Publisher` | `publish.go`: `Publish`, `worker`, `Close`; Kafka as `WriteMessages` shows it | `queue` is the Go channel, `holding` and `tries` a worker's current write, `late` the attempts left of a write whose ten seconds are over, `log` the topic. A call of `Publish` is `Enqueue`, `DropPartial`, `BlockFinal` (first select) and `Unblock`, `GiveUpWaiting`, `SendOnClosed` (second) |
| `Ingest` | `server.go` handlers, `session.go`, the shutdown in `cmd/ingest/main.go`, composed with `Publisher` by `INSTANCE` | `pc[c]` is where the goroutine of connection `c` is; each Redis command and each step of `Publish` is one action |
| `Detectors` | the digit stream of `normalize.py`, classification and overlap resolution of `detectors.py`, the names of `ner.py` | operators over a text: a sequence of digits, stops, names, keywords and other words |
| `Redactor` | `redactor.py`: `push`, `preview`, `flush`, the hold point, orphaned and expired fragments | `carry`, `carryAge`, `contextTail` are the fields of the same names; `Push` and `Flush` are the two operations, `Released` and `Flushed` what they return |
| `Segmenter` | `audio.py` `Segmenter` | `current` holds the counters of the open utterance; `Keep`, `Partial`, `Close` are the three decisions of `push` |
| `EdgePipeline` | `pipeline.py` `run`, composing the two | one action per way a frame can go, and the end of the audio; `sent` is what the step hands to the transport |
| `EdgeTransport` | `transport.py` `WebSocketTransport`, the use `main.py` makes of it, network and ingest as seen from there | `main` and `thread` are the two threads, `outbox` the queue, `item` what `_pump` holds, `wire` the frames in flight, `via` (history) the connection each segment was handed to |
| `InsightWorker` | `consumer.py`, the locks and lists of `state.py`, `amain` of `main.py`; Kafka as the loop sees it | a step is what runs between two awaits; `states[s].lock` is the asyncio lock with its waiters in order; `cancelled` is a pending `CancelledError` |
| `Rules` | `rules.py` | operators over turns: sentiment, escalation, compliance, disclosures, intent, resolution, promises |
| `AgentLoop` | `agent.py` `run`, `tools.py`, `policies.py` `get`, the providers `offline.py` and `azure.py` | `pass[p]` is one run of the agent by thread `p`; `Ask`, `CompleteOffline`, `CompleteAzure`, `PostFails`, `PostRefused`, `InvokeTools`, `OutOfTime` are its steps; `context` is the provider's `_ctx` |
| `LiveAnalysis` | `live.py`, `postcall.py`, the memory of `state.py`, extending `AgentLoop` | `Hear` (or `HearAnew`, when the state of the call was dropped), `TakeLock`, `FastPath`, `AskAgent`, `AgentPath`, `Sift`, `Publish` are the stations of an analysis, `Summarise` and `PublishSummary` those of a summary, which may come between any two segments |
| `SinkWriter` | `writer.py`, the loop, ticker, shutdown and crash of `sink/main.py` | `at[t]` is where each thread is, `batch[t]` the rows it took out of the buffer; taking the lock makes a step; `offset` is what the group may have committed |
| `InsightRows` | `rows.py`, the envelopes of `contracts.py` | operators: the rows of an envelope and their columns |
| `Analytics` | `schema.sql` and the queries of `api.py`, composing the two | `gone` holds the summaries a merge has replaced, `Merge` is its step; `OverviewCalls` and `OverviewTally`, `SentimentCalls`, `SevereEvents`, `IntentCalls`, `AgentCalls` and `AgentTally`, `Detail` are the queries |
| `LiveFeed` | `Hub`, `consume_kafka` and `live` of `api.py`, `useLiveFeed` of `api.ts` | `Take`, `Broadcast`, `SendTo`, `EndBroadcast` are the bridge and the hub; `group` is what the consumer group has committed, `sources` what each broadcast was made from and by which consumer; `handler[s]` where `live()` of a socket is; `tab[t]` the state of the hook |
| `CallView` | `LiveCall.tsx` and `useQuery` of `api.ts`, extending `LiveFeed` | `query` holds the dependencies, the requests on their way and the data |
| `..._proofs` | theorems about `Publisher`, `Ingest`, `EdgeTransport`, `EdgePipeline`, `InsightWorker`, `LiveAnalysis`, `Analytics` (with `SinkWriter`) and `CallView` (with `LiveFeed`) | |
| `MC...` | instances for TLC | |

The operators named as mutants in comments (`PushFront`, `CopyBatch`, ...) are
plausible mistakes in the code. Each property of a passing run is violated when
the definition the comment names is replaced by its mutant, which is how the
project knows the property says something about the code.

### What the abstractions leave out

- In `Detectors` and `Redactor` a text is a sequence of atoms and distances are counted in
  atoms: the code's windows of 70 and 240 characters and its limits of 5, 4 and 12 words are
  constants. A number word and a numeral are both digits; a keyword stands for all of its
  list that are treated alike. Left out: emails and addresses, patterns that need
  punctuation inside a value, the allow list, the vault's numbering of placeholders. Speech
  recognition returns any of the given texts, the next partial or final may contradict the last.
- In the transport, ingest and `InsightWorker` a segment is its identity and whether it is final; text, times and labels are
  left out. Whether a frame passes `Validate` is a bit of the frame.
- In `Rules` a text is what the patterns and lexicons find in it: weighted words, threats, policies
  it breaks or meets, topics, marks, promises. Scores are integers in percent. Of several prohibited phrases of one policy the first turn counts; required
  disclosures are gone through in the order of the catalogue; a summary's action items keep their
  number, eight, but not their wording.
- In `AgentLoop` an answer of the Azure model is any of `Answers`: calls of tools with evidence
  that exists or not, policies in any spelling, prose, a summary. Prompts, tokens and texts of tool
  results are left out, and so is what the model thinks.
- Time has no numbers. A timer that may fire is an action that is enabled; in
  `InsightWorker` a call that may look idle is one that has no more segments to
  come, or any call when feeds may be late (`LateFeed`), in `LiveAnalysis` any
  call at any time; days are names.
- What `LiveAnalysis` keeps of a call (transcript, marks, signals) is that of its
  present `CallState`: a segment that comes after the summary begins a new one,
  and its promises are made anew.
- Kafka and ClickHouse are what their clients promise: an attempt succeeds, or
  fails with the record stored or not. Redis commands that fail may have been
  applied. Records of one call are in one partition, and one partition is
  modelled. A merge of ClickHouse may happen at any time and within one sort key.
- What may happen to a run (signals, failures, crashes, restarts) is chosen at its start from
  `Scenarios` or `Courses`, so that not everything happens in the same behaviour.
- Expiry of Redis keys (hours) is left out. go-redis sends a command again when its reply was lost, which `SeenBefore`
  models; it does not send a transaction again once it was written, so `Touch` and `EndCall` are applied at most once.

## Runs

Passing runs:

| run | instance | what it shows |
|---|---|---|
| `publisher` | 2 handlers, 3 calls of `Publish` (2 finals, 1 partial), 2 workers, channel of 2, 2 attempts | accepted jobs are in one place until settled; a write that timed out may still be stored, of a job that was counted as failed; only what is held in the channel's order can be overtaken; Close drains, late writes included; the publisher implements `SegmentChannel` with its liveness |
| `ingest` | five scenarios over a channel of 1: two connections of one call resend a final while Redis fails, recovers and loses replies; three frames press the channel; a final that may have been shed is sent again; two finals meet a shutdown at any time; a frame of another call is refused while Redis fails | a segment is claimed by one of its copies: not published twice unless a check failed open, not turned away unless a copy took its key or its own lost reply did; what the session store says of a call is true; every segment is answered |
| `edge_pipeline` | 13 texts around a card number read in groups of four or eight (with a keyword, a name, a stop, further words, a stray digit, nothing), hold of at most 3 texts, utterances of at most 5 frames | of a run of nine digits or more, spoken in one text or several, not one leaves in the clear, in finals or in partials; every atom goes out or stays held, in order and once |
| `edge_transport` | 5 segments, 3 connections of which 2 may break at any point of their frames, queue of 2, timeouts | all the harm a connection does it does by breaking: a segment is sent at most once, is overtaken only by one of a later connection, and is lost only with the tail of a connection that died, wire and hand together; close returns |
| `worker` | topics of segments `k1 k2 k1` and `k1 k1 -`, 2 calls, every failure, 1 rebalance, a signal | the books balance: every call and every final the worker took is accounted for; what a summary may miss |
| `worker_ceiling` | topics `k1 k1 k2 k1` and `k1 k2 k3 k1`, ceiling of 1, no failures, fair | at most two summaries of one state and one late live signal; every tracked call is finalised |
| `analysis` | a call of six turns or two of up to four over a catalogue with a policy of each kind, windows of 4, stride 2; the offline provider with and without the agent, or a model that answers rightly, with evidence that does not exist, in another spelling or with prose, and may be refused or time out; a call is summed up at any time, segments of it arrive during the summary and after it | no violation passes between two windows; what is marked as flagged is reported; what is reported is news; a disclosure the fast path calls missing was never given; the summary names what supervisors had been told when it was published; every pass ends |
| `sink` | 3 tables, 5 envelopes, ceiling 2, batch 2, 2 attempts; in turn failing inserts with a signal, three rows above the ceiling, a lost answer, a crash with or without a commit | rows are conserved and in one place; close leaves only what failed for good; the overview counts each call once whatever was repeated or is being merged, the other figures are those of calls once the merges are done, unless a call was summarised under another key, and nothing counts twice as long as nothing is inserted twice; a merge takes nothing from the page of a call; until a signal every row goes out |
| `portal` | 3 tabs, 4 events in 3 messages, a replay buffer of 2, a view of 2; in turn breaking sockets, a failing broker, a restart, a tab that leaves | replay and tail meet; a broken socket is swept; what one consumer has read is shown again only by a replay, and the consumer after a failure or a restart may read older messages again; no late answer; an open tab catches up |

Runs that show where the code does not do what a text of the repository says:

| run | the text | what happens |
|---|---|---|
| `worker_misanswer` | `consumer.py:242` and `postcall.py:9-10`, a failure is recorded, nothing published | `_build` raises a plain `ValueError`, `summarise` catches `ValidationError` only, the sweeper ends and no quiet call is finalised again |
| `edge_held_digits` | `redactor.py:380-381`, a hold "must not become a leak", and 313-316 | a name that is held back after the digits counts as a claim to all of the carry, and the digits go out in the clear |
| `analysis_shared` | `offline.py:67-68`, "the only state a stateless provider has"; `consumer.py:88`, "different calls proceed in parallel" | the one provider keeps the context of whoever asked last: a summary is made of another call's transcript when the live thread asks between its steps |

Four more statements are refuted by the models. They are defined beside the properties and belong to no run; TLC gives
the trace when one takes the place of the properties in the cfg named.

| statement | the text | what happens |
|---|---|---|
| `Ingest!DuplicateHasACopy` (`ingest.cfg`) | `session.go:66-69`, "Fails open"; `DESIGN.md:250`, "segments accepted, possibly duplicated" | the reply of a claim is lost, go-redis sends the command again, the second `SETNX` finds the first one's key: the only copy of a segment is a duplicate |
| `Ingest!DuplicateWasAccepted` (`ingest.cfg`) | `session.go:64`, "whether this idempotency key has already been accepted" | also without Redis failing: the key is set before `Publish` and stays when the final is shed: sent again it is turned away as a duplicate (`server.go:265`) |
| `Analytics!ReplacingKeepsOne` (`sink.cfg`) | `schema.sql:100-103`, "Replacing keeps the newest by version instead of accumulating contradictory rows that would double every aggregate" | the intent and the day of the summary are in the sort key: a call summarised again under another one keeps two rows when all merges are done, and what counts rows counts it twice |
| `SinkWriter!ShedsTheOldest` (`sink.cfg`) | `writer.py:12-13`, "the oldest rows are dropped and counted" | ticker and handler have taken a batch each and both fail; the later batch comes back in front of the earlier one and is shed first |

Further disagreements are visible in the code that the models translate. They
are bounded by the properties that hold, or concern what a model leaves out, and
have no run of their own.

- Ingest: `http.Server.Shutdown` does not
  wait for hijacked connections, so what `main.go:144-148` says "are still written" may meet a closed
  channel; a write that fails after `Publish` returned is not told to the edge (`DESIGN.md:252`), and one that timed out
  is counted as an error although it may be stored later; with more than
  one worker the segments of one call can be stored in another order than they
  were published (`publish.go:93-95`, bounded by `OvertakesOnlyHeld`).
- Edge: the item is off the queue when `ws.send` raises and nobody puts it back
  (`transport.py:91` and 144), and what was on the wire of a connection that died is never sent again, although
  `_sent` counts it (both bounded by `OnlyBreaksHarm`); a throttle message of ingest is never read.
- Worker: a signal that arrives while the sweeper finalises a call loses that summary
  (`consumer.py:122`); while the oldest call is being finalised the ceiling on
  tracked calls is not enforced (`consumer.py:55-56`); redelivered segments become
  turns again and are analysed again (`state.py:48`).
- Analysis: the agent calls a disclosure missing although the window for it is still open,
  which the fast path waits for (`offline.py:157` against `live.py:194`); signals of the fast path wait for the
  agent, "not after a model round-trip" (`live.py:6-10`); nothing requires `lookup_policy` before `flag_risk`
  (`agent.py:11`); `flag_risk` keeps the spelling of a policy id, so that two spellings are told twice
  (`tools.py:252`); an escalation that leaves the window is news again; obligations of the whole call are
  never judged, the summary hands the disclosures given as those required (`postcall.py:97`).
- Sink: after a signal the ticker ends while the loop waits for one more message, and a
  row can stay in the buffer meanwhile (`writer.py:7-9`; `RowsGoOut` makes the exception);
  that message is dropped, and its offset is committed with the others (`main.py:118-119`
  and 139; its rows are in `lost`); a requeued batch exceeds the buffer's ceiling.
- Store: `schema.sql:81-83` leaves duplicates of signals to Redis, which does not see what the sink replays after
  a crash: severe events and latencies count twice for good. No query asks for `FINAL`: until two rows of a call
  are merged, escalations, violations, resolved calls, sentiment and intents count both (`api.py:247-252`, 268
  and 322). The rollup of the agents adds up every insert and is never merged. `DashboardCountsCalls` says
  when each figure is that of calls.
- Hub and portal: "a fresh group per process" (`api.py:150-153`) is named by the process number, which is the same for
  the first process of every container (`docker-compose.yml:216`), so an API that restarts goes on where the last one
  had committed, and its tabs see messages again (`Restart`); the degraded state of `api.py:10-14` is told to a socket in its hello only; while the page of
  another call loads, the signals of the one before are shown (`LiveCall.tsx:74-80`).

### Bounds, and why they are enough

- Publisher: three jobs fill a channel of two and leave one to wait or be
  dropped; two workers are what overtaking takes; two attempts give a lost
  acknowledgement and a failure in one job. The proofs do not depend on them.
- Ingest: double publication, stale endings and resent segments are about pairs
  of connections; a channel of one is full after one segment. The publisher's own hazards have their own run, so one
  worker and one attempt (which may still be made late) are enough here.
- Edge pipeline: groups of four give numbers of 4, 8, 12, 16 and, with the stray digit,
  odd lengths, so each length rule, the checksum and the absorbing of leftovers are met;
  a hold of 3 lets a fragment grow twice and expire. Four texts in a row are a card.
- Edge transport: two breaks let a loss, a reconnect and a second loss meet one queue; the
  last connection does not break so that liveness can be asked for.
- Worker: two turns of one call around a segment of another are the shortest
  topic in which the consumer, the sweeper and the main task can each be at work on
  a state that the others know; the third record of the other topic is skipped. `MaxRebalances`
  bounds redelivery. Three calls over a ceiling of one exercise the ceiling both
  while the oldest is free and while it is ending.
- Analysis: six turns with a stride of two and a window of four are three analyses whose windows
  overlap, and the first turn leaves the last window. The three offline topics contain each kind of
  finding in an order that makes it news, makes it old, and takes it back. Two calls are what it
  takes to confuse contexts. A retry, a repair and three steps let each bound of a pass be met.
- Sink: three summaries exceed a ceiling of two when the first batch comes back; two attempts distinguish
  a retry from the last one; two tables let a flush be between tables; the same summary twice and once
  more with another intent are what can and cannot be merged. `MinCalls` is 1 so that one agent is listed.
- Portal: a replay buffer and a view of two are both overrun by four events; a message of two events makes a
  broadcast that is interrupted half way; three sockets are two reconnects of a tab; calls A and C
  are in the store, A and B stream.

Deadlock is not checked: all the systems may stop, when nothing is sent and
nothing is signalled.

### Fairness

- Goroutines, threads and tasks that can run do run (weak fairness per actor).
- The select in which a final waits has a timer, so `GiveUpWaiting` (or the panic
  on a closed channel) is weakly fair; the attempts of `WriteMessages` are bounded
  by its context, those it goes on with by their number, and they are made.
- `EdgeTransport`: `Connect` is strongly fair: a server that keeps coming back lets
  some attempt succeed. Without that `close()` may wait for ever in its `put`.
- `InsightWorker`: a sweep looks at each call again and again, and a call that stays
  quiet is found idle some time (strong fairness of `FinaliseNext` for the sweeper).
- `LiveAnalysis`: a thread that is in a pass goes on, and a request to the model is answered, fails or times out
  (weak fairness of the steps of each thread, written with the state predicate that enables them); quiet
  calls are swept.
- `SinkWriter`: the ticker's second passes; a row grows old enough (strong fairness of
  the ticker's `ShouldFlush`), and of the ticker's inserts ClickHouse accepts some.
- `LiveFeed`: the event loop runs the bridge and every handler, the browser runs its hooks and its timer. Two things are
  assumed that the code does not see to. Both ends notice in the end that a socket is broken: TCP and the ping of
  uvicorn's server see to it on the side of the API, but `api.ts:60-62` has no heartbeat, so a tab whose peer vanished
  without a word may go on waiting for ever. And a send of the hub returns or raises: a client that stops reading
  without closing may hold up `broadcast`, which awaits its clients one after the other (`api.py:74-79`).
  `OpenTabCatchesUp` is promised under both assumptions only.
- Clients, signals, Redis, new messages, breaks and failures are never obliged to happen; that they come to an end is a bound
  of the instance (`Courses`), without which no tab need ever have a working feed.

## Proofs

| module | theorems | states |
|---|---|---|
| `Publisher_proofs` | `TypeCorrect`, `Inductive`, `Accounting`, `SingleWriter`, `NothingElseStored`, `BoundedReordering`, `Draining`, `Refinement` | `Spec => []P` for `TypeOK` (with the capacity of the channel), `IInv`, `AcceptedIsAccountedFor`, `WrittenByOne`, `OnlyAcceptedIsStored`, `OvertakesOnlyHeld`, `CloseDrains`; `Spec => Channel!Spec` |
| `Ingest_proofs` | `HandlersServe`, `AcceptedInTheService`, `OneCopyIsClaimed`, `TypesHold`, `TypeCorrect`, `SessionsAgree` | `Spec => []P` for `Handlers`, `ClaimedOnce`, `TypeOK`, `SessionAgrees`; `Spec => []Pub!AcceptedIsAccountedFor` |
| `EdgePipeline_proofs` | `TypeCorrect`, `Inductive`, `NumbersAreHidden`, `PreviewsShowNoMore`, `TextGoesOutOnce` | `Spec => []P` for `TypeOK`, `Inv`, `NumbersLeaveHidden`, `PartialShowsNoMore`; `Spec => NothingIsLostOrRepeated` |
| `EdgeTransport_proofs` | `TypeCorrect`, `BreaksAreTheOnlyHarm` | `Spec => []P` for `TypeOK`, `OnlyBreaksHarm` |
| `InsightWorker_proofs` | `TypeCorrect`, `BooksAreKept`, `SummariesAreNearlyComplete`, `LateWorkStaysBounded` | `Spec => []P` for `TypeOK`, `BooksBalance`, `SummaryMissesOneTurnAtMost`, `LateWorkIsBounded` |
| `LiveAnalysis_proofs` | `TypeCorrect`, `EveryViolationIsReported`, `WhatIsFlaggedIsReported`, `WhatIsReportedIsNews`, `ClosedVerdictsStand`, `SummaryNamesWhatWasReported` | `Spec => []P` for `TypeOK`, `NoViolationMissed` (if `Stride <= WindowSize` and `MinConfidence <= 65`), `FlaggedIsReported`, `SignalsAreNews`, `FastVerdictStands`, `SummaryCoversLive` |
| `Analytics_proofs` | `TypeCorrect`, `Inductive`, `NothingIsLost`, `EveryRowIsAccountedFor`, `ClosingFlushes`, `FiguresAreCalls`, `PagesOutliveMerges` | of the sink: `Spec => []P` for `TypeOK`, `IInv`, `NoRowIsLost`, `RowsAreAccountedFor`, `CloseFlushes`; `AnalyticsSpec => []DashboardCountsCalls`, `AnalyticsSpec => DetailSurvivesMerges`. Merges leave the sink's variables alone (`SinkUnderneath`), so the theorems about the sink hold under `AnalyticsSpec` |
| `CallView_proofs` | `TypeCorrect`, `LatestAnswerOnly`, `HubServes`, `RepeatsAreExplained` | `Spec => []P` for `TypeOK`, `NoLateAnswer`, `HubServesClients`, `RepeatsHaveACause` |

Each holds for every value of the constants that the named assumptions of its module allow, and
from those assumptions alone; `EveryViolationIsReported` names two more. The code does not validate them:
its defaults are a stride of 2, a window of 6 and a threshold of 0.35 (`live.py:66-81`), a prohibited
phrase is found with a confidence of 0.65 or more. `InsightWorkerAssumption` takes `CallIds` to be finite (the
ceiling is compared with their number), `RulesAssumption` that the ids of the catalogue are unique,
`AgentAssumption` that an answer is a list of calls, that a flag has the fields of the tool's schema and that its
evidence is a list (`flag_risk` refuses any other), `LiveAssumption` that the threats heard in a text are a list.
None of the properties is inductive as it stands.

*Publisher.* That an accepted job is somewhere does not
say where it can be next. The inductive invariant `IInv` ties the state to the
history `entered` of jobs in the order they entered the channel: each job entered
once and exactly the accepted ones did; the channel is a suffix of the history; what
workers hold, the topic contains or the error counter counts is in the prefix taken
from it; no two workers hold one job; each job taken is held, stored or counted; workers that left their loop left an empty, closed channel; and a job that is counted as failed is in nobody's hand
(`FailedAreReleased`), so that a write that goes on after its time is of a job settled before. The proof has one step per action; lemmas
describe what appending to the history and taking the head of the channel do to the taken prefix. Refinement
follows because under `IInv` a stored copy of an unsettled job is one that a worker
still holds, and every other copy one of a job that has failed (`StoreLate`).

*Ingest.* `Handlers` says that a handler serves a frame of its own connection that has no verdict
yet, and that a frame which the publisher has seen and nobody has answered is the one in hand.
With it each `PublishStep` is a step of `Publisher`, whose module takes any set of callers and jobs: the proofs
of `Publisher_proofs` are cited through an `INSTANCE` of it (the lemma `PublisherIsUsed`), and what they show holds of the
service. `Claims` is the invariant behind `ClaimedOnce`: who claimed a segment (was let through, or lost the reply to its claim) is in Redis or was not checked; of two
copies that claimed one was not checked; a key in Redis belongs to a copy that claimed; a handler on its
way to answer "duplicate" has such a copy elsewhere or is the one whose reply was lost. All steps but the check leave it alone
(`NoCheck`). The counters follow from a lemma about the cardinality of the answered frames; that a quiet
call is ended needs `EndsAreMarked`: a call listed as active has a connection that is neither unopened nor gone.

*Edge pipeline.* `HeldIsFragment` is what hiding numbers rests on: what the redactor holds back is one run of
digits and separators that begins with a digit and has at least three. A cut of the segmenter or of the redactor then never
leaves a part of a number on both sides (what was split is put together again before it is looked at), so it
is enough to look at one text: a run of nine digits is found by the scan, what is found is claimed by one of the
spans that `Resolve` keeps, and each claimed atom is hidden (`PassSafe` for a closing utterance, `ReleasedSafe` for a fragment
given up, `FlushSafe` for the end of the stream). `Scan` and `Resolve` are recursive functions whose existence and
values are derived by well-founded induction over the positions of a text (`LeastOf`, `Induction`, `ScanFacts`). For
`PreviewsShowNoMore` a preview is the redaction of the text its final would have, without the part that would be held. The type
invariant needs that a new fragment starts with age 0 and an old one is given up at the age `carryAge`.

*Edge transport.* `via` is the connection each segment was handed to. `Order` says that everything moves from the queue
over the pump's hand to a wire and on to ingest in the order of its number: the queue and each wire are in order; what is
in the queue is ahead of the item in hand, and that of everything handed over (`HandedAreBehind`); later segments
went over later connections (`LaterGoLater`); only the newest connection can be alive. `AliveLosesNothing`,
`Tails` (what is in flight of a connection comes before what is not) and `RaisedIsLast` speak of each connection for
itself. `HandOver` is the one kind of step that gives a segment a connection; a break cuts a tail off a wire, which keeps `Tails`
because what ingest has read of that connection is behind what it has not read (`ReadInOrder`).

*Worker.* `ended` is tested before the lock and not after it, so that a call is forgotten only by a task that
settled this very state has to follow from who can wait behind whom. `InHands` ties a task at a lock to the state it works
on; `LockHolds` says that until the main task begins the lock is exactly that of the sweeper and the consumer;
`SweeperFirst` that a consumer which finalises waits behind a sweeper that still waits itself, so that the consumer
never forgets a call the sweeper is at work on; `NobodyElses` that what a finaliser forgets is its own state or
none; `MainIsLast` that the main task meets a consumer that is over or will be at its next turn. The turns
need `SegmentInHand`: a consumer that is analysing, or free again, has put its segment into a state. Steps are
treated by kind (a claim, going on, settling, quitting, and so on), each with lemmas on what it does to states and locks. `TypeCorrect`
needs `MoreTypes` besides: each mark a task carries names a state that exists, and the list a sweep works through, which the
code takes from the dictionary in the order of insertion, gives each tracked call a place of its own.

*Worker, late work.* `LateInv` adds to that invariant: a consumer that unwinds waits for the sweeper
(`UnwindWaits`); who works on a state heads the queue of its lock (`HeadWorks`), so that of two who analyse or finalise one state
the other waits; a summary being sent is at most one turn behind, and if it is behind the consumer is over or
waits for this very lock (`OneTurnAhead`); a state whose summary is in the topic gets no more turns, or keeps
being tracked because its finaliser was cut off (`SummariesMissOneTurn`). How often a state was
summarised is counted against who has still claimed it: nobody before `ended` is set, at most one summary while a claim is left, at
most two altogether, and two only when the consumer claimed a state at the ceiling, which takes more calls
than the ceiling. A late live signal is that of the one analysis which was waiting when `ended` was set.

*Live analysis.* The signals of a call are those published and, while it is being analysed, those of the batch.
`SignalsInv` says that they agree with what the call state remembers: a violation occurs once, each marked policy
has its signal, signals that follow each other differ, and the last signal of each type is the one remembered. `_accept` is the only step that
touches both sides. `WindowSettled` is behind `NoViolationMissed`: once the fast path has run, each prohibited phrase of the window
is marked or still to be sifted with a confidence above the threshold; `KeepsUp` that a call never has more unanalysed
turns than the stride, so that the window holds them all. For `FastVerdictStands` what the fast path calls missing
was looked for in a window of the agent's first turns that was full, and later turns only lengthen the list
they are the first of (`Pick` grows at its end); `FrankInv` says that no finding of the agent passes for one of the fast path. For
`SummaryCoversLive` a call is not analysed while it is summarised, because the lock is held (`LockInv`; a segment that arrives
waits for it), so its marks stay as the summary found them; afterwards it may be analysed again. `CitedInv` is behind `TypeOK`: what is signalled, flagged or waiting to be sifted cites at least one turn,
and only turns that its call has. A finding of the rules cites the first turn of those it was found in, an
escalation up to three of the list that `FlattenSeq` puts together turn by turn (`FlattenFacts`, an induction over the
number of turns carried out as a well-founded one), and a flag of the model the turns that `flag_risk` has looked up;
a transcript only grows, so what exists goes on existing. The bounds of a pass hold because a repair, the one
thing that allows a further step, is itself counted (`PassTyped`). `Chosen` selects the elements of a sequence by rank, not by recursion, so that these
proofs can look inside the rules.

*Sink.* `Stages` restricts where the three threads are together; `RowsOfOneTable` that a batch is of the
table its thread works on; `FreeMeansDealtWith` that the handler has dealt with whole envelopes when it is
free, which is what a commit relies on; `ClosingEmpties` that a table the closer has passed is
empty or its flush has failed. `RowsAreAccountedFor` is proved by counting: `PlacesIn` is the set of positions
of a row in a sequence of sequences, and each move (add, take a batch, insert, requeue, shed) has a lemma on what it does to the
number of copies. `OnceInMemory` says that an added row is at most once in buffers and batches and a row not yet
added nowhere; `OnceAltogether` that memory, tables and what was shed hold at most one copy for each time the process
was started, unless an answer of ClickHouse was lost.

*Analytics.* A summary that a merge has replaced has an heir with the same sort key (`GoneHasHeir`), through any chain
of merges, so no call leaves the overview. Under `AtMostOnce` (no crash, no lost answer, no summary written again)
the count of copies that the proofs of the sink keep allows each row one place, so two summaries are never of one call,
no merge finds a pair (`NothingReplaced`), and the calls of an agent are as many as the rows; without the last
condition a signal still has one row (`OnePlaceEach`). When the merges are done two rows of a call have different
sort keys, because of two places one is the older (`OneIsOlder`). The page of a call shows
what its newest batch holds: the heir of a row that goes is no older.

*Hub and portal.* `FeedInv` says that the replay buffer is the latest run of the events; that nothing is due between two
broadcasts; that a socket belongs to one tab; and that one `live()` has not accepted is unknown to the hub. With it
a registration, which happens between two steps of a broadcast, starts where the buffer ends, and each later
event reaches a client before the next is taken. `CallView` extends `LiveFeed` by steps that leave the hub alone. `Asking` ties a request
that is on its way and not cancelled to the question that is asked now. `ShownInv` is behind `RepeatsHaveACause`: a tab
shows each broadcast at most once for each hello it has had, and strictly less often one that its socket still has
for it, or that comes after all it has sent (`OncePerHello`, `StillToCome`); so the message that comes next may
show one more. It needs that a working socket is served (`WorkingIsServed`) and, from `FeedInv`, that what a socket
carries has no repeats. `SourceInv` adds that one consumer broadcasts no event twice: what it has broadcast lies before
its position and the rest of its message. That a replay shows each of its events once more at most is an induction over its length
(`ReplayGains`), carried out as a well-founded one on the set of lengths that fail (`LeastOf`, `Induction`).
`TypeCorrect` follows calls from the feed through the broadcasts and the choice into the paths that are asked for.

Only model-checked: liveness and everything that needs fairness, which are beyond the reach of this prover.

## Plan

All the modules that were planned are written. What could come next, in this order:

1. A proof that an analysis of `LiveAnalysis` implements the one step it is in `InsightWorker`.
2. The rest of the edge: the vault's numbering of placeholders, sequence numbers and speakers of segments,
   incomplete emails; `LuhnValid` and `Resolve` of `Detectors` against reference definitions.
3. One model from the socket to the table with crashes of every process, over abstract specifications of
   the parts (`SegmentChannel` is the first of them).

Order of composition: `Publisher` inside `Ingest`; `Segmenter` and `Redactor`
inside `EdgePipeline`; `Rules`, `AgentLoop` and `LiveAnalysis`, which refine what `InsightWorker` takes
as one step of analysis; `SinkWriter` and `InsightRows` inside `Analytics`; `LiveFeed` inside `CallView`.

## Not modelled, and why

- Speech recognition (`asr.py`), the machine-learned recognisers of names, prompts: no protocol state.
- The patterns and lexicons of `rules.py` and `detectors.py`: what a text contains is an input of the models.
- Contracts' field checks, counters, logging, tracing: pure conversions or output.
- SQL of the query API other than the six queries of `Analytics`, hourly rollups, TTLs, dashboards, deployment:
  executed by other systems, or the same tables read in the same way.
- `eval`, `tools`, `scripts`: offline.
- `JSONLTransport`: a file.
