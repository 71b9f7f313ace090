# Verification of the AI support agent

TLA+ models of the repository's API requests, workers and consumers, checked with TLC and,
for every component module, proved with TLAPS. Paths below are relative to `src/`.

## The system

| Component | State it keeps | Operations | Talks to |
| --- | --- | --- | --- |
| Document upload (`services/document_service.py`, `storage/local.py`) | the file, the `documents` row | upload, read status | PostgreSQL, RabbitMQ |
| Ingestion worker (`worker.py`, `messaging/rabbitmq.py`, `jobs/document_ingestion_handler.py`) | `documents.status`, `failure_reason`, `document_chunks` | process_message, handle, mark_failed | RabbitMQ, PostgreSQL, file storage |
| Users and tickets (`services/user_service.py`, `ticket_service.py`) | `users`, `tickets`, the connection pool | create, read, list, update, delete | PostgreSQL, Kafka, RabbitMQ |
| Ticket worker (`ticket_worker.py`, `jobs/ticket_analysis_handler.py`) | `ticket_ai_analysis` | process_message, handle, publish | RabbitMQ, LLM, PostgreSQL, Kafka |
| Suggested answers (`services/suggested_answer_service.py`, `suggested_answer_delivery_service.py`) | `ticket_suggested_answers` | generate, edit, approve, reject, send | RAG, PostgreSQL, SMTP |
| Event consumers (`kafka_worker.py`) | Kafka offsets per group | consume, commit | Kafka, Redis |
| Live notifications (`api/notifications.py`) | sockets per ticket, Redis subscription | listen, broadcast, connect, disconnect | Redis, browsers |
| Staff agent (`services/agent_service.py`, `tools/order_payments.py`, `api/demo_staff.py`) | the ticket it was asked about, two model turns | ask | PostgreSQL, Gemini, order payments |
| RAG, chunking, embedding | none, or immutable data | pure or request-scoped | LLM, PostgreSQL |

Behaviours that are hard here: two deliveries of one job at once after a lost
channel; sessions that write rows they read before somebody else's commit; commits,
publishes and mails whose reply is lost; crashes between a side effect and its
record; retries of what was already done; API requests racing for one draft; a
ticket or customer deleted under a running job, request or question; requests that wait for
each other's rows and e-mail addresses, or for a connection. `PROJECT.json` lists each at its
line under "hazards".

What makes each component correct:

- ingestion: acknowledged or completed implies the chunks are stored, once; every job
  settles; the status row tells the truth when deliveries do not overlap;
- analysis: a job is acknowledged only after its event is in Kafka; events name
  committed analyses, keep one identity and follow `ticket.created`;
- answers: one mail per draft at most, in the approved wording, and `sent` means sent;
- consumers: no event is skipped, a partition is handled in order, offsets only advance;
- notifications: a client that reads the analysis once connected ends up with it;
- worker shutdown: no callback outlives its connection, a stop never makes two callbacks
  work on one job, and it ends;
- users and tickets: e-mails are unique, tickets name customers who exist, a committed PATCH
  is not lost, a refusal is true, every request is answered;
- staff agent: nothing is read before the gates, the model hears of one customer only, the
  exchange ends after one tool call and two turns;
- chunking: the size limit holds, no text is lost, repeated or reordered, only words over
  the limit are cut, and it ends.

## Modules

| Module | Models |
| --- | --- |
| `AtLeastOnceJob` | abstract: what a broker-driven job promises |
| `DocumentIngestion` | upload, queue, consumer, handler, status row, chunks |
| `DocumentIngestionProofs` | its theorems |
| `TicketAnalysis` | ticket creation, queue, consumer, handler, Kafka topics |
| `TicketAnalysisProofs` | its theorems |
| `AnswerLifecycle` | abstract: the life of a suggested answer and its mail |
| `SuggestedAnswer` | review and delivery requests, row locks, SMTP |
| `SuggestedAnswerProofs` | its theorems |
| `EventConsumer` | the Kafka consumer groups: offsets, failures, restarts, rejoins |
| `EventConsumerProofs` | its theorems |
| `LiveNotifications` | `EventConsumer` composed with Redis, the API's listener and browsers |
| `LiveNotificationsProofs` | its theorems |
| `WorkerShutdown` | the life of a RabbitMQ worker from consume to exit |
| `WorkerShutdownProofs` | its theorems |
| `Chunking` | `ChunkingService.chunk` as a state machine over positions of a text |
| `ChunkingProofs` | its theorems |
| `Customers` | users and tickets: requests, row locks, unique index, foreign key, pool |
| `StaffAgent` | `Customers` composed with the staff gate, the agent and its payment lookup |
| `StaffAgentProofs` | theorems of both |
| `MC*` | instances for TLC |

### DocumentIngestion

`upload[d]` is the progress of the request that uploads `d`; `status`, `reason` and
`copies` are the row and the number of committed bulk inserts of its chunks;
`message[j]` is where the broker keeps the job. `pc`, `job`, `attempt`, `loaded`,
`error` are the local state of one execution of `process_message`, and `live[t]` says
whether its delivery can still be settled. Each awaited statement or commit is an
action, so tasks interleave exactly where the event loop or a second worker lets them.

- A commit is applied, refused, or applied with its reply lost (`HandlerCommits`,
  `StoreChunks`, `MarkFailedCommits`); the last two look alike to the code.
- `Update` is the unit of work of SQLAlchemy: only columns whose value differs from the
  one loaded are written. `expire_on_commit=False` (`db/session.py`) makes `loaded`
  the values the session wrote itself. This is what lets two overlapping tasks mix
  their writes.
- `ExtractChunks` stands for opening, parsing, chunking and embedding: they share no
  state with anyone, and each may fail permanently or transiently.
- `Disconnect` is a lost channel: the broker requeues, the task runs on, and its
  settlement raises (`Settled`). `Crash` kills the task. `Replay` is an operator.

Abstracted: file contents, chunk texts and vectors (a bulk insert is one unit, since it
is one statement and one commit), prefetch (the number of tasks is a constant),
the order of the queue, logging. A commit whose reply was lost is taken to have been
applied before the session sees the error, not later. The API has no operation that
deletes a document. The dead-letter policy of `setup_topology.py` is assumed.

### TicketAnalysis

The same shape. `analyses[k]` holds committed analyses numbered in the order of
insertion (the handler picks the latest by `created_at`; one clock is assumed);
`drawn[k]` counts insertions; `events[k]` and `created` are what the topics hold.
`InsertAnalysis` is the LLM call, which touches nothing shared, and the insert, which
the foreign key refuses for a deleted ticket; an inserted, uncommitted analysis keeps
the ticket's row locked (`DeleteTicket`). The publish loop has its own attempts and
ends in an acknowledgement or a requeue.

### SuggestedAnswer

A request opens a draft with `SELECT ... FOR UPDATE` (`Open`), so `lock[d]` is held
until its `Commit`. A send then hands the mail to SMTP (`Deliver`) without a lock and
records the outcome (`Record`) in a second transaction. `inbox` counts what the SMTP
server took. `_record_outcome` compares the status its own session committed, so only a
row deleted with its ticket stops it. `Refuse` stands for the 404, 409 and 422 answers.

### EventConsumer

`log[p]` is a partition; for each group, `position` is how far its client has read,
`committed` the offset in Kafka, `pc`, `at` and `offset` the record in hand, `handled`
(read by properties only) what it ever logged or published. A ticket stands for the
event about it, `Malformed` for a record decoding refuses. Every exception ends the
process (`Abandon`), Compose restarts it at the committed offsets. `Rebalance` is a
rejoin of the client in the middle of a record; `PublishUnconfirmed` and `CommitFails`
cover calls that took effect although they raised. Each group has one process, as in
`docker-compose.yml`, so partitions never move between members.

### LiveNotifications

EXTENDS `EventConsumer`: `Notify` is its `Handle` together with the Redis publish.
`listening` says whether Redis has the listener's subscription, `buffer` what it has not
read, `targets` the rest of the snapshot `broadcast` iterates over, `registered` is
`_connections`. Every send is awaited, so sockets connect and disconnect between sends.
`SendFails` is an error or the two-second timeout: the socket leaves the manager and
stays open. `SendRaises` is any other exception, which ends the subscription, as
`LoseSubscription` and `NoticeLoss` do. `informed`, `covered` and `dropped` are read by
properties only; `used` keeps sockets from being connected twice.

Assumed: a socket is registered before its browser sees the accepted connection (there
is no await between the two in `connect`); one analysis per ticket (`TicketAnalysis`
says when that holds); a foreign message leaves room in the bounded buffer. The gate of
the endpoint is left out.

### WorkerShutdown

Both `run_worker` functions, which are alike. `phase` follows the nested `try` blocks,
`stopping` and `inFlight` are the closure's variables, a task is the callback of one
delivery: created by the client, then started (`Begin`) or deferred (`Defer`) in one step,
as there is no await between the check and the registration. `consuming` is the broker's
consumer, which cancel-ok removes; if `queue.cancel` raises, a reconnect may have
restored it. `lost` records the jobs that were unacknowledged when a connection was lost.
A worker is started once; a restarted process is another worker.

### Chunking

Each turn of a loop of `ChunkingService` is an action: `Sentence`, `LastSentence`,
`EndOfText` of `_units`; `SplitAtSpace`, `SplitWord`, `LastPart` of `_split_oversized`;
`FirstUnit`, `Join`, `LastChunk` of `chunk`. A piece of text is an interval of positions,
and a separator is its length, so "nothing is lost or reordered" is a statement about
intervals. Characters are the five classes the code tells apart: space, newline, word,
sentence stop, closing quote. `Match` says what the regular expression matches: its
alternatives in their order, each up to the end of its run. `Init` takes
the texts that can come out of the normalization (`Normalized`): stripped, and without
two spaces in a row. The early return for a single unit gives what the loop gives.

### Customers

`life`, `row` and `owner` are the two tables; `pc`, `req`, `subject`, `loaded` and `answer`
the local state of a request, `conn` the clients that hold a connection of the pool
(`db/session.py` takes SQLAlchemy's bounded default). A request takes a connection with its
first statement and gives it back at its commit; `refresh` takes one again.

- `Load` is the `SELECT` of `get` or `_ensure_user_exists`, and the read endpoints.
- `Flush` and `Constrain` are the two halves of a flushed statement: the row lock, then the
  unique index, or the tickets that `ON DELETE SET NULL` rewrites. `Blockers` says which
  transactions a statement waits for: those that locked its row (`RowLocks`), those whose
  foreign key check shares it (`References`), and those that hold an e-mail address it wants
  (`Claims`: the inserted one and the one being replaced, since either may still count).
- `Commit` is applied, refused, or applied with its reply lost. `Written` is SQLAlchemy's
  unit of work: columns that equal what was loaded are not written.
- A row deleted since it was loaded makes an `UPDATE` raise (`StaleDataError`, 500), a
  `DELETE` pass with a warning, the `INSERT` of a ticket fail on its foreign key (404).
- `RefuseNull` is an explicit null in a PATCH payload: the schemas admit it, the column does
  not. `UserService` answers 409, for it takes every `IntegrityError` for a duplicate
  address; `TicketService.update` catches none and answers 500.
- `Abort` is a failing statement, a wait that outlasts the pool's timeout or a dead process;
  `BreakDeadlock` is PostgreSQL's detector, enabled exactly for a ring of waiting requests.

Abstracted: two columns stand for all, one of them unique for users; identifiers are drawn
from the rows not used so far; pages and filters (a page holds every ticket); the event and
the job of a created ticket, which `TicketAnalysis` has. `overwritten` is read by properties
only.

### StaffAgent

EXTENDS `Customers`: an ask shares the tables and the pool with the requests. `Enter` is the
gate of `api/demo_staff.py` (403), where a body that is no JSON has already been refused
(422); `LoadContext` reads the ticket (404) and validates the message (422); `StartModel` is
the first turn, with the dispatch of its one tool call, and `FinishModel` the second. The session that
read the ticket is open until the response, so the ask keeps its connection and the ticket as
it was read. `Dispatched` is every result a model can obtain, whatever name and arguments it
proposes; the customer comes from the context. The dispatch has no await that yields: the
payments are in memory. `Buyer` stands for the orders of any payment source; the one in the
repository assigns all its orders to one customer. A model call that fails, times out, or
returns nothing usable is `Failure`, told apart only as 502 and 504.

Assumed: the demo is enabled in the local environment, or `main.py` does not register the
route. Everything a ticket holds but its customer is left out, because the agent uses nothing
else.

## Abstract specifications

`AtLeastOnceJob` knows only jobs, where they are and whether their effect is durable:
an acknowledgement needs the effect, and effects stay. `DocumentIngestion` implements
it with the committed chunks as effect, `TicketAnalysis` with the published event.
`AnswerLifecycle` decides a draft once, freezes its wording, claims it before mailing
and mails it at most once; `SuggestedAnswer` implements it, mapping rows, locks and
requests away. `LiveNotifications` implements `EventConsumer`, so what holds of the
consumer groups holds of the composition. `OneCallbackPerJob` of `WorkerShutdown` is what
the row properties of `DocumentIngestion` and `StableIdentity` assume (`Exclusive`): without
a lost connection, deliveries of a job do not overlap.

## Properties

A property a run checks is often a conjunction, whose parts are named in the module and proved
one by one:

| Property | Parts |
| --- | --- |
| `RetrievalAgrees` | `CompletedIsIndexed`, `IndexedOnce` |
| `RowsAreTrue` | `ReasonOnlyWhenFailed`, `FailedIsUnindexed`, `AcknowledgedIsCompleted` |
| `JobsAreAccountedFor` | `JobHasDocument`, `OutIsHeld` |
| `EventsAreTrue` | `EventsAreCommitted`, `CreatedBeforeCompleted` |
| `MailsAreRight` | `MailedAtMostOnce`, `SentIsMailed`, `MailedAsApproved` |
| `OffsetsAreTrue` | `NothingSkipped`, `HandledInOrder` |
| `DrainsAreExact` | `HandlersAreDrained`, `InFlightRuns` |
| `DirectoryIsSound` | `EmailsUnique`, `CustomersExist` |
| `ReadsAreConfined` | `ReadsAreGated`, `PaymentsStayWithCustomer` |

## Runs

| Run | Bounds | Shows |
| --- | --- | --- |
| `ingestion` | 1 document, 2 tasks, 2 attempts, 1 crash, 1 disconnect, 2 replays, 1 API crash | chunks stored once and first, settlement and the refinement, with overlapping deliveries; every delivery runs out and no job is in nobody's hands; what the status row promises until a channel is lost |
| `ingestion_stuck` | 1 document, 2 tasks, 3 attempts, 1 crash, 1 disconnect, 1 replay | violation: acknowledged, yet never completed |
| `suggested_answer` | 1 draft, 4 requests, 2 texts, 2 addresses | delivery safety and the lifecycle |
| `ticket_analysis` | 1 ticket, 2 tasks, 2 attempts, 1 crash, 1 disconnect, 1 replay | acknowledgement, events, order, settlement, refinement; every delivery runs out and no job is in nobody's hands; one identity per ticket until a channel is lost |
| `analysis_unannounced` | 1 ticket, a malformed job, 3 attempts, 2 crashes, 2 replays, no disconnect | violation: a saved analysis that is never announced |
| `event_consumer` | 1 group, 1 partition of each topic, 2 records each | nothing skipped, order, offsets, consumption in the end |
| `live_notifications` | 1 ticket, 2 sockets, 1 record, 2 buffered messages | watchers are reached, and informed in the end |
| `live_dropped` | as above | violation: a later event is not forwarded to a socket that timed out |
| `worker_shutdown` | 2 workers, 2 jobs, 2 callbacks at a time, 1 lost connection | drains are exact and only shrink, no overlap, no job stays with an ended worker, stops end, jobs settle |
| `customers_and_agent` | 2 requests out of 13 operations, 1 ask, 3 users, 2 tickets, 3 values, 2 connections, 3 orders | the tables stay consistent, patches survive, refusals are true, the agent stays behind its gates and with one customer, connections are given back, only address swaps deadlock, somebody can always go on, everything is answered |
| `ticket_unserved` | as above | violation: a preserved ticket cannot be read |
| `chunking` | every text of up to 7 characters, limit 3 | the limit holds, the text is kept, every turn gets on, the loops end |

Why these bounds are enough: documents share no state, tickets share none, and drafts
are locked one by one, so one of each shows every interaction; two tasks are the
smallest overlap, and a third repeats what the second does; two attempts already
separate "retry" from "give up" (the violation runs use the code's three); one
interruption of each kind covers every pair of them, and the theorems cover the rest: more
documents, jobs of unknown documents, malformed messages, longer sequences of crashes and
replays. Two requests show every pair of statements that can meet on a row, an address or a
customer, the deadlock of two swapped addresses included (a longer ring repeats it); the
third address and the unused rows leave room for a creation; two connections let an ask and a
request exhaust the pool while another waits. More requests, asks and connections are left to
the theorems.
Four requests let an edit, an approval and two sends meet on one draft. Consumer groups
share only the log they read, so one group shows what a group does, and two records per
partition show order and repetition. Two sockets separate the socket a failure concerns
from the others; one record reaches the buffer twice through a replay. Two jobs and two
workers let a deferred job go to the other worker while its own still drains; more than
two callbacks at a time are left to the theorems. Seven characters hold two boundaries, a
sentence over the limit of three, a word over it and units that join; longer texts and
other limits are left to the theorems. Deadlock is not checked because every
instance comes to rest: partitions, interruptions and sockets
are bounded, workers end, requests and asks are served once, and chunking returns. Limits
on crashes, disconnects and replays, and every other counter, are CONSTANTS and appear in the guards.

Fairness: the event loop resumes every task whose await has ended (weak fairness of a
task's steps), and RabbitMQ delivers a queued job to an idle consumer (weak fairness of
`Deliver`, per job). `ticket_analysis` also assumes that Kafka does not refuse every
publish for ever (strong fairness of `PublishConfirmed`), because the code requeues
such a job without end. The Kafka client reads every partition in turn and neither
crashes nor failures hit the same point of a consumer for ever (strong fairness of
`Fetch`, `Handle` or `Notify`, and `Commit`); Compose restarts a failed process, and a
process asked to stop does so between records (weak fairness of `Restart`, `Quit`). The
listener reads what it has, and a send ends after two seconds at the latest (weak
fairness of `Receive` and of each socket's send). In `WorkerShutdown` callbacks and the
main coroutine are resumed (weak fairness); RabbitMQ offers a queued job again and again,
and a job is not given back for ever (strong fairness of `Deliver` and `Settle` per job).
Chunking is sequential code, which runs on (weak fairness of its next step). In
`customers_and_agent` PostgreSQL and the event loop go on with what was begun (weak fairness of
`Serve` and `ServeAsk` per client), `wait_for` bounds each call of the model, so the same
fairness holds of them, and the deadlock detector ends a ring (weak fairness of
`BreakDeadlock`); the pool's timeout and failures are not needed for an answer and not assumed.
Nothing is assumed of the other API requests, crashes, disconnects or operators.

## Theorems

Proved for any sets of documents, tickets, users, tasks, requests, texts and addresses, any
number of attempts and connections and any interruption
limits, from the named assumptions of the modules only.

`DocumentIngestionProofs`: `TypeCorrect`, `AcknowledgedJobsAreIndexed`,
`StatusAndRetrievalAgree` (from `CompletedDocumentsAreIndexed`, `DocumentsAreIndexedOnce`),
`PublishedJobsHaveDocuments` and `IngestionRefinesAtLeastOnceJob`. The properties are not
inductive: that an acknowledged job is indexed depends on where each task stands. `Safe` adds
that a task past `has_chunks` or its own insert (the states that lead to `repair`, `finish`,
`reconcile` or `ack`) works on a document whose chunks are committed, and that a job a
task holds was published. Chunks are never deleted, so these facts survive the steps of
the other tasks. The refinement follows step by step: a step inserts chunks, moves the
message, or does neither.

The same module proves `RowsTellTheTruth` (from `ReasonsBelongToFailures`,
`FailedDocumentsAreUnindexed`, `AcknowledgedDocumentsAreCompleted`) and
`CompletedDocumentsStay`, which hold until a channel is
lost. Their invariant says that then at most one task works on a job, that this task holds
the live delivery, and that the row is what the task's session last wrote; from the place of
the task it follows which of chunks, status and reason are already there.

It ends with what settlement rests on. `NoJobIsLost`: a job out of the queue has a task that can
still settle it, because a crash and a lost channel requeue exactly the jobs whose live delivery
they end. `DeliveriesEnd`: `Remaining` counts six steps for each attempt that is left and the
steps from the task's place to its settlement; every step of the task lowers it, whatever
retries, lost replies and detours through `mark_failed` there are, nobody else raises it, and it
is at most `6 * MaxAttempts + 4`. `JobsStayAccountedFor` puts `NoJobIsLost` and
`PublishedJobsHaveDocuments` together.

`TicketAnalysisProofs`: `TypeCorrect`, `AcknowledgedJobsAreAnnounced`,
`EventsTellTheTruth` (from `AnnouncedAnalysesAreCommitted`, `TicketsAreAnnouncedFirst`),
`AnalysisRefinesAtLeastOnceJob`,
and, until a channel is lost, `EventsShareOneIdentity` and `AnalysesAreFinal`. `Safe` relates
the place of the request that creates a ticket to what is in the topic and the queue, the
place of a task to whether its analysis is committed (`Established`), and a delivery to its
message. `Alone` adds what is true without a lost channel: one analysis and one event identity
per ticket, and a busy task is the only one of its ticket. `NoJobIsLost` and `DeliveriesEnd` are
as above: here two loops of attempts follow one another, so `Remaining` starts at
`5 * MaxAttempts + 1` at most. What is unbounded is only the broker's requeue.

`SuggestedAnswerProofs`: `TypeCorrect`, `CustomersGetTheRightMail` (from `OneMailPerDraft`,
`MailsAreApproved`, `SentDraftsAreMailed`) and `AnswersKeepTheirLifecycle`. `Safe` says that a
row lock belongs to exactly the request about
to commit (`LockOK`), that under the lock the draft stays as it was read (`OpenOK`),
that a send past its commit is the only one of its draft and carries what the draft
says (`BusyOK`), and that mails exist only for claimed drafts (`MailOK`). Mutual
exclusion thus comes from the lock before the claim and from `pending_send` after it. The
refinement shows per action which step of `AnswerLifecycle` it is; that at most one send of a
draft is at work makes the mail on its way a function of the state.

`EventConsumerProofs`: `TypeCorrect`, `OffsetsTellTheTruth` (from `NoRecordIsSkipped`,
`RecordsAreHandledInOrder`) and
`OffsetsNeverGoBack`. The strengthening says that the record in hand is the last
committed one or the one after it, that the client's position is at the record in hand or
back at the committed offset, and that everything up to the committed offset was handled.

`LiveNotificationsProofs`: `LiveImplementsEventConsumer`, `LiveTypeCorrect`,
`WatchersMissNothing` and `OnlyDroppedAreForgotten`. A watcher's event moves from the log to the
buffer, from there to the broadcast and to the browser, and each step keeps it at one of these
places: while any browser is covered the subscription lasts, every open socket is registered
unless a send to it failed (`RegistryOK`), and only saved analyses are announced.
`OnlyDroppedAreForgotten` is the other side of the divergence `live_dropped` shows: what
`broadcast` takes from the manager holds every open socket of the ticket but those to which a
send has failed.

`WorkerShutdownProofs`: `TypeCorrect`, `DrainsStayExact` (with `NoHandlerOutlivesTheConnection`),
`StopsNeverOverlapJobs`, `DrainsOnlyShrink` and `NoJobStaysBehind`. `Safe` says that a running
callback is in `in_flight` of a worker
not yet past its drain, that a live delivery alone holds its message, and that a void
delivery's job was lost with a connection unless its callback will be deferred. For
`DrainsStayExact` the converse is proved too: whatever is in `in_flight` runs, so a drain waits
for nothing that will not end. For `NoJobStaysBehind` it is shown that what a worker holds goes
back to the queue with its connection, and that a callback which no longer settles its job
was deferred by a stop or voided by a loss.

`StaffAgentProofs`: `AgentTypeCorrect`, `DirectoryStaysSound` (from `EmailsStayUnique`,
`TicketCustomersExist`), `CommittedPatchesSurvive`, `RefusalsTellTheTruth`,
`AgentReadsAreConfined` (from `AgentReadsAreGated`, `AgentToldOfOwnCustomer`),
`NoConnectionLeaks`, `OnlySwapsDeadlock` and `NoGridlock`. The code leaves uniqueness to the
database, so the invariant is about
what waiting buys: two requests past their flush cannot both write one row, insert a ticket for
a customer being deleted, or bring in one address (`Pair`), and an address past the unique index
belongs to no other row (`Fresh`). `Remembered` is why a PATCH does not undo another one: a
column others did not ask to write still has its loaded value. For the agent, the customer
it knows is the ticket's, or the ticket's customer is gone: an owner changes to null only.

`NoConnectionLeaks` follows every connection from the first statement of a transaction to its
end, on each path out of it. The other two say who waits for whom: nobody waits for a request
that has no row lock yet, a deletion waits only for requests that wait for nothing, and whoever
keeps an address from others before its commit is a PATCH or a deletion that gives it up. So a
ring consists of PATCHes of addresses (`OnlySwapsDeadlock`). For `NoGridlock`, suppose nobody can
go on: then some connection is out, every one that is out belongs to a request that waits, and
the requests these wait for are again among them. They are finitely many, at most `Pool`, and in
a finite set whose members all wait for members of it the smallest such subset is a ring
(`RingExists`), which is there for the detector to break.

`ChunkingProofs`: `TypeCorrect`, `ChunksStayWithinLimit`, `NoTextIsLost`, `TurnsAreFound`,
`TurnsGetOn` and `WorkStaysBounded`, for texts of any
length and any limit from 1 on. The strengthening follows a frontier through the text:
every character before it that is not whitespace is in a unit, units end before it, and
they touch only where a word was cut at the limit; what is left of a sentence begins and
ends with such a character; and the chunks so far, with the one under way, tile the units.
The last three are termination without fairness: what the next turn takes from the text exists
(`NextTurnExists`: a stripped sentence, a last space that leaves a part in front of it, a rest
that is not blank), every turn lowers `Work`, and `Work` is a natural number, at most
`6 * Len(text) + 3`.

Only model-checked: liveness, because neither fairness nor ENABLED is within reach of the prover.
For most of these properties the part that is about steps is proved, and what a run adds is
that fair schedules take the steps:

| Checked | Proved for every instance |
| --- | --- |
| `JobsSettle` (ingestion, analysis) | `NoJobIsLost`, `DeliveriesEnd`: somebody has the job, and its delivery runs out |
| `StopsEnd` | `DrainsStayExact`, `DrainsOnlyShrink`: a drain waits for callbacks that run, and for no new ones |
| `JobsSettle` (shutdown) | `NoJobStaysBehind`: a job is worked on or about to be handed back |
| `ChunkingEnds` | `TurnsAreFound`, `TurnsGetOn`, `WorkStaysBounded` |
| `EverythingIsAnswered` | `NoGridlock`, `NoConnectionLeaks` |
| `EventsAreConsumed`, `WatchersAreInformed` | only their safety side: `OffsetsTellTheTruth`, `OffsetsNeverGoBack`, `WatchersMissNothing` |

Proved and in no run's configuration: the type invariants but `AgentTypeOK`, `AcknowledgedIsIndexed` and
`AcknowledgedIsAnnounced` (consequences of the refinements), `WorkIsBounded`, `NextTurnExists`
and `OnlyDroppedAreMissed`; TLC finds each of them true on the instances of the runs as well.


## Divergences found

1. A document can stay unfinished after its job was acknowledged, with nothing to
   replay (`ingestion_stuck`).
2. A committed analysis can stay unannounced (`analysis_unannounced`).
3. A client whose send once timed out stays connected but hears of no later event
   (`live_dropped`).
4. A ticket preserved after its customer was deleted cannot be read, alone or in a page:
   `TicketResponse` demands a customer (`ticket_unserved`).

The first needs overlapping deliveries of one document, which the README of the
repository does not exclude; the second a lost commit reply and exhausted retries;
the third a slow client, and `OnlyDroppedAreForgotten` proves that nobody else is forgotten; the
fourth nothing but the deletion. `RowsAreTrue` holds only while deliveries do not overlap:
after a lost channel a task that loaded the row before another one's `mark_failed` leaves the
`failure_reason` committed meanwhile beside a status `processing` or `completed`. An explicit
null in a PATCH is answered with "A user with this email already exists" for users and with
500 for tickets (`RefuseNull`); `RefusalsAreTrue` excepts it.

## Not modelled

- LLM, embedding, SMTP-protocol and PDF details, prompt wording, vector search and prompt
  assembly: calls of libraries and data processing without state that several steps relate.
  The modules have their outcomes.
- Pagination, filters, configuration, wiring, logging and migrations: declarations. Their
  constraints appear where a module relies on them.
- `setup_topology.py`: one idempotent run of HTTP calls before the workers start. The
  dead-letter policy it installs is assumed.
- The gate of the notification socket, which is stateless and checked before a socket exists.

## Plan

The modules were built in the order of the table. What could still be added:

1. Suggested answers and `Customers` in one composition, so that the customer whose address a
   send reads is the row that other requests patch and delete.
2. Partitions that move between several members of a consumer group, should the deployment
   ever run more than one process per group.
3. Progress measures for a record in a consumer's hands and for a broadcast, as
   `DeliveriesRunOut` is one for a delivery.
