# Hiveloom in TLA+

This directory specifies, model-checks and proves properties of Hiveloom, a
multi-tenant runtime for LLM agents written in Rust (axum, tokio, rusqlite). The
specifications are translated from the code in `src/` of the repository; a path
like `engine/scheduler.rs` below is relative to that directory. `PROJECT.json`
lists, for each definition, the lines it models, and for each property the run
that checks it and a mutation of the code model that violates it.

Running it: `tlc -config X.cfg M` checks a run of the table below, `tlapm
MProofs.tla` checks the proofs.

## 1. The system

One process serves any number of tenants. Every tenant has a SQLite database of
its own; a platform database lists the tenants, and one master key seals their secrets. Request
handlers, scheduled tasks and background loops are tokio tasks that open
*connections of their own* (WAL mode, five seconds of busy timeout by default), so
that they interleave statement by statement; few of them use a transaction. What is
shared in memory is small: the scheduler's set of running agents, the dedup map,
the master key.

| Component | State | Operations | Interacts with |
|---|---|---|---|
| Agent loop (`engine/agent_loop.rs`) | locals: context, iteration | append the user turn, compact, load the history, call the LLM, execute tools, append their turns | conversation store, compaction engine, LLM provider, capabilities, memory |
| Conversation store (`store/models/conversation.rs`) | `conversations`, `conversation_turns` | create, append, list, delete turns, update the compaction state | agent loop, Slack, chat, scheduler |
| Compaction engine (`compaction/engine.rs`) | `raw_turn_archive`, `compaction_events`, `compacted_summary`, `compaction_count` | check, summarise, truncate, archive, remove, record | summariser, truncator, LLM |
| Truncator (`compaction/truncator.rs`), split (`compaction/engine.rs`) | none | which turns go | compaction engine |
| Summariser (`compaction/summarizer.rs`) | none | one or two LLM calls, hard truncation | LLM |
| Configuration, counter, indicator, events (`compaction/config.rs`, `indicator.rs`, `event.rs`, `server/admin_api/compaction.rs`) | `compaction_config` | validate, patch, reset, resolve agent over tenant over built-in; format | compaction engine, admins, CLI |
| Scheduler (`engine/scheduler.rs`, `server/admin_api/scheduled_jobs.rs`, `store/models/scheduled_job.rs`) | `scheduled_jobs`, the running set, a scan's locals | scan, claim, reschedule, spawn, run, release; create, update, pause, resume, delete | agent loop, admins |
| Event routing (`server/events.rs`, `engine/event_router.rs`, `engine/dedup.rs`) | `dedup_entries`, an in-memory map, `event_subscriptions` | verify, deduplicate, route, run | agent loop |
| Slack (`server/slack/`) | as above, `chat_surface_bindings` | events, interactions, replies | agent loop, conversation store |
| Agent versions (`store/models/agent.rs`, `server/admin_api/agents.rs`) | `agents` rows, one per version | create, new version, roll back, delete | every runner |
| Memory (`engine/memory.rs`, `store/models/memory.rs`, `server/admin_api/reflections.rs`) | `memory_entries`; the scope settings in `agents` | recall, curate (write under a scope), search, promote, archive, offboard | agent loop, MCP server, admins |
| Credentials (`store/models/credential.rs`, `server/admin_api/credentials.rs`) | `credential_vault_entries` | set, rotate, delete, look up by name and level | capabilities, Slack, LLM clients, OAuth |
| OAuth and workflows (`server/oauth/`, `server/slack/auth.rs`, `engine/workflow.rs`) | `oauth_authorization_requests`, `conversations.workflow_state` | start, expire, clean up, answer the callback, resume the run | credentials, agent loop |
| Capabilities (`engine/capability_exec.rs`, `store/models/capability.rs`, `server/admin_api/capabilities.rs`) | `capabilities` | create, update, remove; fetch the credential and call over HTTP | agent loop, credentials |
| MCP server (`server/mcp/`, `server/admin_api/mcp_identities.rs`) | `mcp_oauth_clients`, `mcp_identities`, `mcp_setup_codes`, `mcp_client_registrations` | register, authorise with a setup code, exchange, refresh, validate, revoke, reissue, map; the tools chat, memory, list_conversations | agent loop, memory, conversation store, admins |
| Tenants and stores (`store/`, `server/admin_api/tenants.rs`) | `tenants`, one database and its log per tenant, `schema_migrations`, the master key | create, update, delete; open, migrate; seal | all |
| Backups (`server/admin_api/backups.rs`) | archives, `backup-index.json` | back up, index, restore | tenants and stores |
| LLM providers, server shell, CLI | none of the system's own | HTTP, SSE parsing, routing, terminal interface | agent loop, admin API |

Which behaviours are hard, and what would be correct:

* **The agent loop and its compaction.** The loop runs over `await`s for minutes and
  holds no lock: two messages in one thread run two loops on one conversation.
  `append` is a read and an insert; a compaction reads turns and summary, awaits the
  LLM, and then archives, deletes and records by single statements any of which may
  fail or be the last before a restart. Its errors are swallowed. Correct: no turn is
  lost; the archive is a word-for-word copy; the turns a user just wrote are still
  there; a tool result keeps its call; order is kept; the summary stands for
  everything archived; the loop ends.
* **The scheduler.** A scan works on rows that admins change meanwhile; a fired task
  runs past the next scans; a restart forgets what ran. Correct: no agent runs twice
  at a time; none is blocked for ever; missed instants are made up for once; a
  one-time job fires once; a due job fires in the end.
* **Deliveries.** The same webhook arrives several times, also at once and across
  restarts, through a memory map and a table. Correct: a delivery is processed at
  most once, and not refused for a reason that has nothing to do with it; an event
  reaches every subscription; a Slack thread has one conversation.
* **Agent versions.** Handlers read the current version and write a new one in a
  later transaction. Correct: at most one current version, the newest; a failure
  takes no agent away; a rollback restores the version it names; a deleted agent
  stays deleted.
* **The MCP server.** Finding a code, marking it and creating the registration are
  statements of their own, and so are the reads and writes of an exchange and a
  refresh. Correct: what was spent is worth nothing, neither tokens nor a session;
  reissuing retires the older codes; a revocation reaches every registration,
  whichever exchange or refresh it raced with; a conversation stays with its user and agent.
* **Credentials and authorizations.** Names are not unique, lookups take the first row,
  and a callback looks up, stores and completes by three statements. Correct: what
  was rotated or deleted is out of use; a completed authorization has left a
  credential; a state token is answered once.
* **Memory.** A run writes under the settings it loaded minutes before, admins change
  them, promote and offboard meanwhile. Correct: private memories stay private; what
  a run wrote the next one knows.
* **Settings.** A patch reads, merges and writes every column. Correct: an
  acknowledged patch stays until somebody changes that setting; whatever the
  settings, a compaction cuts no pair apart.
* **Stores and backups.** Every open of a store may migrate it; a backup copies two files
  one after the other while requests commit; a restore empties and fills live files.
  Correct: migrations are applied once and before any row; a backup is a
  snapshot; a restore gives the archive back.

PROJECT.json lists every hazard at its line, with the properties that cover it.

## 2. Modules

| Module | Models | Status |
|---|---|---|
| `CompactionCuts` | the two pure functions that choose the turns to take away | done |
| `CompactionSettings` | an agent's override of the compaction settings under racing patches and resets | done |
| `Compaction` | composes the two: a growing conversation cut either way with the settings in force; the cut of a summary that is too long | done |
| `MCCompaction` | instances for TLC | done |
| `TurnLedger` | abstract: turns are written once, move to the archive, expire there | done |
| `AgentLoop` | invocations of the loop on one conversation, with their compactions, failures and restarts | done |
| `Scheduler` | scan loop, tasks and admin handlers | done |
| `MCScheduler` | instances for TLC | done |
| `VersionHistory` | abstract: an append-only history of which at most the newest version is live | done |
| `AgentVersions` | one agent's rows under overlapping create, update, rollback and delete | done |
| `Deliveries` | inbound events and Slack events from the request to the answer, with the dedup they share | done |
| `MCDeliveries` | instances for TLC | done |
| `McpAccess`, `MCMcpAccess` | identities, setup codes, registrations, tokens and the conversations behind the chat tool; instances | done |
| `Credentials`, `MCCredentials` | the credential table, its writers (admins, two OAuth callbacks) and readers (capabilities, Slack, LLM keys); instances | done |
| `Memory`, `MCMemory` | memories under runs, changing settings, promotion and offboarding; instances | done |
| `Stores`, `MCStores` | tenants, their stores with migrations and log, backups and restores; instances | done |
| `AgentLoopProofs` (also those of `CompactionCuts`, `CompactionSettings` and `Compaction`), `SchedulerProofs`, `AgentVersionsProofs`, `DeliveriesProofs`, `McpAccessProofs`, `CredentialsProofs`, `MemoryProofs`, `StoresProofs` | the theorems | done |

`AgentLoop` takes its cuts from `CompactionCuts` and implements `TurnLedger`;
`AgentVersions` implements `VersionHistory`. The other modules meet at the agent
loop, which `Scheduler`, `Deliveries`, `McpAccess` and `Memory` treat as a call that
answers or fails, and at tables which each of them keeps the part of that it uses.

The modules of request handlers are built alike. A request is a record with its `pc`,
its operation and the locals it carries from one statement to the next; `Begin` is
its arrival with its first read, `Stop` or `Fail` an error or the end of the process
after any statement, which leaves what was written. `before` is history: the requests
that were over when it came, so that a property can speak of what follows an
acknowledgement.

### AgentLoop: state and actions

The rows of `conversation_turns` are the set `turns`, of records with the rowid
(`id`), `turn_index` (`idx`), a role and a size in tokens; contents are left out.
`archive` has the `raw_turn_archive` rows with the invocation that wrote them;
`summary` is `compacted_summary`, kept as the *set of turns it stands for* and its
size. `pc[i]` says where invocation `i` is, and its other variables are the locals
of `run_agent_loop_with_vault` and `check_and_compact` that live across an
`await` or a statement: the index it read, the turns and the summary it read, the
plan, the turns to archive and remove.

One action is one SQL statement or one awaited call. `ReadIndex`/`InsertTurn` are the
two statements of `ConversationTurn::append`; `ReadTurns`, `ReadSummary`, `Decide` are
the first half of `check_and_compact`; `Summarized`/`SummaryFailed` the outcomes of the
summariser; `ArchiveTurn`, `RemoveTurn` the loops of single statements;
`RecordState`, `RecordEvent` the two last writes. `SummaryUnread` is a `ReadSummary` that fails:
`get_compacted_summary` takes the error for the absence of a summary (compaction/engine.rs:342), so that
the compaction goes on and its `RecordState` replaces the summary that is stored. `LoadHistory` reads the turns
again; `ChatTools`, `ChatAnswer`, `ChatEmpty`, `ChatError`, `OutOfIterations` are the
tool loop. `StatementFails` is an error of any statement: inside a compaction it is
swallowed, elsewhere the invocation ends. `Crash` ends every invocation.
`ExpireArchive` is the retention job.

Of `CompactionCuts`, `SplitForCompaction` is the split of a summarisation, and `TruncateKept` the
truncator's loop: `kept[k]` is what is left after `k` rounds, `Enough` its two conditions to stop,
`OneLess` the removal of one round, with `Priming` and `SummaryOverhead` in the count.

Simplified: a turn's tokens are a number of their own instead of the counter's
estimate of its content; the summary costs the same overhead in the threshold check as in the truncator's count; retention deletes only what an ended invocation archived
(it is 30 days later); the turns of an invocation's tool results are
unsized like all others. `execute_capability`, `write_memory` and the provider
choice matter only by failing.

### Scheduler: state and actions

`rows` are the `scheduled_jobs` of one tenant, `running` the mutex-protected set,
`phase`, `now`, `due`, `current` the locals of the scan, `tasks` the spawned tasks.
`log` is history, for the properties only. Time is `clock`; a cron expression is its period.
`WakeUp`, `ListDue`, `Skip`, `Claim`, `Reschedule`, `Spawn`, `EndScan` are the scan in the code's
order; `TaskStarts`, `TaskEnds`, `Release` are `fire_job` and the clean-up after it.
`Create`, `Pause`, `Delete` are one statement each; `Resume`/`Refresh`/`WriteNext` and
`Update`/`WriteNext`/`WriteFields` are the statements of the two longer handlers, with
their locals in `requests`.

### AgentVersions: state and actions

`rows` are the rows of `agents` with one id: version, `is_current`, status, parent and a
definition that stands for the name, prompt and the other fields. `Begin` is
`resolve_agent_id`; `Read` and `NotFound` the handler's or rollback's SELECT, whose row
is kept in the request's `seen`; `CreateNewVersion` the transaction, in which
`Retired`, `NewVersion` and `Copied` are its statements; it starts with an UPDATE, so
that nothing comes between them. `RequestFails` is an error of any statement or the
end of the process.

### Deliveries: state and actions

`seen` is the DedupTable's map, `recorded` the `dedup_entries` of each tenant, `subs` the
subscriptions of one event type, `conversations` those of Slack threads, `open` the
active conversations of event runs. An attempt is one HTTP request; its record keeps
the locals and, for the properties, what was listed, run and skipped. `clock`
orders the creation times and the insertions of conversations.

`Record`, `Duplicate` and `CheckFails` are `check_and_record`, one step as it holds
the map's mutex throughout. `ListSubs` to `Accept` are `route_event` and
`run_subscription`; `LoadAgent` to `Answered` are `dispatch_event`. There
`FindConversation` and `NoConversation` are the SELECT and `CreateConversation` the INSERT, which
another message's may precede. `RouteFails`, `SubFails` and `SlackFails` are errors
by where they are caught: by the handler, for one subscription, by the spawned
task. `Restart` empties the map and ends what is in progress.

### CompactionSettings and Compaction: state and actions

`override` is the agent's row of `compaction_config`, `InForce` is `resolve_config`.
`Reset` is the DELETE; `ReadOverride`, then `CreateOverride` or `LoadCurrent` and
`WriteOverride`, are `patch_compaction_config` with `CompactionConfig::update`, which
reads the row a second time and writes all columns. In `Compaction` the conversation
`list` grows by `Grow` and is cut by `Summarise` or `Truncate`, each of them
`check_and_compact` as one step with the settings in force. `LinesThatFit`,
`CharactersThatFit` and `HardTruncate` are `hard_truncate_summary` with its binary
search; they are functions, and the property evaluates them on every conversation: on every
list of as many lines as it has turns, each as long as one of them.

### McpAccess: state and actions

`clients`, `identities`, `codes` and `registrations` are the four tables. A registration's
`access` and `refresh` name the request that made that token; the authorization code
takes the place of the access token, as in the code. `FindCode`, `MarkUsed`,
`LookupOld`, `DeleteOld`, `CreateRegistration` are `authorize_submit`; `ReadGrant` and
`ReadRefresh`, then `UpdateTokens`, are the token endpoint; `CheckActive`,
`RetireCodes`, `CreateCode` a reissue; `OpenStore` to `RevokeAnswers` a revocation.
`OpenSession` is `validate_session` with the agent's and the user's resolution,
`ListConversations` and `ResolveConversation` (`CallTool`) the tools. `Expire` is time.
As code and access token are found by one column, `ReadGrant` and `OpenSession` take whatever was
`HandedOut` by a submission, an exchange or a refresh; `ReadRefresh` goes on when its
read of the identity fails (auth.rs:694). An identity's user is its person, or its name, which another
identity may have as well.
Hashes, secrets, redirect URIs and PKCE verifiers match; a request they refuse
changes nothing and is left out.

### Credentials: state and actions

`entries` are the rows of `credential_vault_entries` in insertion order (`row`), `asks`
the authorization requests, `waiting` the runs that an authorization holds up,
`capabilities` those of all agents with the credential each refers to. `ByName` is
the lookup with its two levels and its choice of a row. `SetCredential`,
`FindCredential` with `Rotate` or `Delete` are the admin API; `CleanUp`, `StartInstall`,
`AskUser` start authorizations; `ReadAsk`, `LookupExisting`, `StoreToken`,
`MarkCompleted`, `ResumeRun` are both callbacks, statement by statement;
either takes a state token of either kind: `NameFor` is the name `handle_callback` stores the token
under, Slack's stores `slack_access_token`, and only the former `Resumes` a run.
`CreateCapability` to `RemoveCapability` are the capabilities' admin API, `LoadCapability`,
`FetchCredential`, `SendRequest` their use, `ReadValue` the other readers.

### Memory: state and actions

`memories` are the rows of `memory_entries`, whose value is named by the run that wrote
it; `settings` the scope settings of an agent's current version. `LoadAgent`, `Recall`,
`Curate`, `Remember`, `EndRun` are a run with its curation; `Scope` is the coercion
of `write_memory`. `Search` is the MCP tool. `FindPromoted`, `CopyToTenant`,
`ArchiveOriginal` are the promotion, `Offboard` one DELETE, `Configure` an update of the
agent. `copied` is history: the entry a promotion has copied.

### Stores: state and actions

`store[t]` is the database file and the write-ahead log of tenant `t`, as the sets of
commits each holds. `Commit` writes to the log and may checkpoint; `Drop` is the last
connection that closes, which checkpoints and deletes the log. `OpenStore`,
`CheckMigration`, `Migrate` are `TenantStore::open`; `WriteRow` stands for any request's
write. `BeginBackup`, `OpenFile`, `EndFile`, `WriteArchive`, `ReadIndex`, `EmptyIndex`,
`WriteIndex` are `create_backup`: a file's size goes into the archive when it is opened, and
it is read up to the end it has by then. `Unpack`, `EnsureRecord`, `EmptyFile`, `FillFile`,
`FinishRestore` are `restore_backup`, where `std::fs::copy` empties a file before it fills it.
`whole` and `calm` are history: whether a store is in a state it was in at one moment, and whether a
backup or a restore was undisturbed - for a backup, that the database was the same from the
first opening to the last end and that no file changed while it was read; for a restore, that nobody
used the store and no log was left over. SQLite is modelled from how the code opens it; of a mixture of files
nothing is claimed.

## 3. Runs

| Run | Configuration | Shows |
|---|---|---|
| `compaction` | conversations of up to four turns of every role that matters, compacted either way, two requests that patch or reset the settings | a cut never separates a pair (T020) and spares the latest turn whatever admins set; the truncation and the cut of a summary take no more than they must; an acknowledged patch stays |
| `loop_serial` | three invocations one after another, one failing statement or restart anywhere, fairness | order and pairs survive a compaction that stops half way, and every invocation ends; as long as nothing has failed, the summary and the LLM input have everything a compaction took away |
| `loop_overlap` | two invocations at once, one failure | no turn is lost and the loop implements `TurnLedger`; turns that became recent during the LLM call are not deleted; a summary never stands for a turn that is still there |
| `loop_summary` | violation | the stored summary does not reach the LLM of a later invocation (docs/architecture.md, step 4) |
| `sched_shared` | two jobs of one agent, a failing statement, a restart, resumed jobs | one run per agent; the running set is exact |
| `sched_admin` | one job, admins doing anything at any time, a restart, fairness | a one-time job fires once, and once more per resume; instants missed in downtime, or while the agent ran, are made up for once, and once more for each resume or update; whatever comes due is taken up by a later scan, also after the restart, unless an admin withdraws it, and gets its task unless the process ends just then |
| `versions` | three requests of any kind on one agent, each may fail at any statement | the current row is the newest; no agent vanishes but by a delete; a rollback restores what it was asked for; the table implements `VersionHistory` |
| `deliveries` | two requests, two ids, two tenants, two subscriptions, a thread, one failure, one restart, admins | at most once; what is refused was recorded, for its own tenant or, until a restart, for another; every subscription is tried; threads split only by races; event conversations are concluded |
| `mcp` | five requests of clients and admins on one identity, two agents, two requests at a time, failures after any statement | what was spent gets no later request anything; a reissue retires; a revocation reaches every registration there was; conversations stay apart |
| `creds` | four requests, two at a time, two levels of credentials, both callbacks, one agent's capabilities | retired values are out of use; a completed authorization has left what its callback stores; answered once |
| `memory` | four runs and admin requests, two at a time, three settings, a user and the empty user name | private stays private; what was written is known, but for offboarded users and where a promotion has copied |
| `stores` | three requests, two at a time, restarts, two migrations, an archive of this instance and one of another | migrated once and first; an undisturbed backup is a snapshot; an undisturbed restore gives the archive back; a backup is listed |

`CHECK_DEADLOCK FALSE` stands in the runs of every module but `Scheduler`:
there everything stops when the invocations or requests have ended or the list is
full. The scheduler never stops. Invocations and requests are numbered in the order in which
they begin: they are alike, so that this leaves out nothing and TLC meets no
permutations of them.

**Bounds.** A compaction needs turns above the threshold of a small window: three
invocations fill a window of 60 to 160 tokens with turns of 20, so that the second and the third
of them compact, also what the one before left half-done; with two protected turns a cut can fall between a
tool call and its result. Two invocations at a time give every interleaving
two stale snapshots can have. One failure is enough to stop any loop of statements
at any point. Two jobs of one agent contend for it; a clock of two ticks gives a job that is overdue
by more than one period when the scan sees it, and three requests of that job two which bring
back an instant after its creation. Three requests are a delete or a publication
between another's read and its transaction, and one that comes after. At most once, the
threads' conversations and the map are statements about pairs of requests, with one
id or two. Of the access and credential properties each relates two or three requests that
overlap or follow: one that issues, one that spends or retires, one that uses; two
at a time and four or five in all give a third request that comes after both. One
client and one identity are enough, as different ones share no row. In `memory` the
empty user name is the second user; in `stores` a writer, a backup and a restore, with
an archive found at the start so that a restore needs no backup before it, and one
id for a default tenant that a restart has to provide. Each bound is a CONSTANT with a comment
that says so.

**Fairness.** `AgentLoop!FairSpec`: weak fairness of each invocation's steps. A started
invocation is a tokio task; SQLite statements return or fail after the busy timeout.
That the provider answers or errors in the end is an assumption: the HTTP clients set no timeout of
their own, so it rests on the connection. The choice *which* outcome is left
open. `Scheduler!FairSpec`: the scan loop sleeps at most a minute and goes on after
errors; the steps of an agent's task are fair for the same reason as above. Admins and
the clock are not fair.

## 4. Proofs

Assumptions are those named in the modules: the types of the constants, finitely many
invocations, the ranges the code's validators admit, and that the markers that stand
for "none" are not members of the sets they are told apart from (`NoneAssumption`; in
`Memory`, that nobody is called `tenant`). Of the archives that lie there at the start,
`Stores` assumes that no later backup takes their names, that one copied undisturbed holds a
migrated database, and that the rows in it are another history's (`FoundAssumption`). Nothing is assumed of how many
requests there are or run at a time, but where a theorem says so.

* `AgentLoopProofs`, of the cuts: for every finite list and every setting, a turn a
  summarisation takes has at least the protected number of later turns
  (`RecentTurnsKept`), and neither cut separates a protected result from the call
  right before it (`PairsStayTogetherAlways`). Each cut takes the oldest turns
  and no others (`SplitTakesOldest`, `TruncationTakesOldest`).
* `AgentLoopProofs`, of `Compaction`, for any number of patches and resets and any conversation:
  `PatchesStay`, `PairsAreKept`, `TruncationsAreTight`, `SummaryCutsAreTight`. The invariant (`SettingsInv`) accounts for
  what a patch holds between its statements: the row it has seen is there, or a
  reset came across (`RowsAccounted`), and what it is about to write carries
  everything acknowledged before it came (`MergedCarry`). The conversation stays a
  finite list with indexes of its own (`Listed`), to which the theorems of the cuts apply. For the
  truncation, the loop's rounds are followed one by one: each that is not enough takes away the oldest
  removable turn (`RoundShrinks`), so that the last round is enough (`TruncationStops`), and the round before
  it, which had the newest of the dropped turns, was not. The cut of a long summary is written with
  recursive functions: the sums of a list's prefixes, the binary search, the shrinking by a quarter. That a
  function with the recursive equation exists is shown by the smallest argument up to which there would be
  none (`PrefixSumsExist`, `ShrinkingExists`), or by giving it: the search from `lo` to `hi` returns the
  longest prefix that fits, clamped to that range (`LinesThatFitIs`). That it is the only one, by the smallest
  argument at which two would differ.
* `AgentLoopProofs`, with any concurrency and any failures: `TypeCorrect`, `NoTurnIsLost`,
  `RecentTurnsAreKept`, `LoopImplementsLedger`, `SummariesAreForArchived`. `TypeOK` is not inductive: the next index
  is a maximum, so the indexes must be bounded (`IndexesBelow`), and the head of a
  queue is taken, so it must not be empty (`QueueReady`). For the ledger the
  essential strengthening is that in the loop that deletes, everything still to
  be deleted is archived already, or has expired there, and that what a compaction
  cuts was written once: ids are unique and below `nextId`, also in the
  snapshots that other invocations made stale. For the recent turns it is that
  what an invocation holds to be old stays old: later turns are only added, and what is
  deleted is older still (`OldStaysOld`). For the summary it is that every set of turns
  which an invocation holds to be summarised, in its stored copy, its snapshot's or the new text, has
  left the conversation for good (`CoverInv`): ids are not used again, so that what has left stays out
  (`LeftStays`), and a history read later cannot have it (`FreshContext`).
* `AgentLoopProofs`, when invocations of a conversation do not overlap (the hypothesis
  `MaxConcurrent = 1`, which section 6 explains): `IndexesFollowAppends`,
  `ToolPairsStayTogether`, `CompactedContextsAreComplete`. The invariant (`Serial`) says
  that indexes rise with the order of appending, that the newest turn is never
  taken (`NewestStays`) and that turns leave oldest first (`EndStays`), that a
  compaction under way has read the conversation as it is but for what it deleted
  itself, and that its cut takes the oldest and spares the pairs (`SafeCut`). So a compaction that
  stops between two deletions leaves a conversation in which every protected result has its call. For
  the LLM input, as long as nothing has failed, each turn that is gone is behind the stored
  summary, in the cut of the summarisation under way, or truncated (`Complete`).
* `SchedulerProofs`: `SchedulerTypes`, `AgentsRunAlone`, `RunningSetIsAccurate`. One
  run per agent follows from the running set being exactly the agents of the
  tasks and of the job in hand, and that is kept because the claimed agent
  has no task yet (`ClaimIsFree`); the firing's number is fresh because the log
  is finite. The other two hold as long as no statement fails.
  `OneTimeJobsFireOnce` counts: firings, a launch in hand and a row that may
  still launch are together no more than one plus the resumes (`WithinBudget`), where a row
  is armed while it is active or the scan still holds it. `CronJobsFireOncePerPeriod`
  counts as well, for each job, cron expression and period (`PeriodsPass`): its firings, a launch in hand and a row
  whose instant lies before the period's end, or will once the scan has rescheduled it, are no more than one
  plus the requests that have written an instant (`Wrote`). A launch uses the row up: the scan
  counts from the time it started at, so that what it writes is later than the period it
  fires in (`NextFireIsLater`), whatever was written meanwhile. What a handler holds was computed from the clock, which may
  since have passed it (`PastInstant`), so that each may bring one firing back and no more.
* `AgentVersionsProofs`: `TheNewestIsCurrent`, `OnlyDeletesVanish`, `RollbacksRestore`,
  `DeletionLasts`, `VersionsImplementHistory`, for any number of requests. The
  versions are exactly 1..n with one row each, so that the maximum plus one is new
  (`Numbered`, `OneRowEach`); a row that a request has read is still in the table but
  for its flags (`SeenExists`), so that the parent and the definition it copies are
  those of a version in the history.
* `DeliveriesProofs`: `DeliveryTypes`, `DeliveredAtMostOnce`, `OnlyRecordedAreRefused`,
  `ThreadsSplitOnlyByRaces`, `EverySubscriptionIsTried`, `RunsConclude`, for any numbers of
  requests, tenants, failures and restarts. At most once needs that the verdict "new"
  comes with a row that stays, and that nothing runs before its verdict
  (`Bookkeeping`); for threads, whoever is about to insert a conversation looked
  before any other was inserted (`ThreadInv`); for the subscriptions, that those an attempt has run or
  skipped and those still to come are all that it listed (`Routing`).
* `McpAccessProofs`: `CodesAndTokensSpentOnce`, `ReissuesRetire`, `RevocationsReach`,
  `ConversationsAreApart`, for any number of requests, clients and agents. Codes and
  tokens are named by the request that made them. The invariant (`AccessInvariant`)
  follows a code from the row that is found to the row that is marked: whoever
  spent it has taken it out of every valid row (`CodesMarked`, `TokensSpent`), new
  rows carry new names (`CodesReissued`, `TokensNamed`), and what a request saw as over is over
  (`Past`), so that a later request cannot find it. A code or token stands in one
  registration (`AccessUnique`); otherwise spending it in one would leave the other. For
  revocations it is that a registration acknowledged before the revocation came is revoked, listed and still to
  be revoked, or noted as missed, at every step from the list to the answer (`ReachInv`), and
  that no write of an exchange or refresh takes the mark away.
* `CredentialsProofs`: `RetiredValuesStayRetired`, `CompletedAuthorizationsAreStored`,
  `AuthorizationsAnsweredOnce`. The proof goes by the names of values: a row is found by its value
  as well as by its id (`RowsNamed`), so that the writer who replaces the row it read
  replaces the value it saw (`Holds`), and a replaced value is in no row (`Replaced`).
  A stored token stays until somebody deletes a credential of its name
  (`StoredStays`), also when the callback updated a row that it had looked up earlier.
* `MemoryProofs`: `ThePrivateStaysPrivate`, `TheWrittenIsKnown`. An entry names the run that
  wrote it, and its scope is one which the settings of that run give, unless a promotion
  copied it (`Learnt`), also in what requests have read and not yet used. What was
  written stays under its key and scope, no older but for a promotion's value in its place, and unarchived
  but where a promotion copied from (`Kept`, `ArchivedByPromotion`), which is needed
  at each step of a run that has begun, since what it will be told is
  decided when it recalls.
* `StoresProofs`: `MigrationsOnceAndFirst`, `BackupsAreSnapshots`, `RestoresGiveBack`,
  `BackupsAreListed`, with `StoreTypes`, for any number of requests,
  tenants, migrations and restarts. A store only gains commits, but for a
  restore: what an opener has checked stays checked (`Checked`) and an acknowledged row stays. A copy
  of the two files during which the database did not change is the state at one of the
  moments in between (`CopySound`, `Snapshot`), and an archive never changes. Only
  a restore which no other request came across leaves a store as the archive has
  it (`GivenBack`). An index written back from an earlier read
  misses only backups that came across (`Listing`).

`TypeOK` of `AgentLoop`, `Scheduler`, `AgentVersions`, `Deliveries`, `McpAccess`,
`Credentials` and `Stores` (in `Memory`, `Typed`) is proved and in no run; so is
`NoTurnLost`, as a run that implements `TurnLedger` loses no turn.

Every safety property of the runs that pass has its theorem. Only model-checked: liveness
(`InvocationsEnd`, `DueJobFires`), as fairness and ENABLED are beyond the provers.

## 5. Where the code differs from what it says

One divergence has a run: `loop_summary` shows that the stored summary enters the
LLM input only of the invocation that compacted (engine/agent_loop.rs:243), while
docs/architecture.md has every run work on it. These were met as well, and are in the
models as the code has them:

* A truncation stops at nine tenths of the *window* (compaction/truncator.rs:47), not at
  the threshold its comment names (:29), so that the next check compacts again.
* Two overlapping summarisations read the same stored summary; the later write drops
  what the earlier had added (compaction/engine.rs:68, :143). The archive has it still.
* A summarisation whose read of the stored summary fails takes it for absent and overwrites
  it (compaction/engine.rs:342, :143). The archive has the turns still.
* A one-time job that is turned into a cron job between the scan's SELECT and its UPDATE
  is disabled by that scan (engine/scheduler.rs:138).
* The dedup map is keyed by the delivery id alone and the table is the tenant's
  (engine/dedup.rs:42, :56): until the next restart, a tenant's first delivery is a duplicate when another
  tenant has had that id. docs/architecture.md says that tenants are isolated.
* An authorization code is kept in the column of the access token (server/mcp/auth.rs:333): until it is
  exchanged it opens sessions (server/mcp/session.rs:23), and an access token can be exchanged like
  a code (auth.rs:498). A refresh checks the identity only if it can be read (auth.rs:694).
* Neither OAuth callback looks at the provider of the authorization that the state token names: `/oauth/callback`
  completes a Slack installation and stores `oauth_slack_slack-install` (server/oauth/mod.rs:46), Slack's
  completes one that a run waits for without resuming it (server/slack/auth.rs:217).
* The promotion of a memory looks it up as the *empty* user (engine/memory.rs:94), so
  that only an entry of that user, or one that is the tenant's already, is found. It then writes over what the tenant's scope has
  under the key, be it newer (:114), and what is written later in the old place stays archived.
* A backup writes a file's size and streams it while requests commit (server/admin_api/backups.rs:327); a
  restore empties each file before it fills it, and leaves it empty when it fails (:403). A restore overwrites
  the master key on disk (:178) and not the one in memory.
* The command line offers the credential kind `oauth2` (cli/credential.rs:35) and the
  Slack installation creates one (server/slack/auth.rs:307); the table's CHECK lets in
  `static` and `delegated_user_token` only (store/tenant.rs:121), so that both fail.
* docs/architecture.md has memories loaded "scoped per the agent's scope_mode" and
  speaks of expiry policies: the read ignores the mode, and no memory expires.

## 6. What the properties leave out

* `DueJobFires` holds for jobs that have their agent to themselves; with a shared agent
  the order within a scan decides, and a job may be passed over at every scan.
* `OncePerPeriod` allows a job one more firing for each time it was resumed or updated: these
  handlers write an instant computed earlier and may bring back one that has fired. It also
  assumes that no statement fails: the error of the scan's UPDATE is ignored, and the job fires again.
* `SummaryOnlyForArchived` does not say that the summary stands for *everything* in the archive: with two
  compactions at a time the later write drops what the earlier had added (section 5).
* `IndexFollowsAppend`, `ToolPairsTogether` and `CompactedContextComplete` are about
  invocations that come one after another. With two at a time each is violated: both may
  append with the index that was the highest plus one, a result may be put away from its
  call by the other's turns, and the later summary drops what the earlier had added.
* A failure between the two turns of a tool call leaves a call without its result.
* `AtMostOnce` excepts inbound events whose check failed: they go on unchecked, by
  design (server/events.rs:59). Nothing says *at least* once: a delivery is recorded
  before it is run, so that a failure after it is final and a retry is a duplicate.
* `DeletedStaysDeleted` excepts an update that read the agent before the deletion: it
  brings the agent back as a new version.
* `SpentOnce`, `AnsweredOnce`: two requests that overlap may both get through, since a read
  and its write are two statements. The properties say that nothing else lets them.
* `CompletedMeansStored`: a failure before the completion costs the user the provider's
  code; the request stays open.
* `CompletedMeansStored` names the credential after the callback that answered; that it is not always the one the
  authorization was for is listed in section 5.
* `SpentOnce` leaves a code its sessions until it is exchanged. `RevocationReaches` excepts a registration whose own
  UPDATE failed, which the code ignores, and says nothing of one that a racing submission creates after
  the list: its sessions are refused by the status of the identity alone.
* `RefusedWasRecorded` admits another tenant's record since the last restart (section 5).
* `WrittenIsKnown` excepts the agent, scope and key that a promotion copied from: the upsert
  leaves them archived, and the value is never read. In the tenant's scope it admits the value a promotion put there, which
  may be older than the one it replaced. That takes five requests (a private run, new settings, a shared run, the
  promotion, a reader), one more than the run `memory` has; the theorem has no such bound.
* `PrivateStaysPrivate` excepts values that a promotion copied, which is what a promotion is for.
* `PatchStays` is about a patch and what does not overlap it: overlapping patches and resets do undo each other's
  settings, as the code reads, merges and writes a whole row.
* `DueJobFires` excepts what an admin withdraws or reschedules, and the job in the scan's hand at a
  restart, whose row was advanced before its task existed: at most once is what that order gives.
* `BackupIsSnapshot` speaks of backups during which the database stayed as it was and neither file
  grew while it was read: a checkpoint between the two copies may leave a commit out of both, and a file that changes
  under the copy may spoil the archive. `RestoredIsArchive`
  speaks of stores that nobody uses during the restore and that have no log the archive
  lacks. Nothing in the code sees to either.
* `BackupListed` excepts backups indexed at the same time, and a failure that leaves the
  index empty.

## 7. Not modelled

The master key that backups contain and restores overwrite, and what opens with it: rows written
until the restart and the secrets of all other tenants are sealed with the key that is gone from disk. The LLM providers (SSE parsing and HTTP), the vault's cryptography, the CLI with its
terminal user interface, and the build and install scripts hold no state of the
system's own. The token counter is arithmetic on text, the indicator and the reports
are wording. Admin tokens and reflection reports are rows written by one statement
and read by nothing that depends on their order. The backup of an instance copies the
platform's database under the process's open connection; what that yields is a
question about SQLite's files that the code leaves open. Expiry of dedup entries,
`try_refresh_token`, `pause_for_oauth`, the sweep of workflows and the restoration or
deletion of single memories have no caller. A composition of `Deliveries` with
`AgentLoop` adds no interleaving that `loop_overlap` does not have: a thread's messages
are invocations of one conversation there.

## 8. Plan

The modules are written, and every safety property that a run checks has its theorem. What
is left are the hazards of PROJECT.json that no property covers and the parts of section 7.
