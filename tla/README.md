# A TLA+ model of wevibe-mcp

wevibe-mcp runs beside a coding agent. It serves memories of an organisation to
the agent (recall), extracts new ones from the agent's sessions, reports back to
the organisation's hub how memories fared (serves, outcomes, denials), and keeps a
tamper-evident record of work towards a sealed goal (GSTV). Each editor window runs
one Node.js process: handlers interleave at every `await`, state lives in small files
under `~/.wevibe` and in the repository's `.wevibe` directory, which the processes
share, and a process may be killed at any point, because the editor owns it.

These modules model that: what interleaves, what is on disk when, what a crash
leaves, what a lost answer does. Cryptography, text, and scoring are left out.

Paths below are relative to the repository root.

## 1. Inventory

| Component (code) | State | Operations | Interacts with | What is hard |
|---|---|---|---|---|
| GSTV spool (`src/gstv/spool.ts`) | one JSONL file per spool directory, offsets in memory and in `spool-offsets.json` | poll, parse, advance, save offsets, start, rotation | the editor plugin writes the files; rows go to `GstvEngine.ingest` | partial last row, crash between poll and save and handling, failed saves, truncation |
| GSTV engine, chain, predicate (`src/gstv/engine.ts`, `chain.ts`, `predicate.ts`, `walk.ts`) | `chain.jsonl`, `manifest-head.json`, `observations.jsonl`, `closed.json`, attached sessions, recent events, promise queue | attach, detach, tool, edit and watcher events, predicate and boundary runs, close | spool events in; working tree read; measurement started at the close | writes of four files with crashes between them; two sessions; tree changing while a handler waits; torn appends |
| GSTV measurement (`src/gstv/unlock.ts`, `receipts.ts`, `episodes.ts`) | receipt files, `episodes.jsonl`, `extraction-unlock.json` | predicate receipt, negative receipts, load episodes, append episodes, write unlock | called by the engine's close; extraction appends episodes | one-second deadline per receipt that cancels nothing; concurrent appends |
| GSTV goals (`src/gstv/store.ts`, `routes.ts`) | `seal.json`, signals | seal, list, status | engine reads the open goal | choice of the open goal; pure parsing |
| Denial queue (`src/denial-queue.ts`) | `pending-denials.json` | add, flush | http-server starts flushes (denial, recall, 60 s timer); hub | overlapping flushes, lost replies, unsignable entries |
| Serves and outcomes (`src/serve-ref-store.ts`, `http-server.ts`) | `pending-serve-refs.json` | record, take, restore | `/v1/serves`, outcome events; hub | concurrent outcomes, epoch changes, failures between take and post |
| Extraction jobs (`src/extract-jobs.ts`, `http-server.ts`) | map of jobs, `<job>.json`, runs | create, run, progress, park, resume, settle, list | client polls; runs the extraction | stale workers of a failed run, resume racing itself, restart, failed writes |
| Extraction (`src/extraction.ts`, `llm-openai-compat.ts`, `llm-timeouts.ts`) | slices, workers, calls, answers, all in memory | plan, take a slice, call with attempts and weaker formats, merge | model servers; the job around it | slices that overlap, answers out of order, nested retries and timers, answers cut short |
| Providers and catalogs (`src/llm*.ts`, `openrouter-catalog.ts`, `orcarouter.ts`) | catalog caches | choose a provider, look up its window | extraction | none that lasts: a lookup is a request and a cache |
| Hub access (`src/hub-resolver.ts`, `hub-fetch.ts`, `identity-sidecar.ts`) | `identity.json` | resolve orgs, read, patch, verified fetch | chain REST, hubs, admin CLI (another process) | lost updates between processes; stale keys |
| Org setup and key custody (`src/http-server.ts`, `org-client.ts`, `key-store.ts`, `auth.ts`, `identity-runtime.ts`, `vault.ts`, `pending-vault.ts`) | `keys.json`, the keychain's identity, vault, pending-vault entries; caches and pending setups in memory | setup, finalize, createOrg, provision, register, submit, recover, import an identity | dashboard, hub, keychain, commands (other processes) | whole-file rewrites by several processes, keys made when first needed, time limit and restart between setup and finalize |
| Server processes, port and session token (`src/server.ts`, `http-server.ts`, `session-token.ts`) | port, token file, a spool consumer and an engine in the process that has the port | start, listen, write the token, shut down, end | all of the above, and each other | several processes: a token in two steps, a handover in which the old runtime still runs |
| Recall and retrieval, org client, moderation, contribution | caches | requests to the hub | hub, embedding | mostly request and reply |
| CLI, MCP tool table, logging | none | | | input and output |
| Cryptography, embeddings, `mc1` | none | pure functions | | out of TLC's reach |

`PROJECT.json` lists each with its status, and under "hazards" what is hard to test
in it, line by line.

## 2. Modules

| Module | Models | Abstract view or composition |
|---|---|---|
| `GstvSpool` | the spool consumer and its restart | the engine's queue is `queue`, its handlers the history `handled` |
| `GstvEngine` | the promise queue, every handler, the four files of one goal | `Measure` is one step here, and the whole of `GstvClose` |
| `GstvClose` | the measurement with its receipts, against extraction requests | refines what `Measure` leaves open |
| `Outbox` | abstract: messages are taken in, held, and released once they reached the other side | |
| `DenialQueue` | the queue file, overlapping flushes, hub and network | implements `Outbox` |
| `ServeOutcome` | serve and outcome handlers, the store between them | |
| `ChunkRun` | abstract: chunks are taken and told once each, the first that fails makes the run fail, and it succeeds with all of them told | |
| `ExtractJobs` | job records and files, runs, workers, resume | each run implements `ChunkRun`; a chunk is a step here, and a slice of `Extraction` |
| `Extraction` | one extraction: planning of the slices, the workers, a call with its retries, the merge | implements `ChunkRun`, with slices for chunks: what a run of `ExtractJobs` does |
| `HubAccess` | identity.json shared by the server, resolutions and other commands; recalls with their failover; the record on the chain | |
| `KeyCustody` | the keystore shared by the server and commands, the identity, org setup in both ways, PRE registration, submissions, recovery | |
| `Instances` | several server processes: start, port, token file, shutdown, and their two runtimes on one spool and one chain | `GstvSpool` and `GstvEngine` have one process at a time; this module shows when that is so |
| `*Proofs` | the theorems about a module, checked by TLAPS | |
| `MC_*` | the small instance TLC checks | |

How the state and the actions correspond to the code is in `PROJECT.json` ("map"),
definition by definition. The points a reader should know:

**GstvSpool.** A poll (`safePollOnce`) is several actions, `BeginPoll`, `ReadSpool`
for each directory, `TakeLine` for each row, `EndPoll` which saves the offsets, and
the process may die between any two. Offsets are counted in rows instead of bytes;
the unfinished last row is a row of the form "partial". `MemOff` advances when a
directory is read, the file only when the poll ends. A handler runs between polls
only (the poll is synchronous in the code; the promise queue needs the event loop).

**GstvEngine.** `events` numbers the events as their handlers start, and the number
stands for the event's timestamp and for the hash of its link. A handler is a
sequence of steps with its local variables in `work`: walk and choose the base of
the diff, find the chain's head, append, save the manifest head, match the
predicate files, append an observation, close, measure. Steps between two awaits
that touch no shared file are one step. Every read and write of a handler may fail:
`ingest` catches the error, so the handler is over (`Throws`) while the session stays
attached, what was written stays written, and the same process takes the next event;
`failed` is the history of that. A read whose failure the code answers with a default
(the manifest head, a predicate file, the counts of the measurement) lets the handler go
on with it. An append may be cut short by the failure or by a death of the process: it
leaves nothing, a part of the line ("torn": every later read throws), or the line without
its newline ("open": readable until the next append is written on the same line). Only
one handler runs at a time (the promise queue), which is a guard of the actions
(`QueueFree`), and the theorems show what depends on it.

**GstvClose.** A receipt writer is put in `inflight` and is awaited; `Lands`,
`TimesOut` race. A writer that timed out stays in `inflight` and may still land at
any later time. Before it signs, a writer looks the seed up (`LooksUp`), and the keychain
may prompt the user. `Entry.getPassword()` is synchronous, so while `prompt` holds nothing
of the process runs, the one-second timer included (`Running` is a guard of every step
but `Answered`, the session's own progress and `Dies`). An index that cannot be read ends
the measurement without a record ("failed"), a closing manifest that cannot be read drops
the negative receipts, and both are `LoadEpisodes`. An extraction request computes its rows from the session as it is
when it begins, and appends them later. `Dies` is a crash of the process: the writers
and requests under way go with it, and what is on disk stays.

**DenialQueue.** `BeginFlush` takes the snapshot, `Post`, `GetReply` and
`SkipUnsigned` go through it, `EndFlush` reads the file again and removes what was
answered. The hub's side is in the model: it may accept, refuse, and its answer may
be lost; a request nobody waits for may still arrive. A denial that cannot be
signed (no org key on this machine) is passed over. A 4xx that arrives for a denial
removes it too; the file keeps only what the hub might still take. The rewrite in
`EndFlush` may throw, which the caller only logs: everything the flush got answers for
stays in the file and is posted again.

**ServeOutcome.** `Recorded` is the store's rule that a memo of an older epoch does
not replace a newer one. An outcome call checks, takes the memo, signs and
derives, posts, and either forgets or restores it. The steps between taking and
posting may fail, which the code does not undo.

**ExtractJobs.** `mem` and `disk` are the job's two copies; every update writes the
file in place and goes on when the write fails. Each run keeps its own workers;
the first chunk to fail ends the run (`Promise.all`), while the other workers go on
and report progress to whatever the job has become.

**Extraction.** Positions count characters. What the code cannot know, what a reader
should find in the transcript, is in the model: `at` and `Size` give each discovery's
span, and the model that is called (external) is taken to tell every discovery that its
slice has whole, in some wording, unless its answer is cut short. `planChunkSlices` is
the loop of `PlanSlice`; `runBounded` is `Take`; one call is in `call`, with the attempt
and the place in the list of formats, and each way it can go on is an action: `Tells`,
`RefusesFormat` (the next format, in the same attempt), `Setback` (another attempt after
a backoff, from the first format again), `Refuses`. A stream that ends early, an answer
that met the token limit and one that does not parse are taken by the code for whole
answers, so all are the case of `Tells` in which less is told than was found; `cut`
remembers it. The first failure settles the extraction, and the calls that are out go
on. The merge reads the answers in the order of the slices (`source` and `taken` say how
far) and drops what is alike to the letter, as the code does only when there were
several slices. The code does this without a pause and so does nothing else meanwhile;
the model takes one memory at a time (`MergeNext`), because the loop of
`dedupeOverlapCandidatesByExtractionHash` can be reasoned about step by step, and a
recursive definition of its result could not.

**ChunkRun.** What `ExtractJobs` and `Extraction` have in common, as the numbers of
chunks that are left, at work and told. `ExtractJobs` leaves out what a chunk is, and
`Extraction` the job's record; that both implement `ChunkRun` is what allows a run of the
one to be read as the other. It has two endings that only one of them takes: `Reject` is
`Extraction`'s merge that throws after every slice was told, and `Die` the restart of
`ExtractJobs`.

**Instances.** `owner` has the port. `main` is how far `main()` has come: the token is
read at the start, the port is taken or found busy (and never tried again), the token
file is emptied (`OpenTokenFile`) and written. `Shutdown` frees the port and begins the
three seconds after which `Exit` ends the process; the runtime goes on meanwhile, since
nothing calls `stopGstvRuntime`. The spool is one file of good rows, and a handler reads
the chain's head and then appends one link: enough to see what two runtimes do to each
other, and no more. `overlapped` and `writer` are history variables.

**HubAccess.** `sidecar` is identity.json: the state of one org, as the version of
the chain's record it was copied from and its active endpoint, and one other field.
An update is `BeginWrite` (read and patch the orgs), `ReadRest` (read the file again
for the rest) and `Rename`; the server makes all three without a pause (`Goes` holds
up every other step of the server meanwhile), but other processes get in between. A
recall asks for the hub's key once (`hubKey` is the cached promise), loads the
memberships, and then sends its requests: for the org's keys (of HUB_URL) and its
keywords (of the active endpoint) once, going on with what it has whatever comes
(`AskOnce`), then its query and its memories, of which a wrong signature leads to one
`Switch` per request. The failover notes its choice in the sidecar before it asks again;
if that write fails, it throws and the request is over (`WriteFails`): a query ends the
recall, a memory is left out. A resolution is a process of its own. Everything
the properties except is a history variable that says it happened: `overlap` (two
updates at once), `raced` (a list replaced under a failover), `crossed` (two
resolutions at once), `stale` (recalls that ran while the sidecar was behind), `unnoted`
(recalls whose failover could not be written).

**KeyCustody.** An org, a key and an identity are named by the call that made them.
`file` is what keys.json reads as: an update is `BeginPut` (the file is read),
`OpenFile` (it is cut, and reads as empty) and `WriteFile`; a process makes all three
without a pause (`At` holds up its other calls), but other processes get in between.
The machine seed the file is encrypted under is made in the first update and is part
of it. `call` says where each call is; `Stored` says where it goes on when its key is
written, so that `persistOrgKeys` is the steps "master" and "mod". The identity is
the keychain's item (with the file backend it would be one more key in the file). A
dashboard that was given keys stays at "given" or "created" whatever happens to the
server. What the properties except is recorded in history variables: `clash`,
`broken`, `twice`, `twin`, `replaced`, `dropped`. The user of `recover-org` is taken
to give the phrase of the right org, which the command does not check.

## 3. Runs

All runs take between 2 s and 3 min with two workers. Every safety invariant and action
property that a run checks is also a theorem of section 4. The type invariants are
theorems too, and only one of them is checked by a run as well (`key_custody`).

| Run | Instance | What it shows |
|---|---|---|
| `spool` | 2 spools with 2 and 1 rows, 1 crash, 1 fault, 1 truncation per file | Rows are handled in order and at most once as long as no offset file fails; no row of an untruncated file is stepped over; while the process lives every row is handled |
| `engine` | 2 sessions, 3 trees (sealed, changed code, changed predicate files), 3 events, 1 edit, 1 mishap: a crash, or a read or write of a handler that fails | The whole lines of the chain are linked one to the next, and the file can be read back unless an append was cut short; a close record is earned by a recorded green run on sealed files and counts exactly what came before; what the unlock record does not disclose as unread agrees with it; gap links mark exactly the changes nobody saw; other links come after the head check unless the session's attach failed; a diff is taken from the tree of the link before, within one life of the process, unless that link's manifest head was not saved or could not be read; a green run unlocks, unless the process dies, an append was cut short, or a record cannot be made |
| `engine_stamp` | the same, without mishaps | Finding 1 below |
| `close` | 2 episodes, one with a file that is still there; 2 extraction requests, 1 failed read or write, any prompts | Cited receipts exist; receipts that came late are disclosed; the measurement ends though a writer hangs, with a record unless something failed, as long as no keychain prompt stays open for ever |
| `close_negative` | the same | Finding 2 below |
| `denials` | 3 denials of which one cannot be signed, 2 flushes, 1 lost reply, 1 mishap: a crash or a failed rewrite of the file | No denial is lost; duplicates come only from overlapping flushes, lost replies, crashes or failed rewrites; one that cannot be signed holds up no other; the queue implements `Outbox` |
| `serve_outcome` | 2 episodes, 2 serves, 3 outcome calls, 2 epochs, 1 crash, 1 lost answer, 1 failure | An outcome is paired with a serve recorded for its episode; a serve is claimed at most once unless an answer is lost; the newest serve stays available until it is claimed |
| `hub_access` | 2 recalls, 2 resolutions, another command; 3 hubs of which one lies; the record changes once; 1 failed request or write, 1 restart | Updates of the sidecar that do not overlap lose nothing; the active endpoint is one that is listed unless the list was replaced under a failover; an older record comes back only through overlapping resolutions or updates; one lying hub costs a recall neither its query nor a memory unless the sidecar is behind the chain or the failover cannot be written to it |
| `key_custody` | 10 calls of seven kinds in 5 processes: any two together, and ten sets of three or four; 1 failed write, lost answer or kill | What others rely on (keys of acknowledged orgs, the PRE key at the hub, the device key of entries) stays in the keystore unless processes overlap or a write is cut; the keys of an org at the hub are stored or can still be, unless named causes; orgs have the leader that asked |
| `extract_jobs` | 1 job of 4 chunks, 2 workers, 3 runs, 2 crashes, 2 failed writes | A running job has exactly one run; the status a client sees only moves along the documented path; every run does what `ChunkRun` says; every run settles its job |
| `extraction` | transcripts of 5 and 8 characters, room for 0, 2, 4 and 5, an overlap of 2; 2 discoveries of 2 and 3 characters anywhere, 2 wordings; 2 workers, 3 attempts, 2 formats | The slices cover the transcript and what straddles a cut; what a slice had whole is in the result unless every such answer was cut short; the memories are what was told, once, in order; the extraction implements `ChunkRun`; every extraction ends and leaves no call behind |
| `instances` | 2 processes, 2 rows, 1 failed write of the token | Clients find the token of the process that has the port, unless a stopping process wrote last; the spool and the chain have one writer, but for the moments when one process is stopping; every row becomes a link, or went down with a process or a forked chain |

**Why the bounds are enough.** Each bound is a CONSTANT named in its module and
given in the cfg. One crash and one fault suffice where a property speaks of one
("unless a crash..."), because nothing but the files survives a crash and a second
one begins from a state the first can reach; where two are needed to break a
property (`StatusFlow`: a failed write and a restart) the run has two of each. In
`engine` and `denials` one mishap of either kind is allowed (`MaxMishaps` bounds deaths and
failures together); the safety properties are theorems for any number. Two
sessions, flushes or serves are the fewest that interleave; three outcome calls
give one that took a memo, one that put it back and one that pairs with it again;
three events allow attach, run, and a later event in the same chain; three runs of
a job let a worker be two runs late. Two rows in a spool show reordering, a second
spool shows a crash between two reads of one poll. Four chunks for two workers are
the fewest for which the worker that is left finds chunks waiting. Jobs share
nothing but the process, and so one job is checked. In `hub_access` the new record
drops one hub, keeps the lying one and adds another, so that an endpoint can be
unlisted, a key outdated, and a failover still have a choice. In `key_custody` calls
meet only in the keystore, the identity, the caches and the pending setups, and two
calls are enough to race over each; the sets of three and four are those in which a
third call uses what two others raced over. One mishap is enough since each
exception names one. In `extraction` the two rooms above the overlap give plans of two
and of three slices with every remainder, the room equal to the overlap the plan
without one, and no room the failure; a discovery of the overlap's length and one
longer lie at every position. Three attempts are the code's own, two formats the
fewest that begin anew. In `instances` two processes are the fewest that hand over; the
theorems are for any number.

**Deadlock** is checked where the program has always something to do (`spool`,
`denials`, `extract_jobs`), and in `extraction`, where `Over` says that it may stop only
when it has settled and no call is out. In the others the system really stops: all events,
calls and edits that the bounds allow were made (in `hub_access` and `key_custody`,
each call once), or all processes are gone (`instances`).

**Symmetry** is used in `serve_outcome` (episodes, serves and outcome calls are
interchangeable), in `hub_access` (recalls and resolutions are) and in `key_custody`
(submissions and recalls are); none has a liveness property.

**Fairness.** Weak fairness of steps that the event loop takes once it has begun:
the handler's next step (`engine`), the poll timer and the steps of a poll
(`spool`), the flush timer, the steps of a flush and the hub's answer to a request
that stays out (`denials`: the bounds on lost replies and mishaps stand for an outage or
a full disk that ends), timers and steps of the measurement but never the
receipt writers nor the user's answer to a prompt (`close`: the timers are enabled only
while the event loop turns, and `[]<>~prompt` is a premise of `MeasurementEnds`), the steps of a run (`extract_jobs`; each await has a
timeout in the code), the planning, the workers' steps and the outcome of a call
(`extraction`; two timers bound each request and one each backoff), the steps of
`main`, the end of a process told to stop, its polls and saves (`instances`). Strong
fairness is used for `Handle` of `GstvSpool` and of `Instances` alone: a poll
disables it, and the event loop runs ready promise jobs before the next timer.
Nothing is assumed of starting and stopping processes, of the plugin or of the user;
`RowsAreHandled` has as its premise that one process keeps the port.

### Findings

1. `engine_stamp`. `src/gstv/predicate.ts:247-250` says no boundary run is needed
   if and only if the newest observation is strictly later than the last state
   change. The code compares with the last link of any kind. A run that observes
   the predicate appends a link with the same timestamp, and so never clears the
   stamp.
2. `close_negative`. A negative receipt states that the attempt's cited files are
   absent from the closing manifest (`src/gstv/receipts.ts:214-215`). The index
   rows carry no field from which cited files are derived
   (`src/gstv/episodes.ts:114-129`), so the check passes vacuously and receipts are
   written for attempts whose files are there.

Smaller observations, which the models keep; where a property meets one, it is named:

- `src/gstv/engine.ts:56-58` says that a crash between appending a link and writing
  `manifest-head.json` leaves the head missing, and the next diff is taken from
  nothing, with a warning. From the second link on, the crash leaves the file of the
  link before: the next diff is taken from an older tree, silently
  (`DiffBaseIsPrevious` speaks of one life of the process). When the write fails and the
  process lives on, so does the next diff of the same life (excepted there by `failed`). Gap marking is not affected
  (`GapsMarkUnseenChange` is proved), since it compares with the chain's head.
- `src/gstv/engine.ts:38` says that the single writer cannot race. Nothing calls
  `stopGstvRuntime` (`src/gstv/routes.ts:69`), so in a handover of the port two
  runtimes overlap for up to three seconds: the chain may fork or get a row twice
  (`overlapped` in `OneWriter`), and after a fork every `readChain` throws.
- A server whose one write of the token fails has its API up with a token no client can
  know; a server that found the port busy never tries again (`Instances`).
- `src/extraction.ts:65-66` says that what straddles a cut is whole in one of the
  slices. With no more room than `OVERLAP_CHARS` the planning gives up the overlap
  (`Stretch` in `PlanCovers`).
- A model's answer that was cut short (the stream ended, `finish_reason` is "length", or
  it does not parse) is taken as whole, and the job succeeds with what came
  (`cut` in `NothingIsMissed`).
- `src/identity-runtime.ts:27` says that `registrationDone` is reset on error.
  `registerPrePubkey` returns its failures and throws none
  (`src/org-client.ts:242-251`), and `ensureIdentity` does not look at what it returns:
  after one transient failure the PRE key stays unregistered for as long as the process
  lives (`KeyCustody` keeps it so).
- A denial the hub answered with a 4xx, unsigned, by a hub whose key is known:
  verification throws first, and the denial is kept, contrary to the comment on
  permanent refusals.
- Any green predicate run closes the goal, also one with another command than the
  sealed one: the boundary handler compares the files, not the command.
- `attached` is updated before the walk of the attach: if that walk, the read of the chain
  or the append of the attach link fails, later events of the session are linked without a
  check against the head (the exception in `HeadCheckFirst`).
- A chain whose last line was cut short is read no more: every handler throws at `Locate`,
  a later green run closes nothing, and nothing repairs the file (`chainEnd` in
  `ChainReadable` and `GreenUnlocks`). A goal whose unlock record could not be written is
  closed for good and is not measured again (`failed` in `GreenUnlocks`).
- After a failed rewrite of `pending-denials.json` the hub gets again what it has answered
  (`failures` in `DuplicatesHaveACause`).
- A failover that cannot be noted in the sidecar is given up, though an honest endpoint was
  found (`unnoted` in `OneLiarIsSurvived`); the org's keys and keywords have no failover.
- The one-second deadline of a receipt is no deadline for a keychain prompt, which stops the
  event loop (`prompt` in `MeasurementEnds`).
- A memo taken from the serve store is not put back when deriving the key or
  signing fails (the preconditions of `NewestKept`).
- After a restart a job that was running is read from its file as running, and
  nothing ever runs it (`Adopted` in `RunningMeansOneRun`).
- A worker of a failed run overwrites the progress of the resumed run.
- The comment on `renameSync` (`src/identity-sidecar.ts:113`), "safe across
  concurrent writers", holds for torn files only: the reads before the rename are not
  guarded, and an update of another process can be lost (`SidecarAsIfAtomic` excepts
  overlapping updates; without the exception TLC finds the lost one).
- The key HUB_URL reports of itself is cached for good
  (`hubResponsePubkeyCache`, `src/org-client.ts:272`). Once it is changed every recall
  fails at its memberships until the server is restarted.
- A failover goes to any endpoint but the one that just failed. With two lying hubs of
  three it may go back and forth between them; no endpoint is marked bad, although the
  title of the test in `tests/hub-fetch.test.ts:172` says so.
- The one caller of `resolveAllOrgsOnce` passes `includeMembershipBootstrap: false`, so
  that nothing in this version puts the first org into the sidecar; until one is there
  answers are not verified (`Verified` lets a missing key pass).
- `createOrg` has the org's only master key in memory while the hub is making the
  org. If the hub's answer is lost, or storing fails, or the process dies, the org
  exists and its master key nowhere: the recovery phrase is shown only afterwards, from
  the keystore (`dropped` in `KeysSomewhere`). In the dashboard's way the phrase is
  handed out before the org exists.
- A keys.json that cannot be read or decrypted is taken for empty, and the next key
  stored replaces it (`broken` and `clash` in `KeysKept`).
- `getDeviceKey`, unlike the PRE identity, does not share the key being made: two first
  submissions at once leave an entry that cannot be opened (`twice`).
- The loop that makes a PRE identity catches failed writes with invalid scalars
  (`src/auth.ts:49`), and tries again at once and without end: if the keystore cannot be
  written, the event loop gets no further. The model's `PutFails` keeps such a call
  where it is.
- Two calls that find no identity and make one each leave a setup whose identity check
  passed signed by the other identity (`twin` in `LeadersKnown`).
- `loadPendingDek` and `listPending` have no caller in `src/`.
- The branch of the HTTP server that parks a job at its preflight (for a window
  without providers) is dead, since the catalog never returns such a window.

## 4. Theorems

All are proved for every value of the constants that satisfies the module's
assumptions (finite sets of spools, sessions, hubs, episodes, discoveries and workers, `None` and
its like outside the data, natural numbers as bounds). The crash, fault and loss bounds
are arbitrary, so they bound nothing. Where a module of proofs is about two modules
(`GstvEngineProofs`, `ExtractionProofs`), the definitions of the second have names of
their own (`CloseInit`, `ExtractionInit`), since both are extended.

| Module | Theorems | Argument |
|---|---|---|
| `GstvSpoolProofs` | `TypeCorrect`, `DeliveryCorrect`, `SkippingCorrect` | In-order, at-most-once delivery is not inductive. The invariant adds that what a poll would find beyond the offset, in memory or (after a restart) on disk, is newer than everything handed on (`MemoryAhead`, `DiskAhead`), and that both offsets agree when no poll is in progress: offsets are on disk before the first handler runs. `Passed`: what either offset has passed was handed on; only for the one in memory may a row still be in hand |
| `GstvEngineProofs` | `Invariant`, `TypeCorrect`, `ChainCorrect`, `GapsCorrect`, `UnlockCorrect`, `CloseCorrect`, `EarnedCorrect`, `BaseCorrect`, `HeadCheckCorrect` | The promise queue gives `Serial`, at most one handler under way. `HandlerFacts` then says, for each point of a handler, what it has read and that it still holds: the head it located is the head when it appends; the chain the close record counted is the one the measurement reads. On this rest `Earned` (whoever is about to close has recorded the green run, last), `BaseInv` (manifest-head.json lags behind the head only while a save is pending, or when the head's own save failed, or when the head is from an earlier life of the process) and `CheckInv` (an attached session has its attach link, or it is being written, or an attach of the session failed in this life, or the chain is torn and takes none). A step that fails only adds to `failed` and ends the handler, so each of these has a case of its own for it |
| `DenialQueueProofs` | `Invariant`, `TypeCorrect`, `NothingLostCorrect`, `ImplementsOutbox`, `DuplicatesCorrect` | `Answered`: what a flush counts as done the hub has dealt with, whatever other flushes do. `EndFlush` therefore releases only reached denials; every step maps to a step of `Outbox` or to a stutter. `Tidy`: while nothing went wrong (no overlap, loss, crash or failed rewrite) there is one flush at most, and it remembers what the hub took |
| `HubAccessProofs` | `Invariant`, `TypeCorrect`, `SidecarCorrect`, `ActiveCorrect`, `NeverOlderCorrect`, `SurvivalCorrect` | `Undisturbed`: as long as no updates overlapped, the one in progress will write its patch of the file as it is now. `Listing`: a failover that is probing chooses among what the sidecar lists. `NotBehind`, `Alone`: without crossing resolutions whatever a resolution holds is at least as new as the sidecar. `Honest`: of a recall the chain has not overtaken, what a failover may choose is not the one hub that lies, so that its second answer verifies; a recall is refused at a second answer, or for want of a choice, or when its failover is not written, and the last puts it in `unnoted` (`Excused`) |
| `GstvEngineProofs`, about `GstvClose` | `CloseInvariant`, `CloseTypeCorrect`, `ReceiptsBackTheRecord`, `LateReceiptsDisclosed` | `Accounts`: while the measurement goes on, what it cites is on disk, what is on disk is cited or was given up (and then is a gap), and what is still being written is awaited or was given up. The timer moves a receipt from awaited to gap in one step, so a late writer can only make a gap's receipt appear. Once written, the record repeats what the lists said (`RecordHolds`), whatever lands afterwards |
| `KeyCustodyProofs` | `TypeCorrect`, `OrgsAreLedByTheirMakers`, `KeysAreKept`, `NoOrgLosesItsKeys` | The file is no place to state what is kept, as it is empty during a write. `Keeps` says that there is a keystore `k`, which the file is or will be again and which whoever is writing has read (`IsKeystore`), and that `k` has the keys of each org by the step its maker is at (`OrgKeys`), the PRE key that all use (`PreKey`) and the device key of the entries (`DeviceKey`). A write that ends makes another `k` with one key more, and replaces none, because nobody makes a key that `k` has. For the leaders: one call at a time makes an identity (`OneSeed`), and a setup's verified identity is what the server remembers when it signs (`Asked`) |
| `ExtractionProofs`, about `ExtractJobs` | `Always`, `TypeCorrect`, `OneRunPerJob`, `ClientSeesTheFlow`, `RunsDoAsChunkRun` | A job that is worked on is in memory, and one that is only on disk is from an earlier process (`Known`); a run that works has a running job, and no other run of it works (`Works`), which is `RunningMeansOneRun` without counting; the file agrees with memory until a write fails (`Written`), so that only a failed write and a restart together take a client's status back. For `ChunkRun`, a step touches one run, and a restart ends all of them |
| `ExtractionProofs`, about `Extraction` | `ExtractionAlways`, `ExtractionTypeCorrect`, `PlanIsComplete`, `EveryDiscoveryIsShown`, `RequestsAreBounded`, `NoDiscoveryIsLost`, `ToldOnceInOrder`, `ExtractionDoesAsChunkRun` | The slices made so far leave nothing out before the cursor, and the overlap lies behind it (`Plans`); a discovery is a stretch, and a stretch no longer than the overlap lies in one slice. A slice that is taken is one worker's until it is answered, so an answer is written once and never over another (`Workings`); an answer that was not cut tells all its slice has whole (`Answers`). The merge has what it has read (`HasRead`), nothing else (`WasTold`), and in the order of first tellers (`InOrder`): a memory that is new to the result is in no answer read before, since all of those are in it. For `ChunkRun`, the slices are counted: as one is taken or answered, the sets of busy workers and of heard answers change by one element, the workers are finitely many, and no slice beyond the last is taken (`InBounds`) |
| `InstancesProofs` | `TypeCorrect`, `TokenIsShared`, `ChainHasOneWriter` | The process that has the port is alive and not stopping, and no runtime but the owner's belongs to a process that is not stopping. Without an overlap there is one runtime at most: its queue, offset and head agree with the chain, and what is saved is not before what was linked |
| `ServeOutcomeProofs` | `Invariant`, `TypeCorrect`, `PairedCorrect`, `ClaimedCorrect`, `NewestKeptCorrect` | Where a memo may come from (`StoreTrue`, `HeldTrue`), when a request is out (`Phases`), and that without lost answers a memo is in one place only, the store or one call (`Exclusive`) |

Only model-checked, on the instances of section 3:

- every liveness property (`EveryRowSettled`, `RowsAreHandled`, `GreenUnlocks`,
  `MeasurementEnds`, `SignableLeave`, `JobsSettle`, `ExtractionEnds`): they rest on
  fairness, hence on `ENABLED`, which the provers do not handle;
- the refutations of section 3.

No module that is proved about, nor one it extends, declares a `RECURSIVE` operator.

## 5. What is not modelled, and why

- Cryptography, embeddings and `mc1`: pure computation. Signatures are exact: a
  signed record is what was signed.
- The content of manifests, transcripts, memories and receipts: members of small
  sets. Sealed hash, state hash and link hash are the identity of what is hashed.
- Of recall and the org client only the requests, keys and failover (`HubAccess`) and
  what concerns keys (`KeyCustody`); their scoring and formatting are pure. Moderation
  and invitations are requests to the hub, which keeps all their state; nothing of it
  outlives the call here. Threshold recovery stores a master key as `Recover` does,
  from shares instead of a phrase.
- Provider choice and catalogs: a lookup that is cached, with no step that another
  could come between. Which provider a call goes to makes no difference to `Extraction`.
- Reading sessions (`session-db-substrate.ts` and the substrates): queries to the
  editor's database, which only the editor writes. Rendering of transcripts and
  segmentation into episodes: text.
- The choice of the open goal is a sort of the sealed goals; the engine's model has one
  goal. Unlocking after the measurement is a write of one file (`GstvClose`) that the
  next extraction reads.
- Keywords, file paths and the flags of near duplicates in the merge: none drops a
  memory.
- The CLI, the MCP tool table and the logger: input and output.
- The editor plugin, the hub, the chain and the model servers are external; they do what
  the code here expects, and the failures it handles.
- A `pending-denials.json` that cannot be read or parsed is taken for empty
  (`_readQueue`, `src/denial-queue.ts:39-45`), and an identity.json that cannot be read for
  absent (`src/identity-sidecar.ts:93-99`, `:128`); the next write then makes that final.
  Both files are replaced by a rename, so no crash of this code leaves them so. (For
  keys.json, which is written in place, it is in `KeyCustody`.)
- `KeyCustody`'s `Load` reads the identity in one step; behind the biometric setting the code
  awaits a prompt there (`src/key-store.ts:330-346`). What may come in between is what
  `twin` and the overlap of calls already stand for.
- A recall that cannot embed its query ends before it asks the hub: it takes nothing with it.
- `Instances` has one spool, without partial rows, truncation, failed offset writes or an
  append that is cut short; those are in `GstvSpool` and `GstvEngine`, with one process at
  a time. Other files that the processes
  share are in `HubAccess` (`identity.json`) and `KeyCustody` (`keys.json`).

## 6. What is left

The order of the work was the one of the table in section 2: what must not be lost
first (spool, engine, close, denials, serves), then what processes share (sidecar, keys,
port and token), then the extraction. What could follow is `Instances` with the engine's four files instead of
one link, to say what of a close record survives an overlap of two runtimes.
