# Transcriptor-AI in TLA+

Transcriptor-AI is a FastAPI process that transcribes audio on one GPU. Clients
reach it over HTTP (`POST /api/transcriptions`) or through MCP tools; results go
to PostgreSQL, bytes to two directories, and a background loop cleans up. The
process runs one event loop; blocking stages run in threads. What is hard in it
is not the straight path but what happens *between* awaits: timers and
cancellations that meet a result, two requests that name the same file, a sweep
that looks at a row another handler is about to change, a crash half-way.

All paths below are relative to `src/src/transcription_api/` unless they start
with `wiki/`.

## 1. Inventory

| Component | State it keeps | Operations | What makes it correct |
|---|---|---|---|
| GPU lock (`pipeline/orchestrator.py`) | the module-wide `_orchestrator_lock`: an `asyncio.Lock`, its deque of waiters, `_owner` | `acquire`, `release`, `orchestrate` under two `wait_for` timers, cancelled at any await | never leaked, never in two hands, no lost wake-up, first come first served, GPUBusy leaves nothing behind |
| Pipeline (`pipeline/orchestrator.py`, `api/transcriptions.py`) | the upload, the WAV, the threads, the flushed row | receive, normalise, look in the cache, stt, diarise, merge, put, INSERT, commit | one computation per audio, truthful answers, no audio left, always an answer |
| Audio upload session (`mcp/tools/upload.py`, `api/upload.py`, `mcp/tools/start.py`, `db/session.py`) | a row of `upload_sessions` and `uploads/<id>/` | request, POST, start | a consumed session is backed by a transcription; the whole file is transcribed |
| Sweep of upload sessions (`pipeline/cleanup.py`, `main.py`) | none between rounds | select, rmtree, update | what nobody came for is closed and leaves no bytes |
| Result cache (`pipeline/cache.py`, `pipeline/cleanup.py`) | `<user>/<hash>/result.json` | get, put, purge by TTL | a reader sees a whole entry or none; a purge deletes old entries only, and all of them in the end |
| Audio normalisation (`pipeline/normalize.py`) | the WAV while it is written | sniff, ffmpeg, ffprobe, hash | one gate whatever the upload's name; equal sound, equal cache key |
| Speaker merge, caps (`pipeline/merge.py`, `pipeline/diarize.py`) | none | pure functions | nearest speaker, at most N speakers |
| Speech to text (`pipeline/stt.py`) | the model | one call | - |
| Images and soft delete (`api/upload.py`, `mcp/tools/upload.py`, `mcp/tools/delete.py`, `mcp/lookup.py`) | `images`, `transcriptions.deleted_at`, image sessions, blobs | bind a session, store an image, soft-delete with cascade | a row has its bytes; parent and images go together |
| MCP bearers (`auth/mcp_bearer.py`, `auth/routes.py`, `mcp/middleware.py`) | `mcp_bearers` with a partial unique index | first login, regenerate, verify, bump `last_used_at` | exactly one active bearer, revoked only by its successor |
| OAuth login (`auth/routes.py`, `auth/oauth_client.py`) | the JWKS cache and its lock; state cookie | login, callback, exchange, forced refresh | keys fetched once, never back to older ones, good logins survive a rotation |
| Per-user scoping (`db/scoping.py`, `db/session.py`, `auth/dependencies.py`) | `session.info`, a context variable | arm, bypass block, listener, teardown | a handler is given its user's rows and no others |
| Lifespan, readiness (`main.py`, `runtime/readiness.py`, `mcp/runtime.py`) | model status, cleanup task, engine | start, serve, drain, tear down | nothing is taken down while it is in use; the teardown ends |
| Read tools and resources (`mcp/tools/*`, `mcp/resources.py`) | none | queries, clamping of limits | scoped like any statement |
| Configuration, error bodies | none | - | - |

How they interact: `post_transcription` and `start_transcription` both call
`orchestrate`, which is the only way to the GPU and holds the lock over the
cache lookup, the stages and the cache write. The orchestrator *flushes* the
Transcription row; its caller commits. `start_transcription` consumes the
session in the same transaction (`scoped_session`). `upload_audio`,
`start_transcription` and the sweep share a row and a directory with nothing
but the database's row locks between them: each reads the status in one
statement and writes it `WHERE id` in a later one. After a crash,
`_purge_orphan_uploads` deletes the files at the top of the uploads directory
and leaves the directories of sessions to the sweep. The loop that runs that
sweep also purges the result cache, in a thread, while pipelines put entries on
the event loop; it and the MCP tools live inside `lifespan`, which takes engine
and models down behind them. Every handler's statements pass the scoping
listener, whose verdict depends on what the request's session was told.

The hazards, each at its line and with the properties that cover it, are in
`PROJECT.json`.

## 2. Modules

```
GpuMutex            what the lock promises
   ^  refined by (checked and proved)
GpuLock             asyncio.Lock + wait_for + _OrchestrationLock + orchestrate
GpuMutex <- used by Pipeline       one HTTP request, threads, cache, files, row
GpuMutex <- used by UploadSession  session rows, directories, sweep, crash
ResultCache         what the cache promises
   ^  refined by (checked and proved)
CacheStore          the cache's files: get, put, purge, power cuts
Images              image sessions, image rows and blobs, soft delete
BearerRegister      what the bearers promise
   ^  refined by (checked and proved)
Bearers             accounts, logins, MCP bearers, on PostgreSQL's locks
Jwks                login and callback up to the identity, signing keys
Scoping             sessions, bypass blocks, the listener
   ^  extended by
Lifespan            start, loop, drain and teardown around Scoping's requests
Wav, Speakers       the pure parts of normalize, diarize and merge
*Proofs             theorems: one module for each of GpuLock, Pipeline (with Wav
                    and Speakers), UploadSession, Bearers, CacheStore (these
                    two with what they refine), Images, Jwks and Lifespan (with Scoping)
MC*                 instances for TLC (MCTranscript puts Wav and Speakers in one)
```

Definitions that a run's mutants put in the place of another (`CacheMissAlways`,
`AwaitsNothing`, ...) stand before the one they would replace and are used
nowhere else: each is a bug somebody could have written there.

### GpuMutex

`holder` and `busy` (whose pipeline task may still work), and Enter, Start,
Stop, Leave. Its guards are the promise: Enter needs a free lock, Start needs
that nobody else's pipeline is active. `Pipeline` and `UploadSession` take the
lock with these actions, and the refinement theorem is what entitles them to.

### GpuLock

One action is one turn of a task of the event loop. A request has up to three
tasks, because `asyncio.wait_for` (Python 3.11) runs what it waits for in a task
of its own: the caller in `orchestrate` (`pc`), the one in `acquire()` (`acq`)
and the pipeline's (`pipe`). `waiters`, `ahead` and `woken` are the deque of
`asyncio.Lock`: `ahead[w]` is who stands before `w`, `woken` whose future has its
result. `cancelled` holds acquire tasks told to cancel, so every race between a
timer, a cancellation and a wake-up is two actions in either order. The library
is marked external in the map.

A request's identity is reused when its tasks are gone, so the run is not a
finite story: three requests call for ever.

### Pipeline

`at` is where the request is (the name of the stage it awaits), `thread` the
thread of that stage, `abandoned` the threads nobody awaits any more: a timeout
cancels the future of `asyncio.to_thread`, not the call in it. An executor has
`Workers` threads. `raw`, `wav` and `cached` are what is on disk, `lookup` what
the cache answered a request, `row` the transcription (flushed, committed). A
file is there, gone or *leaked*: `unlink` may be refused, the code catches the
`OSError`, logs it and gives the answer it would have given (`Unlinked`;
`MaxLeaks` bounds how many files that happens to). A request cancelled while its
bytes come in ends `aborted`, with its upload on disk. `Audio` gives each
request its cache key: the cache is keyed by user *and* hash, so two requests
have one key when they are one user's and carry one audio. Both models are
loaded and the cache keeps its entries.

### UploadSession

Actions are what a handler does between two awaits or one SQL statement. A
POST: SELECT, the grace check, `open("wb")`, the end of the body, UPDATE and
COMMIT. A start: SELECT, grace check, lock, pipeline (reduced to what it reads
of the file), UPDATE, COMMIT. The sweep: SELECT, rmtree of each directory,
UPDATE. `RowLocked` is PostgreSQL's row lock, `late` the sessions past expiry
and grace (time is only that it passes), `writer` the stream that last opened
the file, so that one which was truncated or unlinked under its writer is never
called whole. The POSTs of one session are taken to carry the same file. A
COMMIT that is cancelled or crashed into may or may not have happened. A start's
WAV, which lies in the same directory, is Pipeline's subject and left out here.

### BearerRegister

`current` (an account's bearer), `retired`, `shown` (whose plaintext a client has),
and Replace, Show and Judge, which is one MCP request. Replace is one step, Show
needs a bearer the register knows, Judge looks at the register of one moment.

### Bearers

A row of `mcp_bearers` is named after the login or the regeneration that makes
it. `user` and `bearer` are what is committed; `sees` is the snapshot of a
regeneration's UPDATE, `locked` the rows a transaction has updated, `at` the
statement a call has reached. What PostgreSQL adds under READ COMMITTED decides
the outcome and is modelled as external: an UPDATE waits for the locks on the
rows of its snapshot and then looks at its WHERE again; an INSERT waits at a
unique index for a transaction that is changing the entry it would collide
with. `RegenRaises` and `CallBumpFails` come from SQLAlchemy: `rollback()`
expires every object of the session, and reading an expired attribute outside an
await raises `MissingGreenlet`. A call is made once; the OAuth exchange before
the upsert has succeeded. `Register` maps it to BearerRegister: current are the
active rows, shown the rows of calls that answered with success, and a request is
admitted from the SELECT that found its bearer, whatever becomes of its bump.

### ResultCache

`entry` (none, whole or corrupt), `stale` (what may be dropped) and `job` (the key a
pipeline has missed), and Miss, Store, GiveUp, Age, Drop, PowerCut. Its guards are
the promise: Miss and Store need that there is no readable entry, Store is one
step, Drop needs a stale entry, and only PowerCut spoils one.

### CacheStore

An action is one system call on `<user>/<hash>/`, because `purge_expired` runs
in a thread beside the event loop: `is_file` and the read of `get`; `mkdir` (with
the two attempts that `parents=True` makes), the open and write of
`result.json.tmp` and the rename of `put`; the listing, `stat`, `unlink` and two
`rmdir` of the purge. One pipeline at a time works on the cache, as the GPU lock
covers lookup and put; Pipeline keeps no
more of it than the set of keys that have an entry. `Entries` maps the files to
ResultCache: an entry is `result.json`, stale is what is old or was mended, the
job is the pipeline's key from its miss to its rename.
A crash is a power cut: it may leave a `.tmp`, and may spoil an entry whose
rename was not yet followed by its data.

### Images

`session`, `image` and `blob` are what is in the database and on disk; an image
is named after the POST that made it. A POST is SELECT, write of the blob, INSERT,
UPDATE of the session, COMMIT; a delete is UPDATE, cascade, COMMIT.
`SessionLocked` and `TranscriptionLocked` are PostgreSQL's row locks, `sees` the
images the cascade has updated (its snapshot), `latecomers` those that were
committed behind it. Reading tools change nothing: what they would find is
stated of the rows and the files.

### Jwks

Keys are numbered in the order in which the provider made them; it publishes the
current and the one before, in an order of its own (`listed`, chosen once for every
current key). authlib takes the first key of the list that has the token's key id,
so when two published keys share one, the second cannot be found: a key set is
kept as the keys a lookup finds in it (`KeySet`). `kind` says what is in the id token (good, of
another tenant, invalid, without the claims that are needed), `reply` is the key
set on its way, `forced` a login at its second attempt. A rotation may keep the
key id or change it (`Kid`): for an id the cache does not hold the library
raises an error that `except JoseError` does not catch.

### Scoping and Lifespan

`info` is `session.info` (the armed user and the flag of the bypass), `prior`
what a block found and puts back, `touched` the rows a handler was given. The
four routes differ in how they authenticate: cookie, bearer header, MCP
middleware, or the bearer of the upload's session under a bypass that never arms.
Lifespan adds the process: which models loaded, `jobs` that run with them,
`detached` tools whose HTTP request has gone, the loop and its cancellation, and
the phases of `lifespan()`. Two things are taken from libraries: uvicorn drains
HTTP requests before the lifespan resumes, and FastMCP runs a tool in the
context of the request that carries its call, in a task group that closing
the session manager cancels.

### Wav and Speakers

Pure functions as operators and recursive functions, wrapped in a few actions
that choose the input. `Heads` are the first bytes as the gate tells them apart;
`chunks` the WAV behind its RIFF header, walked by position (`Ends[k]` is where
chunk `k` ends) so that padding, metadata and truncation matter, which may reach
into the header of the last chunk; a hash is what it was fed with. Each has its
own specification (`WavSpec`, `SpeakersSpec`); in `MCTranscript` a step is one of
the one and a stutter of the other. In `Speakers` `Spoken` adds up what was said
turn by turn; times are small numbers and
mid-points are kept doubled, so that nothing is rounded; the operators follow the
code's `min`, `sorted` and `Counter` with their tie-breaks, and the properties
say what they compute without them.

## 3. Runs

| Run | Expect | What it shows |
|---|---|---|
| `gpu_lock` | pass | every interleaving of three requests with lock-wait timers, pipeline timers and repeated cancellations: invariants, fairness of the queue, progress, refinement of `GpuMutex` |
| `pipeline` | pass | three requests, two with one audio, two worker threads, failures and stops at every stage, one refused deletion |
| `gpu_jobs` | violation | a timed-out pipeline leaves its thread on the GPU beside the next holder's |
| `upload_session` | pass | two POSTs, two starts, sweep, one crash on one session |
| `retry` | violation | a failed start removes the bytes its retry needs |
| `bearers` | pass | three logins and two regenerations on two accounts, an MCP request with any bearer, failures of every statement; refinement of `BearerRegister` |
| `cache_store` | pass | get, put and purge on two entries of one user, call by call, with two power cuts; refinement of `ResultCache` |
| `images` | pass | two POSTs of one image session and two deletes of its transcription, failing and cancelled anywhere |
| `orphan_image` | violation | an image inserted behind the cascade is visible under a deleted transcription |
| `login` | pass | two logins, two rotations (one keeps the key id, with either key listed first), an expiring cache, failing requests |
| `transcript` | pass | every head, every WAV of up to three chunks, every floor of up to three turns with every cap and up to three words |
| `lifespan` | pass | a process from start to end, two requests of two users on every route, blocks, failures, detached tools, the loop |

**Bounds and why they are enough.** `gpu_lock`: a lock's races are between a
holder, the first waiter and one newcomer or second waiter; three identities
that are reused cover every such triple, for any number of calls. `pipeline`:
two requests with one key and one with another; two workers are one abandoned
thread plus a working one, or two abandoned threads and none left; `MaxLeaks = 1`:
one leaked file at any place (upload or WAV, of any request), and a leak changes
nothing for the next. Each request
runs once; what outlives a request (abandoned threads, cache entries) stays and
meets the next. `upload_session`: every shared object (row, directory, candidate
list) belongs to one session, and sessions meet only in the lock and in the
sweep's list, so one session suffices for the races on it; two POSTs and two
starts give every pair of handlers. `MaxCrashes = 1`: a second crash finds
nothing in memory the first did not clear. `retry` needs no crash. `bearers`:
one account gets two first logins and two regenerations, which race on both
indexes and on the row of the other's bearer with the bump in between; the
second account shows that none of it crosses accounts. `cache_store`: the shared
objects are an entry and its user's directory; two entries of one user are what
makes the directory shared, and `MaxCrashes = 2` lets a crash meet what the last
one has left. `images`: one session and one transcription with every pair of
handlers on them. `login`: two logins are a fetching one and a waiting one; a
second rotation makes keys disappear that the first has kept. `transcript`: three
turns over five instants show every relation of two intervals, with a third as
the nearest or the tie; four values of the cap are none, nonsense, less and
enough; bodies of 0 to 3 bytes have both parities. `lifespan`: two requests are
enough for one to see what the other left; identities are reused. The proofs drop
these bounds.

**Deadlock** is checked in `gpu_lock` and in `cache_store`, whose loop never
ends. In the others every request ends, so the system may stop, and progress is
stated as liveness instead.

**Fairness.** `GpuLock`: weak fairness of what the event loop does by itself
(ready tasks run; the pipeline's timer fires). None on the lock-wait timer, so
`EveryCallIsAnswered` says the queue moves, not that clients give up.
`Pipeline`: the event loop and the two timers; *no* thread is assumed to end and
no client to send its bytes. `UploadSession`: the same for the part of a start
after its SELECT; the loop of the sweep goes round (`_cleanup_loop` catches
every exception), and strong fairness on its UPDATE says the database does not
fail on every round. Nothing is assumed of POSTs or of `request_upload_url`.
`Bearers`: weak fairness of a handler's next statement once it can be granted
(PostgreSQL grants a free lock, the event loop goes on); nobody is assumed to
call, to fail or to stay. `CacheStore`: the purge's loop goes round, and strong
fairness of `stat` and `unlink` says the disk does not refuse the same entry on
every round; nothing of pipelines. `Jwks`: the event loop goes on and every
request to the provider ends (httpx has a timeout), well or not. `Lifespan`:
what the teardown awaits next is done, a cancelled loop unwinds, the closing
task group cancels its tools. `Images`, `Wav` and `Speakers` state safety only.

**Type invariants** are in no run: each `TypeOK` of a module with proofs is
proved as `TypeCorrect` for every value of the constants.

## 4. Properties worth a word

* `LockHeldByItsOwner`. The two defensive releases in the code (the `except`
  branch of `acquire()`, `held_by_current_task()` before `GPUBusy`) are modelled
  and shown never to have work to do: the second compares with the caller's
  task, while the owner is always the task `wait_for` made.
* `NoBarging` holds because `asyncio.Lock` looks at its waiters before its fast
  path; the mutant without that look breaks it.
* `ComputedOnce` is why the lock has to cover both the lookup and the write.
* `NoAudioLeftBehind` says what may still lie on disk when a request is over: a file
  whose deletion was refused, the upload of a request cancelled while its bytes came
  in, and the WAV of a `normalize_audio` that did not return to its request (it
  failed in ffprobe, or was abandoned). The mutant drops the `finally` clause.
* `WholeUpload` is stated for a session that got a single POST. A second POST
  that passed its SELECT in time truncates a file that was uploaded.
* `SweptEventually` survives late POSTs that bring an expired row back, failed
  sweeps, crashes and a start that holds the row, because a later round selects
  any open row and every transaction ends.
* `EveryRequestIsAnswered` survives hung threads that hold the whole executor.
* `UserHasItsBearer` needs the index *and* that the revocation and the INSERT are
  one transaction: without the index two bearers are active, and with a commit
  between them a failure leaves none (`RevokedBySuccessor` is what that breaks).
* `ImplementsRegister` ties the two tables of a login, the two statements of a
  regeneration and the SELECT of a request into one atomic register: a plaintext
  is shown for a stored row only, and no request meets an account between two
  bearers. The mutant is a loser of two regenerations that answers all the same.
* `NobodyWaitsForEver` is about circles of row locks and index waits. The
  docstring of the bump fears one ("a deadlock with a concurrent bearer regen");
  no transaction of these handlers waits while it holds what another waits for.
* `PurgeSparesFresh`. The purge unlinks by name what it judged by an earlier
  `stat`. It is safe because `put` never replaces a readable entry: it follows a
  miss of the same pipeline, under the lock. Only an unreadable entry that was
  mended between the two calls can be lost.
* `ImplementsResultCache` says of every pair of system calls what the two
  properties beside it say of some: it also forbids half an entry and the
  replacement of a readable one. The mutant, a put that writes in place, breaks it
  at its first call.
* `OpenFileHasItsDirectory`. `rmdir` refuses a directory with a file in it, so
  from its open on a put is safe; between its `mkdir` and its open it is not, and
  the model has that failure (`OpensTmp` without its directory).
* `DeletedTogether` and `orphan_image` are two halves: what the cascade could see
  goes with the parent, and what was committed behind it does not.
* `CacheMovesForward` needs the lock around forced fetches too: without it
  (the mutant) an answer that was overtaken replaces a newer one.
* `StaleKeysAreRefreshed`: the second attempt asks the provider again, so a good token
  is not refused for keys that were merely old. It can still be refused, when since
  its signing the provider has put another key under its key id, be it that the
  token's key is published no more or that it is listed second; the property names
  that as the only case.
* `OnlyOwnRows` covers the statements that run *after* a block was left by an
  exception or a cancellation: a flag that was not put back would open them.
* `TeardownIsLast` depends on the order of `lifespan`'s `finally` and on awaiting
  the cancelled loop; the mutant that only cancels it breaks it.
* `CapKeepsTheFloor` and `WordsGoToTheirSpeakers` describe the result by what
  was said before and after it, not by the formula the code minimises.

## 5. Where code and documents differ

| Run | Code | Document |
|---|---|---|
| `gpu_jobs` | lock released on timeout while the thread goes on | "one GPU job at a time per FastAPI worker process" (comment on the lock, ADR-005) |
| `retry` | `finally` of `start_transcription` removes the directory on every outcome | "a future retry can still find it 'uploaded' and re-run" (`mcp/tools/start.py:223-225`) |
| `orphan_image` | `upload_image` inserts without looking at the parent again | "a deleted parent never has visible children" (`mcp/tools/delete.py:34-35`) |

The models contain these differences too; no run is spent on them:

* The sweep takes any `uploaded` row past its grace, one whose start is at work
  included; `pipeline/cleanup.py:139-141` describes such rows as "bytes received,
  start_transcription never called".
* Updates by id alone leave the final states of the diagram in
  `wiki/05_modelo_datos.md`: expired becomes uploaded or consumed, consumed
  becomes expired. `StatusIsMonotone` says that it takes a second POST, or a row
  past its expiry and grace.
* A session whose rmtree failed is marked expired and forgotten
  (`pipeline/cleanup.py:195-214`), against RF-CACHE-04, typed errors.
* The loser of two regenerations answers 500: `db.rollback()` expires `user`, and
  `user.id` in the log line raises `MissingGreenlet` (`auth/routes.py:470-474`)
  where the docstring says "we retry once" (426-428).
* A failed bump of `last_used_at` refuses the request it should not touch
  (`mcp/middleware.py:146`, docstring 155-156), for the same reason.
* After a rotation to a new key id the forced refresh is not reached: the library's
  `find_by_kid` raises a `ValueError`, `except JoseError`
  (`auth/oauth_client.py:198`) lets it pass, and the login ends in a 500
  (comment at `auth/routes.py:182-184`, `wiki/RF/RF-AUTH.md:246`).
* After a rotation that keeps the key id the forced refresh may fetch a set in
  which the old key is still listed first; the token is then checked against that one
  and the login refused (`AUTH_PROVIDER_UNAVAILABLE`), although its key is published.
* Two overlapping POSTs of one image session insert two images, and a failed
  INSERT leaves its blob (`api/upload.py:308`).
* Cancelling the loop in its purge leaves the purge's thread running.
* A timed-out `normalize_audio` writes its WAV after everybody has left, and a
  WAV whose ffprobe failed is not deleted; two starts of one session can both
  commit.

## 6. Proofs

Assumptions: those of the modules (`LockAssumption`, `PipelineAssumption`,
`UploadAssumption`, `BearersAssumption`, `CacheAssumption`, `ImagesAssumption`,
`JwksAssumption`, `ScopingAssumption`, `WavAssumption`, `SpeakersAssumption`: the
markers for "nobody" are not members of the sets they mark, kinds of calls are
disjoint, functions between the sets are functions, bounds are numbers). The sets
of requests, sessions, calls, accounts, keys, users and labels are arbitrary, and
so are the bounds on chunks, turns, words and times.

**GpuLockProofs.** The inductive invariant `IInv` is the conjunction of

1. `TypeOK`;
2. `QueueOK`: the waiters are exactly the waiting acquire tasks, `ahead` is a
   strict order on them, only waiters are woken;
3. `PhaseOK`: which states of the caller, the acquire task and the pipeline go
   together, and who may be cancelled;
4. `LockHeldByItsOwner`;
5. `NoLostWakeUp`.

Neither of the last two is inductive alone: that a release leaves somebody to take
the lock needs the order of the queue, and that no acquire task resumes on a
taken lock needs the second half of `NoLostWakeUp`. From `IInv` follow the
invariants, `NoBarging` and `BusyLeavesNothing` as action properties, and
`Refinement`: `Holder` and `Busy` map the initial state and every step to one of
`GpuMutex` or to a stutter. `OnePipeline` carries the abstract lock's own
invariant over to the code.

**PipelineProofs.** `IInv` is `TypeOK`, `RequestsOK` (of each request: who holds
the lock and what its thread has made, `LockOK`; who may still write its files,
and what its end has left of them, `FilesOK`; what its row and its answer are,
`RowOK`) and `CacheOK` (while a key is computed nobody has cached it, and of the
requests of one key that got past the write all but one were hits).
`NoAudioLeftBehind` is a part of `FilesOK`; it needs that a deletion leaves a
file gone or leaked (`UnlinkedIs`), and that an abandoned `normalize_audio`,
which may write its WAV at any time, belongs to a request that never came to its
cache lookup. A step of one request leaves the facts about the others alone
unless it is the lock that changes hands (`OthersStay`), so one lemma per action
suffices (`OwnStep`). `ComputedOnce` needs `CacheOK` and the lock together.
`OneGpuJobButForStrays` is what is left of `OneGpuJob`, which the run `gpu_jobs`
refutes: it holds as long as no abandoned thread is on the GPU, and each of
those was left by a request that was answered with a timeout or cancelled.

*Wav.* `WavInv` is `WavTypeOK`, `GateOK` (what passed the gate matched under the
suffix it was judged by), `WalkOK` (the walk stands where a chunk begins, and no
data chunk lies before it) and `HashIsOfTheSound`. The walk is about running
totals of the chunks' lengths, which are a recursive function: that such a function
exists (`TotalsExist`, `AddsUp`) is proved by hand, as is every
induction here, by the least counterexample in a set of numbers (`Climb`, `Least`),
because the library's induction theorems take an operator.

*Speakers.* `SpeakersInv` is the types, turns in the order of their starts, and
the two properties. For the cap, `GoesBefore` (more said, ties by who came
first) is a strict order on the labels heard, a rank in it is a number, and the
labels whose rank is below the cap are as many as asked for and the longest
speakers (`RankRises`, `TopNIs`), and each of them is still heard afterwards
(`TopNIsWhole`, `CapIs`), so that `CapKeepsTheFloor` gives their number exactly;
`NearestIs` and `CapIs` say where the other turns go. For the words,
`CheapestExists` gives the minimum the code takes, `MidpointIs` and `MajorityIs`
what it means; that floors stay sorted by their starts decides the ties in a
silence.

**UploadSessionProofs.** `IInv` is `TypeOK`, `StartOK` (what a start's place says
about its row, its answer and the lock), `SessionOK` (a consumed session has a
committed start) and `DiskOK`: the sweep's candidates are late; a file has a
writer only while it is linked; a session that was removed (expired, or a
candidate whose directory the sweep has just removed) is late and has no file
unless a removal failed. `ExpiredLeavesNoBytes` alone is not inductive: it needs
to know that a late session gets no new file (the grace check comes before
`open`) and that a stream whose file was unlinked does not bring it back.
`WholeUpload` rests on `WholeOK`, inductive with `TypeOK`: while no second POST was
made, a stream is the writer of its file until that is unlinked, and a row that is
marked, or that a start has found, belongs to a stream that has ended.

`StatusIsMonotone` says that a session with a single POST goes
requested, uploaded, consumed and no other way until its grace is over, although
every UPDATE is by id alone. It rests on `RouteOK`: while a POST of it is under way
the row waits for it, and while a start is, the row has its file.

**BearersProofs.** `IInv` is `TypeOK`, `PhaseOK` (a row exists once its call has
committed, one login per account is between INSERT and COMMIT; one lemma for
each kind of call), `LockOK` (a row is locked by one
transaction, and a regeneration's locks are active bearers of its account),
`InsertOK` (between INSERT and COMMIT every active bearer of the account is one
the regeneration is about to revoke, and no other regeneration of the account is
there) and `UserHasItsBearer`. The last is not inductive without `InsertOK`: the
index is looked at by the INSERT, and the COMMIT comes later. `NoCircle` is the safety
half of `NobodyWaitsForEver`: `WaitsFor` lists who waits for whom (a row lock, an entry
of either unique index), and whoever is waited for does not wait himself, so that
chains have length one. It rests on `HoldOK`, which says in which states a call
has rows; the lemmas `WhoWaitsForNobodyIsServed` and
`OwnerOfTheRowGoesOn` say that the end of such a chain has a step to take.
`Refinement` maps each COMMIT that makes a bearer to Replace (which needs `InsertOK` and
`LockOK`: what it revokes is all the account had), the answer of a regeneration to
Show, an MCP request's SELECT to Judge, and everything else to a stutter. It needs
one fact more, `AnswerOK`: nobody is answered before its transaction is over.

**CacheStoreProofs.** `IInv` is `TypeOK`, `PutOK` (between a miss and the rename the
key has no readable entry, and the open file is linked), `JudgeOK` (what was
judged old is there, and old unless mended) and `TreeOK` (directories form a
tree; the purge's `rmdir` and the put's `mkdir` are never about one empty user
directory at the same time). `PurgeSparesFresh` is an action property and
follows from `JudgeOK` at the unlink, `JudgeOK` from `PutOK` at the rename.
`Refinement` maps every call to a step of `ResultCache` or to a stutter: a look-up or a
read that finds nothing readable is Miss, the rename Store (which needs `PutOK`), the
purge's unlink Drop (`JudgeOK`), a failed call or a lost directory GiveUp; the other
calls are not seen. `OnlyMissesComputed` carries the abstract cache's invariant
over to the files.

**ImagesProofs.** `IInv` is `TypeOK`, `PostOK` (a row follows its file, an answer its
row, a stored image spends its session), `DeleteOK` (one open transaction for a
transcription, which is not deleted while it is open; what its cascade has not
seen is a latecomer), `DeletedTogether` and `DeletedOnce`.

**JwksProofs.** `IInv` is `TypeOK`, `LockIsTheFetchers`, `HerdOK` (an unforced
fetch under way has found the cache empty or old) and `KeysOK` (the cache and
the reply on its way are what the provider published at some time, the reply not
before the cache; `ListedOK` keeps what lookups find in those sets).
`HerdFetchesOnce` needs the second look behind the lock, which is `HerdOK`;
`CacheMovesForward` needs `KeysOK`. `StaleKeysAreRefreshed` adds `TokenOK`: a
reply is what was published no earlier than the login's token was signed. Such a
set either holds the token's key or another one under its id (`Shadowed`), or
the library finds no key at all, which is an error and not a refusal.

**LifespanProofs.** Two invariants, inductive with `TypeOK`: `RequestsOK` (the
flag is set exactly inside a block, the session is armed with the credential's
user, the rows given are that user's) and `ProcessOK` (nobody works in a phase
without requests, the loop is over before the pool goes).

| Theorem | Property |
|---|---|
| `TypeCorrect` of all eight | `TypeOK` |
| `GpuLockProofs!LockSafe`, `WakeUpSafe` | `LockHeldByItsOwner`, `NoLostWakeUp` |
| `GpuLockProofs!GrantedInOrder`, `BusyIsClean` | `NoBarging`, `BusyLeavesNothing` |
| `GpuLockProofs!Refinement`, `OnePipeline` | `ImplementsMutex`, `Mutex!OnlyHolderRuns` |
| `PipelineProofs!ThreadSafe`, `NoAudioLeft` | `AwaitedThreadIsSafe`, `NoAudioLeftBehind` |
| `PipelineProofs!OneComputation`, `AnswerIsTrue` | `ComputedOnce`, `AnswerMatchesDatabase` |
| `PipelineProofs!OneGpuJobButForStrays` | `OneGpuJobUnlessStopped` |
| `PipelineProofs!GateSafe`, `HashSafe` | `GateIsTheSameForBin`, `HashIsOfTheSound` |
| `PipelineProofs!CapSafe`, `WordsSafe` | `CapKeepsTheFloor`, `WordsGoToTheirSpeakers` |
| `UploadSessionProofs!ConsumedIsBacked` | `ConsumedHasTranscription` |
| `UploadSessionProofs!AnswerIsTrue`, `ExpiredIsClean`, `UploadIsWhole` | `AnswerMatchesDatabase`, `ExpiredLeavesNoBytes`, `WholeUpload` |
| `UploadSessionProofs!StatusIsMonotone` | `StatusGoesForward` |
| `BearersProofs!OneBearer` | `UserHasItsBearer` |
| `BearersProofs!AnswerIsTrue`, `RevocationIsSuccession` | `AnswerMatchesDatabase`, `RevokedBySuccessor` |
| `BearersProofs!NoCircle` | `NobodyWaitsForAWaiter` |
| `BearersProofs!Refinement`, `ShownIsKnown` | `ImplementsRegister`, `Register!ShownAreKnown` |
| `CacheStoreProofs!ParentSafe`, `OpenFileSafe` | `ParentStays`, `OpenFileHasItsDirectory` |
| `CacheStoreProofs!FreshIsSpared`, `EntriesAreWhole` | `PurgeSparesFresh`, `NoHalfEntry` |
| `CacheStoreProofs!Refinement`, `OnlyMissesComputed` | `ImplementsResultCache`, `Entries!OnlyMissesAreComputed` |
| `ImagesProofs!BytesSafe`, `AnswerIsTrue` | `ImageHasItsBytes`, `AnswerMatchesDatabase` |
| `ImagesProofs!OneDeleteSucceeds`, `DeletesAreWhole`, `SpentIsRefused` | `DeletedOnce`, `DeletedTogether`, `SpentSessionIsRefused` |
| `JwksProofs!LockSafe`, `OneFetch` | `LockIsTheFetchers`, `HerdFetchesOnce` |
| `JwksProofs!CacheAdvances`, `RefreshSaves`, `OnlyGoodPass` | `CacheMovesForward`, `StaleKeysAreRefreshed`, `OnlyGoodTokensPass` |
| `LifespanProofs!OwnRowsOnly`, `TeardownSafe` | `OnlyOwnRows`, `TeardownIsLast` |

Some of these are proved and in no run: `OneGpuJobUnlessStopped`, `StatusGoesForward`
and `NobodyWaitsForAWaiter`, defined beside their proofs; `ParentStays`,
`NoHalfEntry`, `LockIsTheFetchers`, `OnlyGoodTokensPass` and the
`AnswerMatchesDatabase` of Bearers, in their modules; and the invariants of the
three abstract modules.

Only model-checked, because liveness under fairness is out of this prover's reach:
`EveryCallIsAnswered`, `EveryRequestIsAnswered`, `SweptEventually`,
`NobodyWaitsForEver`, `ExpiredIsPurged`, `EveryLoginIsAnswered` and `TeardownEnds`.
Every other property of the passing runs is a theorem. What the runs that expect a
violation check is false.

## 7. Not modelled

* The neural models (`pipeline/stt.py`, pyannote), ffmpeg and ffprobe: external,
  seen through what they return, write or fail with.
* Cryptography, signed cookies, encryption of tokens at rest; the plaintext of
  the flash cookie that `/auth/me` shows once.
* `verify_bearer`, the REST twin of `_authenticate`, is in Scoping as a look-up; it
  has no bump of its own in Bearers: it bumps in the request's transaction, which
  its caller commits at once.
* The read tools' ordering, paging and serialisation, and the clamping of their
  limits: no state. `CacheStore.delete` has no caller. `gpu.py` and `/health`
  only report.
* Configuration and the wording of errors.
* Network partitions between the process and the database, beyond a statement or a
  COMMIT that fails or is in doubt. There is one process, as ADR-005 and the
  start-up warning demand.

## 8. Plan

*Done*: all modules of section 2, their runs, the proofs of section 6; every safety
property the runs check is proved.

*Left*, in this order:

1. The flash cookie in `Bearers`: which plaintext `/auth/me` pairs with which
   active bearer.
2. Two starts of one session that both commit, as a run against the 409 that
   `wiki/RF` promises for a consumed session.
3. The safety halves of the other liveness properties, in the way of `NoCircle`:
   that in `Jwks` and `Lifespan` whoever is waited for has a step to take.
