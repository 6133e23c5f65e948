# A TLA+ model of Greenlight AI

Greenlight AI validates a data delivery: somebody uploads an order's requirement
document (the OSL), the configuration that implements it and the reports it
produced; a worker runs nine stages over them, some of which ask a language
model; a reviewer decides every finding; and the result is frozen as a report
that is never regenerated. This directory models the part of that where order,
failure and concurrency decide whether it is right: how a delivery becomes a run and
how long it stays, the job queue, the life of a run, the pipeline under retries, the
review up to the frozen report, and the consoles beside it, where rules are learned,
meanings confirmed, versions recorded, settings changed and accounts kept. What code does
with an answer of the model is modelled for any answer; the comparisons no model is asked
about are functions.

Code paths below are relative to `src/src/greenlight_ai/`.

## 1. Inventory

| component | state | operations | what is hard | what makes it correct |
|---|---|---|---|---|
| job queue (`db/queue.py`) | `jobs`: status, owner, claim time, attempts, earliest start | enqueue, claim, touch, finish, fail, reclaim_stale, cancel_jobs | workers poll concurrently; a claim goes stale under a worker that lives; a worker dies at any point | one live owner per job, a job that ended stays ended, no attempt lost or gained, every job ends |
| worker loop (`worker/app.py`) | the job in hand, a heartbeat thread | poll, run a handler, report success or failure, honour the hold | three transactions per job with crashes between | the run's row and the job's row agree |
| run (`worker/runner.py`, `api/routers/runs.py`) | `runs.status` and timestamps | submit, hold, accept, cancel, execute, re-check, finalize, purge | requests read, decide and commit while workers do the same | somebody is working on a run that says so; terminal states are terminal |
| pipeline (`pipeline/`) | the `RunContext`; rows and stage records of the run | nine stages, in order; save; resume | a stage fails after others succeeded; retry by another process | a reviewed run shows every issue the documents have |
| review (`routers/findings.py`, `runs.py`, `repository.py`) | findings and their decisions | decide, bulk decide, edit, re-check | a re-check replaces rows a request holds; ids are given anew | no decision or correction is lost |
| gate (`api/gate.py`, `routers/coverage.py`) | acknowledgements, second approval | acknowledge, approve, compute the gate | checked long after the evidence for it was recorded | nothing unseen or unsigned is frozen |
| frozen report (`routers/reports.py`, `report/render.py`) | `final_reports` row, html file | finalize | two finalizers, one file, one unique row | stored once, never changed |
| submission, drafts, admission (`routers/runs.py`) | drafts, uploads, fingerprint, expiry | create, clone, attach, submit, discard | read-then-write checks for duplicates and caps; files that no rollback restores | equal deliveries stand side by side for a reason; what was compared is what is kept; a draft is never lost to a question |
| retention (`db/repository.py`) | `runs.expires_at`, files, foreign keys to `runs` | schedule, purge, delete | files go before the commit; one refused deletion undoes the sweep | kept as long as promised, and no longer than that |
| LLM adapter (`llm/`, `db/cache.py`) | the answer cache, a call log per attempt or question, the rows of it | complete, stream, retry, fall back from guided answers, record | a reader leaves a stream; an answer does not validate; an attempt dies | every post is on the log, the budget is overrun by one call at most |
| report chat (`chat/`, `routers/chat.py`, `textfit.py`) | questions and their cost; per question the pack, the answer so far | open the panel, ask, stream, close with the sources | the cap is counted before the question is stored; the marker of the sources arrives in pieces; nine sections, their notes and the report share one budget | one record for a question, whoever stops reading; the reader sees the prose and all of it; the model is never given more than the ceiling |
| settings (`config/store.py`, `secrets.py`, `routers/settings.py`) | `app_settings`; per process the rows it read last and when | resolve, change, clear | a reader that is slow keeps rows older than a change it overlapped; a request that changes a setting resolves it before it commits | what is answered is what was in force no longer ago than the rows may live |
| detection, held runs (`parsers/detect.py`, `checks/artifact_match.py`, `routers/runs.py`) | samples of each type; mismatches of a run | tell a type, submit, accept | samples lost from the volume; overlapping types; two people accepting | a held run has a disagreement open |
| extraction and comparison (`pipeline/s2` to `s5`) | rules, elements, traces and findings of a run | extract, describe, link, compare | spellings of types, operators, numbers, states and codes; answers that do not fit; what is dropped on the way | what is compared is what was said |
| training (`training/`, `routers/training.py`) | statements, drafts, the rules learned from them | observe, withdraw, draft, approve, reject, enable, disable, delete, restore, purge | overlaps are read and committed later; `state` and `is_active` say the same thing and are written apart | rules that overlap run side by side because somebody said so; one draft, one rule |
| signatures (`training/demotion.py`, `signatures.py`) | one row per recurring finding | recompute at each verdict | a row is computed from what others have committed; rows of findings go with their run | the row says what the verdicts add up to |
| rule screens (`routers/admin.py`) | `is_active`, versions of a check | save, switch, archive | they write one of the two columns | the same |
| business meanings and guides (`meaning/`, `checks/guides.py`) | entries and their status, the checks compiled from them | propose, edit, confirm, reject, delete, save and revert a guide | an interview lasts as long as its model calls; a revert compiles nothing | what runs for a confirmed entry is what it says; nothing runs for a rejected one |
| versions (`db/versions.py`) | `definition_versions`, what a run names | record, revert, purge, name | a snapshot and its number are taken at different moments; a run reads number and rules apart | the latest version says what runs; a run names no version newer than what it was given |
| library (`db/versions.py`, `routers/admin.py`, `checks/guides.py`) | artifact types with samples, guide and layout, worked examples, field labels | save, upload, remove, promote, revert | a snapshot covers several rows and files; a revert restores some of them | the latest version is what is kept |
| product codes (`routers/admin.py`, `worker/runner.py`) | codes by scope; per run the catalogue it kept | save, switch, delete; submit, execute | a save is checked against the others and written later | one term has one output name |
| accounts (`auth/`, `routers/users.py`) | accounts, sessions, lockout | bootstrap, create, activate, roles, reset, sign in | the other administrators are counted before the write | somebody can always administer |
| rules and intervals (`rules/`, `pipeline/s5_compare.py`), report checks (`checks/reports.py`) | none | pure functions | boundaries, inverted operators, several conditions | a finding is a difference, a failed check a breach |
| name resolution (`resolve/`, the dictionary screens of `routers/admin.py` and `training.py`) | terms and spellings by scope, legacy aliases, mappings reviewers propose; per run the loaded dictionary, calls spent, readings of the model | save, delete, accept a suggestion, approve a mapping, copy aliases; look a name up | four screens write spellings under different conditions; the tables are edited while a run uses what it loaded; the cap is met | one name means one attribute; what was recorded is read; what the model read is told |
| coverage statement (`pipeline/coverage.py`, stage 7) | verdicts per requirement, findings | evaluate, report, list what the gate asks | names not found, unknown and empty codes, readings after the report | what nobody is asked about was compared |
| administrators' checks (`checks/expressions.py`, `field_constraints.py`, `compliance_match.py`, `programme_match.py`) | none | evaluate an expression, a constraint, a control, the words of a programme | values nobody found, columns that are empty or nowhere, a report in several parts | silence is a pass |
| stages that ask (`pipeline/s6_reverse.py`, `s7_reports.py`, `s8_verify.py`) | findings and notices of a run, calls spent on second opinions | locate a control, judge, read the programme, the shape, the rules and the gaps, give a second opinion | an answer that is unsure, invents, or does not come; a cap | what code found survives the answers; what was not read is said |
| parsers, announcements, reports on usage, interfaces, deployment | | | input, output and layout | not modelled |

How they meet: an API request runs in one database transaction that commits when
the handler returns (`api/deps.py`), and puts work into `jobs`. Workers share
nothing but the database and a data directory. A worker reclaims and claims in one
transaction, runs the handler (whose own work is one transaction to load and one
to save), and reports the result in a last one, while a thread refreshes the
claim every minute. Nobody calls a worker back; the status of the run and of the
job are the whole interface.

## 2. Modules

```
JobService      what a queue promises: put, take, complete, put back, give up, lose
JobQueue        db/queue.py + worker/app.py; implements JobService
  JobQueue_proofs   the theorems of JobQueue
RunLifecycle    runs.status + JobQueue (INSTANCE): submission to verdict
Pipeline        pipeline/ under retries and crashes, one run
  Pipeline_proofs   the theorems of Pipeline and of Opinions
Review          one run under review, to its frozen report
Submission      new runs, clones, drafts, duplicates, retention and the sweep
LearnedRules    from a reviewer's sentence to a rule, and what becomes of it
Meaning         business meanings, guides, and the checks compiled from them
  Training_proofs   the theorems of LearnedRules and Meaning
Versions        the rules of a programme, their versions, the runs that name them
Accounts        accounts, sessions, and the last administrator
ModelCalls      calls of the model: cache, retry, budget, log
Chat            who may ask, the pack, the streamed answer and its sources
  Consoles_proofs   the theorems of Versions, Accounts, ModelCalls and Chat
Criteria        comparison and report checks, as functions
Dictionary      attribute terms, aliases, mappings, and what a run loads of them
Evidence        stage 7 over names: EXTENDS Dictionary; coverage and what the gate asks
  RunLifecycle_proofs   the theorems of RunLifecycle and of what a run's stage 7 reads
Signatures      what the verdicts on a recurring finding add up to
  Review_proofs     the theorems of Review, Signatures, Criteria and Extraction
AdminChecks     what administrators write for code to check, as functions
Opinions        stages 6, 7 and 8 with any answers of the model: EXTENDS AdminChecks
Extraction      stages 2 to 5 with any answers of the model: EXTENDS Criteria
Intake          what an upload is told for, and what holds a run
Settings        app_settings and the rows each process keeps of it
ProductCodes    the catalogue of codes and what a run keeps of it
Library         artifact types, samples, guides, examples, labels and their versions
  Stores_proofs     the theorems of Submission, Intake, Settings, ProductCodes and Library
Subsequences    what a list keeps, in order: the comprehensions of the modules that are proved about
  Subsequences_proofs   what every such list has, flattened lists, inductions along a list
MC*             the instances TLC checks: MCConsole has LearnedRules, Meaning, Versions, Accounts,
                ModelCalls, Criteria, Extraction and
                the stalling queue; MCStages Pipeline, Opinions, Settings, Intake and Chat;
                MCEvidence Evidence, ProductCodes, Library, Signatures and the timely queue
```

### JobQueue and JobService

`job` is the jobs table, a function from a fixed set of ids to rows; `worker` is
what a worker process remembers; `held` is the administrator's hold. Time is
relative: `wait` counts down to `run_after`, `age` up from `locked_at`, and one
`Tick` stands for a unit of both. Since the code only ever compares these two
columns with now, nothing else of the clock matters.

| action | code |
|---|---|
| `Enqueue`, `Submit` | `JobQueue.enqueue`, with or without the grace period |
| `Poll` | `run_once` up to the select of jobs to give up on in `reclaim_stale` |
| `Claim`, `ClaimNothing` | the updates of `reclaim_stale`, then `claim`, in the same transaction |
| `Heartbeat` | the thread of `_start_heartbeat` and `touch` |
| `Return`, `Finish` | the handler returns; `finish` |
| `FailRead` | `_handle_failure` opens its transaction; `fail` loads the row, without a lock |
| `FailWrite` | what `fail` decided from that is written by id, with the backoff table |
| `Crash` | the process dies and is started again |
| `Drop` | `cancel_jobs` of a queued job, as if nobody claimed in between; the window between its read and its delete is modelled in `RunLifecycle` |
| `SetHold` | the hold is switched |

`reclaim_stale` selects the doomed jobs and updates them by id afterwards; `Poll`
and `Claim` are separate so that another worker may step in between, as it may on
the server database. So are `FailRead` and `FailWrite`: `read` is the row as `fail` loaded it,
`Failed` what it makes of the row it then writes, which may have been reclaimed and claimed
again since. The heartbeat goes on in between (`run_once` stops it in its `finally`). `late` is a
history variable on the row: a failure was written from what was no longer so.

`Timely` says that a live worker's heartbeat beats the stale window (60 s against
900 s). It is an assumption on the environment and not on the code, so there is
an instance with it and one without.

`JobService` is the abstract queue: per job a state, a number of tries and a
holder. A step of the system is, for every job at once, one of its operations or
nothing, because one transaction of the code may reclaim several jobs.

### RunLifecycle

The queue composed with the runs table: every worker action is the queue's action
together with what the same transaction does to the run, and `phase` divides the
handler at its commits (`claimed`, `executing`, `saved`, `raising`). Requests that
read, decide and commit (`accept_mismatches`, `cancel_run`) are two actions with
`request` holding what was read; the others cannot lose anything by being atomic
and are one. `Purge` deletes a run at any time, which the retention sweep may do
since it does not look at the status.

`Serial`, an action constraint of some runs, lets no other step come between a
request's two. What holds under it is a property of the transitions; what fails
without it is a race.

### Pipeline

One run, its stages and the rows they leave. A delivery says for every
requirement which element implements it, whether the element differs, whether the
reports break it and whether nothing evidences it; each stage turns what is in
the context into issues of one kind, from exactly the inputs the code uses. The
failing stage and the transaction that stores the failure are one action (nobody
else sees the context in between). Language-model answers are taken as right: the
question is what the machinery loses, not what the model says; `Opinions` has the other
question. The queue is reduced to attempts; `JobQueue` is its model.

### Review

`findings` is the table in primary-key order. What rules and traces give rise to
is the set `raised` of issues; an edit toggles one. `Raise` numbers like
`next_finding_id`, `Carried` is the lookup in `_replace_findings`.

The database is read committed, so a request is divided at its SELECTs. Finalizing is
`FinalizeRead` (no report yet, nothing undecided), `GateAcknowledged`, `GateWaved`, `GateSigned`
and `GateUnevaluated` (the SELECTs of `compute_gate`, in its order), `Attest` (the signature as the
page will show it), `FinalizeSelect` (the findings as it will show them), `FinalizeWrite` (the
file) and `FinalizeInsert` (the row); any of the gate's may refuse, and `html` is what was read so
far. A second approval is `ApproveRead` (what was waved through), `ApproveNeeded` (a signature
that counts?), `ApproveCheck` (who decided what is outstanding) and `ApproveCommit`. A decision is
`ReviewRead` and `ReviewCommit`, which writes the columns that differ from what was loaded
(`Updated`), so two decisions that cross may leave the status of one and the name of the other.
A re-check is `RecheckLoad` (first transaction), `RecheckCarry` and `RecheckSave` (second: the
decisions are selected, then the rows that hold them deleted and the rebuilt ones inserted).
Two re-checks cannot both be between those two, because the second transaction begins with an
UPDATE of the run's row and the DELETE of its rules, whose locks it keeps. `Acknowledge` is one
step: only a re-check changes what it reads, and what it writes is refused by nothing that
could come between. `generation` stands for the identity of the
rows, which a re-check deletes and inserts anew; a review that holds an old row
fails. `seen`, `author`, `makers`, `vetted` and `signed` are history variables: they record who did
what, and what the gate of a report saw; no action reads them, but for `vetted`, which is also
what the gate itself remembers between two of its SELECTs. Acknowledgements of requirements are
left out: their ids do not change with a re-check, so they raise none of the questions asked here.
Login is on and the programme asks for a second approver.

### Submission

The runs table before and after the worker's part of it, with the artifacts of a
run as one slot: `run[r].files` is the hash in `run_files`, `bytes[r]` what lies on the
volume, which no rollback restores. Requests read (`CreateRead`, `SubmitRead`,
`AttachRead`, `DiscardRead`) and commit; a refused artifact (`CreateRefused`,
`AttachRefused`) rolls rows back and not bytes. `Outcomes` is what `_finish_submission`
will decide on what it read: a duplicate, held, or queued. `expires` counts the days to
`expires_at` down; `Window` is `expiry_for`, with the status it looks at as its
argument. `owed` is a history variable, the days a submission promised. `Move` is
everything the worker and the reviewers do with a run; `Finalize` is apart because it
may make the run the source of the configuration's record layout, one of the foreign
keys (`Cited`) that keep a row from being deleted. `Purge` is a sweep that commits,
`PurgeFails` one that does not. `purge_expired` has no ORDER
BY and each deletion is flushed before the next, so a sweep that meets an expired run before its
expired clone is refused: `Sweepable` says that some order goes through, `SweepInAnyOrder` is a
sweep that every order lets through, and only that one is fair. The rate limit, the closed door and
the editing of a draft's fields are left out: they refuse, or change nothing the
properties look at.

### LearnedRules

`statement`, `candidate` and `rule` are the tables; a rule has both `state` and `active`,
as the rows do. A request that drafts or approves reads (`SynthesizeRead`, `ApproveRead`)
and commits later, and its commit writes only the columns it changed since it read them,
which is what the object mapper does; `SetState`, `SaveCheck` and the other screens come
in between. `Moved` is `lifecycle.set_state`, `Conflicts` is `find_conflicts`. A body
stands for the fingerprint of what a rule tests. `gone` counts the days since a deletion.
`byHand` and `decided` are history variables: rules somebody put to run or rewrote by
hand, and pairs somebody chose to keep.

### Meaning

`entry` is what is written, `compiled` the row each target was compiled into. Confirming,
rejecting, editing and saving a guide compile or retire in the same transaction
(`CompiledRow`, `Retire`); the interview (`ProposeRead`, `ProposeCommit`) and the revert of
an artifact type write entries and compile nothing. `readable` is whether the samples
resolve the cells an entry names. `MoveCompiled` is the Rules screen, which treats compiled
rows as any other rule. `byScreen` and `unwritten` are history variables for the exceptions
the properties name.

### Versions

One programme: `live` its rules, `versions` the snapshots. An editor's request changes rows
and takes its snapshot under its own changes (`edit`), then is numbered and committed
(`Commit`) or rolled back. An attempt of a run reads the number (`NameVersion`) and then
the rules (`LoadGuidance`); `TryAgain` is the queue's next attempt.

### Accounts

A request of the users screen counts and checks (`AskActive`, `AskRoles`) and writes later
(`ScreenCommit`). Signing in, failing to, being locked, changing and resetting a password
are single transactions. `EnsureBootstrap` is the seeding when a process starts.

### ModelCalls

A caller is one attempt of a run or one question of the chat, with a client and a log of its
own; the cache is shared. One `Ask` is `complete` or `stream` up to the first post;
`Answered`, `Rejected` (does not validate), `Streamed`, `ReaderLeaves` and `SendFails` are how
a post ends, each with the refusal of a guided schema or without. The deployment setting
modelled is `guided_json = "auto"`; the others never refuse or never ask. `RecordCalls` writes
the log's rows, `Dies` loses it.

### Criteria

A state is a pair of rules and nothing moves. `Compare` is stage 5 by kinds of findings,
`CriteriaChecks` and `SetChecks` are `derive_checks`, `CheckBound` and `CheckValueSet` are
`run_derived_check`. The reference they are compared with says, operator by operator
(`Holds`) and record by record (`Obeys`), what a rule means, and knows nothing of intervals.
Numbers are integers here, and `BoundsAssumption` makes up for the gaps they have: conditions are
compared on `Bounds`, and `Values` has something below, between and above them.

### Dictionary and Evidence

`Dictionary` is the tables and the screens that write them. A name stands for everything the
ladder's first two rungs take for it. `term` maps a canonical name and a scope to an entry;
`TermsInForce`, `AliasTerms` and `LoadedDictionary` are `load_attribute_dictionary` (narrowest
scope first, legacy aliases behind), `LoadedAliases` is `load_aliases`. `SaveTerm` replaces a
term after looking at the active ones, `AcceptSuggestion` extends one after looking at all,
`ApproveMapping` and `CopyAliases` extend without looking at the owners of a name; each is
the whole transaction of the handler, which has no other commit.

`Evidence` is one run after another over them. `StartRun` loads (`build_context`); `todo` is
what stage 7's checks look up, in their order, and each `LookUp...` is one call of
`LayoutResolver.name` or of `present` with the cache, the cap and the model behind it: a model
that is shown names answers with one of them or not at all. `Report` turns verdicts and
readings into findings, `Save` stores the proposals, and between the two the headings of the
profile and the waterfall are read. `Verdict` and `Raised` are `run_derived_check` and its
caller, `State` and `Asked` the coverage statement and the gate. `Console` is everything people
do meanwhile. `Resembles` and `SameWords` are constants: what the characters of two names have
in common is data here. A drifted heading is found by the model as itself or not at all;
sheets and row labels go through the same calls and are left out, and so are the other
checks of stage 7, which add findings.

### AdminChecks and Opinions

`AdminChecks` is functions: an expression is a tree, and a part of it comes to a value or to
why it has none (`Eval`; "raises" is an exception `evaluate` does not turn into one of its
own); a constraint is checked column by column (`CheckValues`, `ConstraintVerdicts`); a path
of the configuration is its segments (`Implementing`), a keyword its words (`FoundWords`).
Whose run a rule is about is `AppliesTo` for checks and controls, which are told no
configuration, and `ConstraintApplies` for constraints, which are.

In `Opinions` a state is one delivery on its way through stages 6, 7 and 8. `todo` is what is
left to do, in the code's order, and each action one entry of it: `InCode` where code
decides alone, `Asked` where the model is shown something and may agree, disagree, be unsure,
name what nobody offered, or not answer (`AnswersAbout`). `heard` keeps the answers for the
properties. `StartLenses`, `SecondOpinion`, `NoOpinion` and `EndLenses` are stage 8's second
opinion with its cap. A report is a sequence of parts; `Views` is which of them the derived
checks see and `FirstOfEach` which an administrator's checks see. What a derived check says of
a part is given, since `Criteria` and `Evidence` have how it is found. At most one breach, one
gap and one oddity come out of an answer; several would be several findings of the same kind.

### Extraction

One section of the requirement document and the blocks of one configuration. `Extract` and
`Describe` take any of `Answers` and `BlockAnswers`: `Validates` is the schema the client
checks first, `Folded` the synonyms, `ReadConditions`, `ReadValues` and `ToRule` what becomes of
a condition, a list and a requirement, the payload check included; `ExpandProductCodes` comes
behind. A value is in the shape its condition says (`AnswersAssumption`); a list where one value
is asked for, which no range is read from, is left out. `LinkRules` is stage 4 (exact keys first, then the model's verdicts about the
shortlist) and `CompareRules` stage 5, whose comparison of criteria is `Criteria`'s. `said`
keeps the accepted answer for the property.

### Intake

`DetectType` is `detect`, score by score in ten thousandths, with the model breaking a tie or
not; `FinishSubmission` compares what was typed with what is declared and with the date of the
reports, and records a mismatch for each field that disagrees. `AcceptMismatches` reads and
`AcceptCommitted` writes, so two may overlap. The status is the part of it `RunLifecycle` calls
`held`.

### Settings

A thread that resolves a setting hits its process's rows or reads the table (`Miss`, `Select`,
`Keep`), and dates what it keeps by when it set out. `Change` resolves, writes, drops the rows
(`Flush`), resolves once more inside its transaction and then commits or is rolled back.
`gone` is a history variable: how long ago each value was last in force or being written.

### ProductCodes and Library

`SaveProductCode` checks a row against the others that are switched on, `SaveCommitted` writes
it; `raced` records which rows were saved at the same moment. `SubmitCoded` is the capture of
the catalogue, `Execute` what a run compares with. In `Library` a save of a type, an example
or a label takes a snapshot when it differs from the latest (`VersionWith`), and `Revert...`
writes an older one back, with the files that are there. Each request is one transaction and
one action; `FileLost` is the volume.

### Signatures

`ReviewFinding` and `BulkOkLowSeverity` conclude, from what is committed and their own
verdicts, what each row says; `Commits` writes it. `ReplaceFindings` is a re-check, which
carries decisions over, and the deletion of a run. `stale` marks the rows the code is known to
leave behind: by those two, and by decisions that overlap.

### Chat

`OpenPanel` and `AskModel` are the requests, `MayNotAsk` what they refuse in the order of the
code. Lines are lengths, and the lengths of headings and notes are the code's, so `BuildPack`
computes the length the model would be given. `Piece` is one piece of the stream, of any length,
`Releasable` how much of what arrived may be shown while the rest could still be the beginning
of the marker; `EndOfStream` cites what the pack offered. What a question costs is in
`ModelCalls`.

### MCStages, MCEvidence and MCConsole

Each is several modules that share no row, side by side. `part` picks which of them moves in a
behaviour, so that the states add up rather than multiply. Nothing is lost: a property is about
one part, and no part reads another. Every delivery of `MCOrders` puts one of the questions of
`Opinions` in the way of the others. The queue is in `MCEvidence` with timely heartbeats and in
`MCConsole` with workers that stall.

## 3. Runs

| run | instance | shows |
|---|---|---|
| `console_run` | the queue with 1 job, 3 workers, their heartbeats late, with fairness; 2 rules and 2 drafts of one statement; 1 meaning and 1 guide entry; 2 programme rules, 3 versions; 2 users; 1 attempt and 2 questions; 11 844 single rules and pairs of rules; 30 answers about a section and 26 about a block | no job is given up early or tried too often, but for a failure written late, and every job ends even when live workers are superseded; overlaps decided, one rule per draft; what is confirmed runs and what is rejected does not; the latest version and the versions named are true; an administrator remains; spend is logged; findings are differences and failed checks are breaches, of rules as of what the model said |
| `lifecycle_run` | 1 run, 2 jobs, 2 workers, 1 request at a time, fairness | somebody is on it, one pipeline, cancelled for good, every submitted run comes to rest |
| `lifecycle_frozen` | same, without fairness | finding: a finalized run runs again |
| `stages_run` | 2 requirements, 2 elements, every delivery, 2 attempts; 13 deliveries for stages 6 to 8, every answer of the model, 1 or 2 lenses or none, 0 to 3 calls for them; 1 setting, 2 threads, 2 changes; 3 types with every choice of samples, 5 workbooks, 2 people accepting; 1 602 chats | the findings of an uninterrupted run are the reference; what code finds is at most softened; what was not read is said; every part is judged; silence about a rule is a pass; kept settings are recent; a held run has something open; the reader of a chat sees the prose, and the model no more than the ceiling |
| `stages_parts` | same | finding: an administrator's constraint sees only the first part of a report |
| `pipeline_resume` | the pipeline of `stages_run`, up to symmetry | finding: a resumed run lacks findings |
| `review_run` | 1 finding of each kind, 2 people, 2 requests, 2 workers, 2 re-checks | what is frozen was acknowledged and, unless it was decided or signed while the finalizer was reading, signed for by somebody else; one report; an agreed decision survives every rebuild, unless it was made while the rebuild was saved |
| `review_frozen` | 2 findings, 1 re-check, 1 request at a time | finding: the findings of a frozen report are replaced |
| `submission_run` | 2 runs, 2 contents, 1 request at a time, fairness | equal deliveries have a reason, everything goes in the end unless an expired run is referred to |
| `submission_kept` | same, without fairness | finding: a submitted draft is swept early |
| `submission_stuck` | as `submission_run` | finding: a promoted record layout, or a clone met after its source, stops the sweep for good |
| `names_run` | 2 attributes asked for, 3 columns, 2 scopes, 2 alias tables, 5 deliveries, 2 edits, 1 run; the queue with 2 jobs, 2 workers, 2 attempts and timely heartbeats; 2 codes, 2 scopes, 2 keepers; 2 sample paths, 2 programmes, 1 example, 1 label, 4 saves; 5 findings of 3 runs, 2 deciders, 3 verdicts | readings are reported, nothing goes unread, an accepted suggestion is read in code; one owner of a job, refinement of `JobService`; one term has one name; the latest version is what is kept; a signature is what its verdicts add up to |

Bounds, and why they suffice. Two workers are enough for one to supersede, race or
outlive another; every queue action involves one worker and the jobs table. Two
jobs give priority, a pipeline and a re-check of one run, or two pipelines of one
run. Two attempts give a first, a retry and an exhausted job; the theorems drop
these bounds for the queue. A stale window of two ticks leaves room for a fresh and
an ageing claim. Two requirements and two elements give a linked and a missing
requirement, an element shared and one nobody asked for. Issues are independent of
each other apart from their ids, so two of one kind suffice for ids to collide.
`MaxRechecks` bounds how often a re-check is asked for, `NJobs` how many jobs exist.
`ReviewBound` divides the behaviours of `review_run`. Issues that need the gate are raised where
there is no re-check (`Gating`), and two requests of any kind overlap there; when the serious and
the unevaluated one are both raised, the two are of different kinds (`Apart`) and what follows the
freeze is not explored. Re-checks rebuild the low finding beside one request (`Rechecking`), which
is where a decision falls between any two of their steps; two of them, which may overlap, carry
what was waved through or left alone, beside decisions only (`Waving`). Section 6 says what
becomes of the gate after a re-check.
Two runs are a run and its duplicate, or a run and its clone; two contents are an equal
and a different delivery; one day for drafts and two for runs tell the windows apart,
and a limit of two is met by two queued runs.

The queue of `console_run` has one job and three workers: what a stalled worker does to a job
is done to that job alone, and a third worker may take over from a second that stalls as well.
(Two jobs and two workers that stall are 1.1 million states; `GivenUpFairly` holds there too, and
the liveness takes longer than a run should.) Two jobs beside each other are in `names_run` and
`lifecycle_run`.

In `console_run` one request of each console is under way at a time (`Teachers`, `Editors`,
`Screens` have one member), beside everything that is one transaction: the promises checked
there are made for requests that do not overlap, and section 6 says what two do to them.
Two rules and two drafts are the least that can overlap; three versions a first, an edit and a
revert; two users the last administrator and somebody else; two questions and one
permitted meet the cap. A budget of two tokens with sends of one or two is met exactly and
overrun. `RulesBound` keeps to one rule table and one rule touched by hand in a behaviour;
`MeaningBound` to an entry or a guide and one row brought back by the Rules screen; neither
constrains the queue, so the liveness checked beside them is of the whole of it. For
`Criteria`, two bounds in a range of five values leave room below, between, above and on each;
two records have every smallest and largest value; an attribute under two names and one the
alias table never heard of give every way of pairing; three steps every order. Rules of two
conditions draw the second from a few.

In `names_run` the columns are one that resembles both attributes, one that resembles one of
them and has the words of the other, and one that resembles nothing; so a name is found by
each rung, tied, proposed, or out of reach. Two edits make a term and then accept, copy or
switch it off; one run meets every state of the tables two edits can leave, before, during
and after, because `AcceptedIsRead` asks about every delivery that could come next. One call
of the model meets the cap with two names to ask for. `NothingGoesUnread` compares what the
gate is silent about with the artifacts themselves and not with verdicts.

Beside the names, two codes that share an attribute at two scopes disagree or do not; two
paths and room for one sample a programme fill a shelf and overflow it; four saves are a first, an
edit, a removal and a revert. Three findings share a signature, one of them in shadow, a fourth
differs in the spelling of the customer and is grave, a fifth has no rule; two verdicts are
the threshold, and three bring a row there and back.

For `Extraction`, one requirement in every type and several spellings of each is linked with every
block, so that each answer meets its like and its opposite; a state by its name and by its code, in
a list of states and in one of values; answers of two requirements, of none, with unusable conditions, and in the shapes the fold knows are in between.

In `stages_run` the deliveries are chosen by what can go wrong: controls spelled otherwise,
nested, set to something else, absent; a programme none of whose words occur, with those of
another, of two or of none; parts that differ; columns that are full, half empty, empty,
nowhere; expressions over values of which one is missing, in every operator; judgments; more
high findings than the lenses may read. `SilenceIsAPass` tries every filling of a missing
value from five numbers below, at, between and above those that occur. Two threads of one
process are a reader and a request that changes what it reads; rows live for two ticks, so a reader can
be slower than they last. The workbooks are a copy of a sample, of two, of most of one, and of
none. The lines of a chat are at the share of a section, one over it, and longer than any share, in
every section at once; the answers are every text of up to five characters of which the marker
is made, with and without the marker and ten forms of a list of sources.

Deadlock is not checked: every instance is finite and stops when its jobs, its
re-checks or its run are used up, as the system does when nothing is asked of it.

Fairness. `Tick`: time passes. `Step(w)` and `Heartbeat(w)`, weakly: a worker process
is scheduled, and a supervisor restarts it when it dies (a crash itself is never
required and never excluded; the attempts bound how often one job can kill a
worker). `Commit(q)`: a request that started ends. `SweepInAnyOrder`: a worker queues a sweep
every day (`ensure_purge_scheduled`), and a sweep that is refused in no order commits in the end;
one that depends on the order may meet the wrong one every day. Submissions, decisions and holds
are people's and have no fairness; liveness is stated for a queue that is not held
for ever, because `run_once` neither claims nor reclaims while it is.

`Serial`, an action constraint of `lifecycle_run`, `lifecycle_frozen`, `review_frozen` and the runs of
`Submission`, lets nobody come between what one request reads and what it commits. It
is an assumption on the load, not a promise of the code; section 6 lists what fails
without it. The theorems of `RunLifecycle` and `TwinsHaveReasons` of `Submission` assume it
as those runs do; no other theorem does.

## 4. Proofs

`JobQueue_proofs` proves for any number of jobs and workers, any attempts, stale
window and backoff table allowed by the assumptions, with `Timely`:

* `TypeCorrect`, `NoTwoOwners`, `AttemptsAreBounded`, and `ClaimsAreRecorded`, on which the
  second rests;
* `HeartbeatsAreOwn`, `EndedJobsStayEnded`: its action properties, which no run repeats (the
  second is also part of the refinement);
* `QueueImplementsService`: `Spec` refines `JobService` under the mapping in
  `JobQueue` (initial states to initial states, every step to a step or a stutter).

None of the safety properties is inductive alone. That no two workers own a job
needs that a claim is recorded; that a recorded claim stays needs that reclaiming
takes no job of a live worker, so that the age of a live claim is bounded by the
stale window; that in turn needs that a live worker's heart still beats and that
time waits for it (`Timely`). A failure is written from what was read some time before; that
it is still so (`ReadIsCurrent`) follows since nobody else changes the row of a job whose owner
lives, and it is why `AttemptsAreBounded` needs no exception where the property has one. `IInv` is the
conjunction of those facts, and one step per action shows that it is kept: `Invariance`. The other
theorems follow from it, the refinement by a case per action.

`Stores_proofs` proves of `Submission`, for any runs, requests, contents and windows, with
requests interleaved in every way:

* `TypeCorrect`: in particular every run has a day on which it expires;
* `NewRunsAreKept`: a run submitted as a new one is not deleted before its window ends;
* `DraftsSurviveQuestions`: a submission leaves its draft and the draft's files alone; no run
  repeats it;
* `TwinsHaveReasons`, with `Serial`: equal deliveries stand side by side only with a reason or
  after a failure.

That a run without a source is kept is a matter of requests as much as of the sweep:
its window must be as long as it is owed (`NewRunsHaveTheirWindow`), a request that
submits or discards must work on a run that has a source (`DraftsHaveASource`), and two
creations must not share a run (`CreatesAreAlone`). The last two survive other requests
because a row is never absent again and never changes its source; `RowMoves` is the
relation all steps on rows satisfy, and `RequestsKept` the lemma that it suffices.
For twins the invariant adds that one request is open at a time (`OneRequest`), that a run that
is failed has that in its history (`FailuresAreRemembered`), and that a submission that was let
through has a reason or is still no duplicate when it commits (`AnswersStand`).
The corresponding statement for drafts, `SubmittedIsKept`, is false; see section 6.

`Pipeline_proofs` proves for any requirements, elements, deliveries and number of
attempts:

* `TypeCorrect`;
* `FirstAttemptsAreComplete`: a run that was never interrupted shows a reviewer exactly
  the issues `Reference` reads off the documents;
* `RecordsSayWhereTheyStopped` and `DoneStagesStayDone`: what the stage records say.

The stage records are done up to some stage and pending after the next (`Ordered`); a
worker's context agrees with the stored records from the stage it has reached on
(`ContextFollows`), so what it stores, after a failure or at the end, only adds. For the
findings `FirstAttempt` says what a first attempt holds before each stage:
`FindingsBefore` collects stage by stage what `FirstFindings` shows the stages make of
the delivery, and before the tenth stage that is `Reference` (`AllFindings`). `Reference`
asks about the documents and the stages about rules and traces, so the lemma is where
an element nobody links to, or a link to nothing, could have been lost. The statement
for runs that were resumed, `ReviewedIsComplete`, is false; see section 6.

The same module proves of `Opinions`, for any deliveries in which order is kept
(`OrdersAssumption`: reports, columns and rules are lists), any answers of the model and any cap:

* `NothingIsErased`: what code found is still a finding at the end, softened at most;
* `NothingUnreadIsHidden`: what was not asked, not answered or not read is said in a finding or a
  notice;
* `EveryPartHasItsVerdict`: each part of a report was judged by each check that is about it;
* `SilencePasses`: where nothing is said of an administrator's rule, it holds.

None says anything of the way there, so the invariant does. `NothingSkipped`: each step of the
stages is still to do or was dealt with, and `Dealt` says by what (the findings code alone would
raise, each there in a milder form if not as it was; a notice; a suggestion). `AnswersNoted`: each
answer left what its kind leaves. `HighOnesLeft`: each high finding the lenses are for is still to be read, or counted as unread and
told of. `OfTheStages` keeps the steps to those the delivery has. A second opinion replaces a
finding by one of its kind (`Kin`), and `Kin` is transitive, so that a finding may be softened by
several. For `SilencePasses` it has to be shown that an expression that came to a value with some
names missing comes to the same with anything in their place (`EvalKeeps`): parts are evaluated
in `Layers`, each of parts of lower ones (`LayersAssumption`), so it is an induction over layers.

`Training_proofs` proves `OverlapsWereDecided` and `CandidatesBecomeOneRule` of `LearnedRules`,
for any statements, drafts, rules and tables, with one request of the training screens at a time
(`OneTeacher`) and every other screen free. What has to be shown is that an approval may
commit on what it read some time ago. It may, because a learned rule that nobody touches by
hand only quietens (`Quiet`: it is switched off, superseded, deleted, forgotten, and never
put to run), so the overlaps found cover those that are left (`ApprovalsKnowTheOverlaps`).
Of `Meaning` it proves `TheRejectedStandDown` and `TheConfirmedRunAsWritten` with no
hypothesis at all, the interview overlapping whatever it likes. The invariant is about
every live row and not only those that run (`Stands`): a row that is in shadow today is
switched on tomorrow.

`Consoles_proofs` proves of

* `Versions`: `LatestIsTrue` and `NamesAreNotAhead`, with one editor at a time
  (`OneEditor`) and any number of runs starting: the snapshot an editor holds is what its
  rows will be when they are committed (`EditsAreTrue`), and what grows old or is purged was
  deleted already (`OldAreDeleted`);
* `Accounts`: `AnAdminRemains`, with one request of the users screen at a time
  (`OneScreen`): a request that takes an administrator away relies, until it commits, on
  another who is still there (`RequestsRelyOnAnother`);
* `ModelCalls`: `CallsSpend`, with no hypothesis: at each attempt of a call what
  was spent is below what it is allowed (`Allowance`), which is the budget before the first and
  a send more after each;
* `Chat`: `ReadersSeeTheProse`, for any answer, any marker and any pieces. `ShownIsTheProse`
  alone is not inductive, since what a piece adds depends on how much was shown before. The
  invariant says how much that is: `Released` of the symbols that have arrived, a number that
  does not depend on the pieces. It grows with what arrives (`ReleasedGrows`) and never passes
  the place where the marker first begins, which is the same in the answer and in any
  beginning of it that has the marker;
* `Chat`: `PacksKeepTheirCeiling`, for any run whose rows are lists of lengths
  (`ConversationsAssumption`). The budget does not bound the pack: a section that is trimmed gets
  a note that no budget counts, and so do line breaks. The invariant of the building, `PackHolds`,
  counts both: what the budget lost is what the blocks and their headings take, though the block
  that ends it may overrun it, by 119 characters at most; and each of at most eight notes takes
  137 at most. `SectionAdded` and `ReportAdded` are its steps, and
  `RenderedFits` adds up that the reserve pays for the rest. That a section is whole or told of
  (`Told`) goes along.

`RunLifecycle_proofs` proves, for any runs, jobs, workers and requests, with timely heartbeats
(`Timely`) and requests that commit before anybody else does (`Serial`, as the second half of the
specification): `RunTypeCorrect`, `NoRunIsStranded`, `OnePipelineAtATime` and
`CancelledStaysCancelled`. They follow from `TablesAgree`, whose invariant is the queue's own
(`QP!IInv`, instantiated and kept by each step because a step of this module is a step of the
queue or leaves it alone) with `Agreement`: a run has one pipeline job at most, none before it is
queued and none that could start once it is cancelled; when the rows of a pipeline were saved its
run no longer waits, so the job that is about to be marked done is not the one a waiting run
counts on (`SavedIsSettled`); and what a request has read is so until it commits
(`ReadsAreTrue`). Without `Timely` or without `Serial` a second pipeline is reachable
(section 6).

The same module proves of `Evidence` that `ReadingsAreReported` holds for any delivery, tables,
answers and edits (`ReadingsAreTold`). The report lists what the model had read by then, so it
has to be shown that each name the checks rest on was looked up before it, and is not looked
up again after it: what is still to come are headings that were not looked up
(`LateLooksAreNew`).

`WhatIsNotAskedWasRead` is `NothingGoesUnread` for any of these. A requirement the gate is silent
about has no finding; so it is not untraced (`UntracedIsTold`), and each name its checks rest on
was found (`ReadOrRaised`), which the report decides when it is made. What was found is a name of
the artifact (`FoundIsThere`), by code, which climbs a ladder of lists of the artifact's names, or by
the model, which is offered one. `DeliveriesAssumption` has that the names of an artifact are a list.

`AcceptedIsReadByCode` is `AcceptedIsRead`: what is accepted is read, for any names in one order,
proposals of what the tables can hold (`NamesAssumption`), forms and catalogue (`EditorAssumption`).
A run loads the terms scope by scope and looks a name up in the first that claims it. If no
narrower term in force claims the name, that is the term that was taught (`FirstOfTheTable`,
which needs that the database sorts each name at one place), so the spelling is among the
alternates, and the ladder stops at it or above (`CodeReads`). The invariant `OffersIInv` types
what was offered: a run proposes only names, of what its checks asked for or the model read.

`Review_proofs` proves of `Review`, for any issues, reviewers, requests and workers, with
requests interleaved in every way:

* `ReviewTypeCorrect`; `ReportIsFinal` and `DecisionsAreCarried`, which hold of every step;
* `GapsAreSeen` and `SomebodyElseSigned`: until a re-check is saved (`generation = 0`, the
  condition the model-checked run has as its bound) no gap is frozen unseen, and nothing waved
  through is signed by who waved it, except what was decided (`DecidedMeanwhile`) or signed
  (`SignedMeanwhile`) between the gate's SELECTs and the page's;
* `FrozenInTimeStaysTrue`: a report frozen then keeps both for good, re-checks included.

The invariant is `FirstRows`: an id names one issue for as long as no re-check gives ids
anew, so an acknowledgement read some time ago is still one of its issue, and what the gate
let through is true of the page a finalizer carries (`ReportIsTrue`), whenever it is stored.
Between the SELECTs the invariant says of each page under way what was read of it so far
(`Assured`): its gaps were seen, since what is acknowledged stays so; the signature the gate accepted
is of none of those who had decided the waved findings it saw (`SignedFor`); and its rows name who
made their decisions, where one person did (`MadeBy`). A row that reads as the gate saw it thus
has a maker who did not sign.
`DecisionsAreCarried` has as its exception the issues decided between the worker's SELECT and its
DELETE (`DecidedSince`), and no other.
After a re-check both statements are false; see section 6.

Of `Signatures` it proves `RowsAreTheirVerdicts`, for any finite number of findings, with
decisions, deletions and re-checks interleaved in every way. A request
concludes from the verdicts it reads and writes later; the invariant says that it concludes on
every signature it decides a finding of (`Covers`), and that its conclusion is what the verdicts
will add up to, until somebody decides on the same signature in between, which is then
remembered (`ConclusionsHold`); rows that nothing of the kind befell follow their verdicts
(`RowsFollow`).

Of `Criteria` it proves `DerivedChecksAreRight`, which is `ChecksJudgeTheRecords` for any
attributes, alias table, numbers and requirements that fit the schema (`ReadingsAssumption`):
what the smallest and the largest value say of a bound they say of every record
(`DeliveryJudged`), and a record meets the bounds of a condition exactly when it keeps it, those
of its inverse exactly when it does not (`ConditionSays`).

`DifferencesAreFound` is `FindingsAreDifferences` for any of these with room around the bounds
(`BoundsAssumption`). Two ranges that differ in a bound, or in whether it is theirs, are told apart
by a number on it, next to it or beyond all of them (`LowerBound`, `UpperBound`, `RangesDiffer`),
if neither is empty. What stage 5 compares a condition with is one of those it could be about, and
one stands for all (`CounterpartFacts`). The steps of a waterfall are compared as what two lists
keep of each other; that is one list just when a climb through the configured steps meets the
required ones, since two climbs that meet the same places are one (`StepsCompared`, `SameClimb`).

Of `Extraction` it proves `FindingsAreWhatWasSaid`, which is `ComparedAsSaid` for any answers in
order, tables and links. The invariant keeps with every rule and every block what was said of it
(`Makes`): what passes the schema is what the fold makes of it (`FoldedIsSaid`), a link leads to
a block of the same kind (`LinkedToItsKind`), and a condition that is read is a range of the same
values as the one that is meant (`ReadAsMeant`), which is where a number read out of a text
must not be a text again. The rest is `DifferencesAreFound`, of the conditions as they were read.

`Stores_proofs` proves, with no hypothesis and every request overlapping every other,

* of `ProductCodes`: `SharedTermsAgree` and `ReportsReproduce`. A save that was checked some time
  ago may still be written, because what was written since was written while it was pending, and
  that is what the exception in the property remembers (`SavesWereChecked`);
* of `Settings`: `ChangesReachEverybody`, for any keys, processes and threads. What a thread has
  read (`ReadIsRecent`) and what a process keeps (`RowsAreRecent`) was in force no longer ago than
  the reading of it was begun, and only who was asked a setting reads (`ReadersAsk`);
* of `Library`: `NothingUnrecorded`: each save, revert and removal leaves a log whose latest entry is
  what is there;
* of `Intake`: `WaitingIsForSomething`, for any number of people who accept: what a request has read
  covers what is open until it commits (`ReadsCover`), and is exactly that until somebody else's
  commits in between (`ReadsCurrent`).

Each of these modules has a theorem of type correctness for the components it is about as well.

`Subsequences_proofs` is what these rest on where the code makes lists of lists. The prover knows
nothing of `SelectSeq` or a fold, and no lemma about them can be stated since their argument is an
operator; `Kept` takes a set instead, and is a flattened list of lists of one element or none.
`FlattenFacts`, `KeptFacts` and `OccursInKept` say what is in such a list, `KeptInOrder` and `KeptIs`
in what order.
`AlongSeq` and `NumberByNumber` are inductions with a set for the predicate.

What the proofs showed about the models: a CASE whose guards overlap takes any branch, where the code
takes the first. TLC takes the first too, so no run told; the proofs did not go through. The places
are IFs now. `FindingsAreDifferences` and `ComparedAsSaid` were false where no instance reached: an
empty range keeps what every other empty one does and has other bounds, steps that repeat are met
by more climbs than one, an empty list had bounds, and a state's name meant its code in any list,
where the code looks names up among states alone. And the reason the ceiling of a pack holds is not the one the code gives: no budget
counts the notes, and only the reserve makes up for it.

Model-checked only, and why:

* liveness: fairness and ENABLED are out of the prover's reach;
* the queue without `Timely`, and `RunLifecycle` and `Submission` for requests that do overlap: the
  runs that expect a violation and section 6 show what fails there.

## 5. Plan

1. `JobQueue` with `JobService`, proved. 2. `RunLifecycle`, its safety properties proved.
3. `Pipeline`, its safety properties proved.
4. `Review`, proved up to the first re-check. 5. `Submission` with retention, proved.
6. `ModelCalls`. 7. `LearnedRules`, `Meaning`, `Versions`. 8. `Accounts`, all five proved.
9. `Criteria`: comparison and derived checks against what rules mean, proved.
10. `Dictionary` and
`Evidence`: names, the record of what was read, coverage and what is accepted, proved.
11. `AdminChecks` and
`Opinions`: what administrators write and what the model answers, proved. 12. `Settings`, `ProductCodes`,
`Library`: what else the consoles keep, proved. 13. `Intake`, its waiting run proved, and
`Extraction`, proved: the two ends before the
comparison. 14. `Chat` and `Signatures`: what becomes of a report and of its verdicts, proved.

Left: the promises of the consoles with the locks they would need for overlapping requests.

Not modelled, and why:

* The readers of spreadsheets, JSON, PDF and DOCX, prompts, layouts, fixtures, migrations,
  schemas, the two interfaces, deployment: they read, write or arrange data, and nothing in
  them can happen in another order. They are more than half of the implementation's lines; the
  routers of the consoles are mostly reading and arranging too.
* What makes two names resemble is their characters. The models take it as given. What a type
  is told by (`Intake`) is tokens after normalization.
* Statistics of anomalies, usage, spend and value are aggregations nobody acts on by machine.
* Replay and precision of a rule in shadow: each reads stored runs and stores one summary.
  (Read in the code: a candidate with nothing to evaluate counts a run as examined, though
  docs/phase-6.13.md:174 has that it "means examined"; a replay job that is given up leaves its
  candidate running.)
* Announcements: rows with one writer and no state that outlives a request.

## 6. What disagrees with the documentation

Counterexamples of the runs above; `PROJECT.json` quotes the line each contradicts.

* `lifecycle_frozen`: a reclaimed job runs a finalized run again when its worker died
  after the verdict.
* `pipeline_resume`: a resumed run has the stage records of its first attempt and none
  of its results, so findings are missing.
* `review_frozen`: a re-check queued before a report was frozen replaces its findings
  afterwards.
* `submission_kept`: a draft that is submitted gets the window of a draft, because the
  window is chosen before the status changes.
* `submission_stuck`: the run whose record layout was promoted can never be deleted, and
  once it expires no sweep deletes anything. (A learned spelling's `origin_run_id` is
  the same kind of reference.) A clone's `cloned_from_id` stops the sweep for as long as the clone
  is kept, and then for as long as the table returns the source before the clone: both are
  expired, the source is deleted first, its deletion is flushed by the next run's queries and
  refused, and everything is rolled back (db/repository.py:1194-1203, db/models.py:209).
  `SweptUnlessReferredTo`, what is left of the promise, excludes both.

* `stages_parts`: of a report in several parts an administrator's constraint, and his checks,
  see the first.

Seen with TLC while modelling, with the property and the constants named, and not kept
as standing runs:

* A worker that was superseded refreshes its successor's claim (`HeartbeatIsOwn` in
  `JobQueue`, `Timely = FALSE`). It may also report its failure late: `fail` loads the row without
  a lock (db/queue.py:294) and writes by id (db/queue.py:314), so a job that was reclaimed and claimed
  for its last attempt in between goes back to the queue and is claimed beyond `max_attempts`
  (`GivenUpFairly` without `late`); a job that is done is queued again (`EndedForGood`). With
  heartbeats in time neither can happen, which is proved.
* A run that will be retried flashes `failed` between two transactions, and one that
  awaits a retry can be cancelled as if it had not started (`NoFailedFlash`,
  `CancelledUnstarted` in `RunLifecycle`).
* Two people accepting one held run queue it twice, and a job claimed between a
  cancellation's check and its commit revives the run (`OnePipeline`, `CancelledForGood`
  in `RunLifecycle` without `Serial`).
* After a re-check two findings may carry one id, and an acknowledgement of one covers
  the other (`FindingIdsAreUnique`, `NoGapFrozenUnseen` in `Review`, `MaxRechecks = 1`).
* The second approval is not compared with what it covered, and a re-check forgets
  whose decision it must differ from (`ApprovalCoversWaved`, `ApproverIsSomebodyElse`).
* Finalizing reads the gate, the attestation and the findings in separate statements
  (api/gate.py:244-275, api/routers/reports.py:194-215). A decision or a signature committed in between is
  on the page and was not before the gate: the approver may wave a finding through after the gate
  saw their signature as somebody else's, or a signature may be replaced after it counted, and
  the report shows a finding signed for by its maker or by nobody (`NobodySignsForThemselves`,
  `MaxRechecks = 0`; `ApproverIsSomebodyElse` is what holds). Two decisions that cross may leave
  the status of the one under the name of the other, as each writes the columns it changed; such a
  decision was made by no one person, and the property asks for some signature only.
* A decision, or a correction made during a re-check, can be lost to one
  (`DecisionsSurvive`, `CorrectionsSurvive`). A decision committed between the SELECT of the
  previous findings and their DELETE (db/repository.py:857-863) is answered 200, and is neither carried
  nor refused (`AgreedDecisionsSurvive` without `DecidedSince`).
* Findings of a frozen run can be decided in bulk, and the loser of two finalizations
  overwrites the winner's file (`FrozenDecisionsStay`, `FileMatchesReport`).
* Of two equal deliveries submitted at once both are run, and the files of a run can
  change while it is being submitted (`TwinsAreExplained`, `PrintIsOfTheFiles` in
  `Submission` with two requests, without `Serial`).
* A refused artifact leaves rows that name files which are gone, or files that no run
  owns (`RowsHaveTheirBytes`, `NoOrphanedBytes`).

Seen with TLC in the instance of `names_run`:

* Approving a reviewer's mapping looks at no other term, so a name gets a second owner; so it
  can, within one copy, of the legacy aliases (`OneNameOneAttribute`; the former alone with
  `NewAliases = {}`).
* A suggestion can be accepted into a term that is switched off, one that a narrower term
  hides, or for a name that is another term's spelling. It is never read, and no longer
  offered (`AcceptedIsHeeded`).
* The dictionary is consulted only for names that already resemble the one wanted, and for
  the first five of those, so a recorded spelling can be reported missing
  (`RecordedIsNotMissing`, `MaxEdits = 1`).
* Columns of the profile and of the waterfall are looked for after the readings were written
  down, and what is read then is reported to nobody (`EveryReadingIsReported`, `MaxEdits = 0`).

Seen with TLC in the instance of `console_run`, with the change named:

* With two editors the snapshot of the one misses the rows of the other, and the latest
  version says less than what runs until the next edit (`LatestSaysWhatRuns`); a run may then be
  given what no version says (`NeverOlderThanNamed`).
* With two requests of the users screen two administrators can each be taken away relying on
  the other (`SomeAdminRemains`; docs/decisions.md:1833 says it cannot be left to nobody).
* With two approvals one draft becomes two rules, and overlapping rules run undecided
  (`OneRulePerCandidate`, `OverlapsAreDecided`).
* A requirement that rejects on several conditions at once ("reject if x < 1 and y < 1")
  derives one inverted check for each, as if each alone were a reason, and so fails
  deliveries that obey it (`ChecksJudgeTheRecords` without `JudgesRecords`). For conditions
  joined by OR, where inverting each would be right, it derives nothing;
  rules/derive.py:219 gives the reason that holds for an acceptance.
* Of two conditions on one attribute ("x >= 1 and x < 3") stage 5 keeps the configuration's
  last, so the same rule on both sides has a value mismatch with itself. Conditions without
  an interval (`!=`, `in`, `not_in`) are compared by operator alone, so `x != 1` agrees with
  `x != 3` (`FindingsAreDifferences` without `Comparable`).

Read in the code while modelling; the models have these as behaviours and no property
excludes them:

* Deleting a deleted rule again restarts its restore window, and a tombstone that was purged
  can so be restored, blank. Withdrawing a statement leaves its draft approvable. Rejecting an
  approved draft leaves its rule running. The rule screens write `is_active` and not `state`,
  and switching an archived version of a check on leaves two of it running. An import moves
  states without a record in the rule's history.
* Taking a confirmed meaning back to proposed leaves its check running; an interview that began
  before a confirmation overwrites what was confirmed, and turns rejected entries into
  proposals; the revert of an artifact type restores a guide and compiles nothing.
* A resumed attempt names the versions of its own start though its first stages ran with
  older ones. Deleting an artifact type deletes its versions, and a later type of that name
  numbers from one again. `prune_versions`, `remove_orphan_samples` and `purge_expired_cache`
  have no caller.
* The count of wrong passwords in a password change is rolled back with the refusal.
* A budget belongs to an attempt and not to a run; a log dies with its worker; a re-check
  never stores its log; the cap of questions is counted before the question is stored.
* What a rule that tags says is checked like an acceptance, and the population of a derived
  check is written down and not looked at. Stage 5 compares neither actions nor how
  conditions are joined.
* The term editor refuses one canonical name at two scopes, which the loader is written for.
  The offers of the record layout are labelled with the DIRT; accepted for that artifact they
  are not read in the layout. Calls of the model are counted against the cap without a model.
  Copying aliases extends a term for everybody by the aliases of one customer. An attribute
  name with a comma or a bracket is cut when `_unresolved_names` reads it back from a title.
  A requirement that lists no attribute and no code is counted as checked.
* A check or a control scoped to one configuration never runs: `applies_to` is told the
  customer and the programme (checks/definitions.py:90 and 141; docs/decisions.md:693 has the
  scope for everything an administrator writes).
* A named value nobody found is in the table as nothing, so an expression over it could not be
  evaluated while the model is asked to judge `name = None` (docs/decisions.md, ADR-039).
* A lens that reads a finding of a rule in shadow may propose another, which is not in
  shadow and quotes its evidence; shadow findings also spend the cap (ADR-040 has that a
  shadow rule shows nothing of what it found).
* Saving a check evaluates it for ones, which a chain that ends early or a division by
  `b - c` make a bad sample of: the former is not walked, the latter refused. `abs` of a text
  raises where nobody expects it, and the run fails with its stage (`ExpressionRaises`).
* A range without usable bounds passes every number. A labelled date is read by the first format
  it fits, month before day, while the search for a date without a label takes either.
* An agreement of the model with the declared programme takes the finding back when no other
  programme's words occur; the words it read are suggested (`SoftenedNotErased` allows it).
* The reading of a profile's shape is shown sixty attributes and believed about all of them.
* `reject_observation` looks at no status, so an approved mapping can be rejected, then
  withdrawn, and its spelling stays. A dictionary edit between a run and its re-check changes
  what the model is shown, so the re-check's calls need not be in the cache.

Seen with TLC in the instances of the later modules, with the property named:

* The schema is checked before the fold (llm/base.py:482), so the synonyms the fold was
  written for (s2_extract.py:213) never reach it. A requirement whose payload does not fit is
  dropped, and no untraced requirement tells of it, as `to_rule` says one would
  (`EveryRequirementIsARule` in `Extraction`).
* The history of earlier runs is listed newest first and cut from the front, so the newest goes
  first, while textfit.py:16 says the oldest do (`HistoryKeepsTheNewest` in `Chat`). A report's
  own text that is clipped or left out is not among what the pack says it trimmed
  (`ReportIsWholeOrTold`).
* What a deleted run leaves behind, and two spellings of one customer, which share a row and are
  counted apart, make a signature's row other than its verdicts, while signatures.py:8 has a
  deleted run "land correctly" (`RowIsAlwaysItsVerdicts` in `Signatures`).

Read in the code while modelling those:

* Extraction: conditions that cannot be used are dropped without a finding, and nothing lowers the
  confidence `_interval_or_none` refers to. A number is the first in any text, so `[1,3]` reads as 1.
  A sole element of another path is taken for the one that was asked about; a block nobody
  described is technical. A low confidence in an element, and a verdict that contradicts, are
  flagged nowhere. Stage 4 equates "reject below 21" with "accept from 21 on" where stage 5 has a
  mismatch. Product codes are expanded for requirements alone. No answer sets how conditions are
  joined.
* Chat: the ids of trimmed lines may be cited. The note of a trimmed section and the line breaks
  of headings are counted in no budget; the reserve absorbs them, which `PackKeepsItsCeiling`
  shows (pack.py says nine sections can each add a note; eight can).
* Signatures: two decisions that both add a row conflict and one is undone; deciding low findings
  in bulk decides those in shadow as well.
* Settings: a reader that overlaps a change may keep the old rows when the change has dropped
  them (config/store.py:54), for as long as rows live; a value that was rolled back may be kept as
  long. `ConfigChange.old_value` may be of another change. Rows of a table that cannot be read
  have no age limit. The settings of one load may be of two moments.
* Product codes: an empty catalogue is kept like none, so such a run is compared with what is
  saved later (`ReportReproduces` excludes it). `_conflicts_by_attribute` sees rows for
  everywhere alone. A save looks a code up as typed and stores it stripped.
* Library: "The save is a version" (admin.py:627), but the snapshot has no layout. A revert
  compiles no guide, leaves a sample that is there in the programme it has, and may exceed the most
  samples. A revert of labels inserts before it deletes and is refused by the unique index.
  `remove_orphan_samples` is called by tests alone, though admin.py:860 has the sweep do it.
* Intake: the samples of a type are merged, so a copy of one of several may be told, with confidence,
  for another type (`CopyIsItsOwn` is about an only sample). Scores are rounded, and a margin of
  0.15 in floating point can fall under it. Two people who accept the last different mismatches at
  once leave the run held with none open (models.py:1112 has it held for as long as one is).
