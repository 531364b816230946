# TLA+ models of JOB-BORG

JOB-BORG ingests job postings from employers' boards, classifies them, matches them
with user profiles, and fills in and submits applications on the user's behalf.  It
is a Django application with Celery workers, Celery beat, Postgres, a Redis cache
and file storage.  This directory models the parts whose correctness depends on
what happens *between* those processes, checks the models with TLC on small
instances, and proves the main results for all values of the constants with TLAPS.
All paths below are relative to the repository root (`src/`).

    tlc -workers 2 -config ReviewRaces.cfg MCAutoApply     # one of the runs
    tlapm AutoApplyProofs.tla                              # one of the proofs

`PROJECT.json` lists the runs, the theorems, the faulty variants that show each
property can fail, and for every definition the lines it translates.

## 1. The system

| component | code | state it keeps | operations | talks to |
|---|---|---|---|---|
| Ingestion and closure | `apps/jobs/tasks.py`, `jobs/ingestion/upsert.py` | `Job` rows: content hash, tags, `needs_classification`, status, `scraped_at` | hourly fetch of each board, upsert, reopening, closure | classification (message per fetch) |
| Board discovery | `apps/jobs/admin.py`, `jobs/tasks.py`, `ingestion/register.py`, `board_search.py` | `DiscoveredBoard`, `JobSource`, `Employer` | daily search, approve, reject, command | ingestion (which boards exist) |
| Board clients | `jobs/ingestion/*_client.py`, `vendor/workday/scraper.py` | what one fetch has read | pages, splits, retries | ingestion (what a board lists) |
| Classification | `apps/classification/` | tags and flag of `Job` rows | batch over given ids, sweep every five minutes | matching (message per changed job) |
| Matching | `apps/matching/` | `UserJobMatch` rows, rematch token in the cache | match a job, rematch a profile (debounced) | triggered by classification and by profile saves |
| Locations | `apps/locations/` | the dataset of places; normalized locations with an alias version | build the dataset, resolve a text, versioned backfill | ingestion, profile saves, matching |
| Profile and resume | `apps/accounts/models.py`, `web/forms_profile.py` | `Profile`, resume file in storage | edit, replace or clear the resume, retire drafts that use it | drafting, submission |
| Profile import | `apps/accounts/importing/`, `accounts/tasks.py` | `ImportJob`, proposals, uploads, GitHub's quota in the cache | parse, review, apply, sweep of stuck imports | profile, entries, skills |
| Answers and learning | `apps/accounts/services/`, `auto_apply/services/answer_memory.py`, `questions_panel.py` | `AnswerBank`, observations, suggestions, cached panel | resolve, remember, nightly learning, edits | drafting, review |
| Drafting and review queue | `apps/auto_apply/services/`, `apps/web/views.py` | `AutoApplyDraft` rows | trigger, draft, edit, confirm, discard, send | submission (message per send) |
| Submission and sweep | `apps/auto_apply/tasks.py` | draft status, verification lease in the cache | submit run, retry for the lease, staleness sweep | employer, inbox |
| Greenhouse client | `apps/auto_apply/greenhouse_form/client.py` | a browser | fill, click, confirm, enter the emailed code | employer's form |
| Email verification | `apps/auto_apply/email_verification/` | inbox credential | poll for a code until a deadline | IMAP |
| Applications | `apps/applications/models.py` | `JobApplication` | marks by the user, APPLIED by a submission | drafting guard |

Behaviour that is hard to test: handlers that read a row and save it minutes later
(drafting, editing, classification, matching, profile forms); messages published
after a commit and delivered at most once; workers killed by a hard time limit in
the middle of a run; a sweep that settles drafts by age while their runs may still
be alive; a lease with an expiry; several triggers for one job; fetches of one
board that overtake each other; a debounce that depends on a cache; imports that
overlap with each other, with edits and with the sweep that closes them; a learner
that acts on rows the user has changed since; names and slugs several things claim.
`PROJECT.json` lists the hazards line by line.

What makes the components correct:

- *review and submission*: one active draft per job; nothing the user has not
  confirmed is filed; nothing is filed without Send, or twice for a draft; APPLIED
  means filed; two runs never poll one inbox together; the sweep does not fail a
  live run within its budget; every draft that is being sent is settled;
- *pipeline*: rows end up as the boards are; every flagged row is classified, with
  the tags of its content; the matches of a user are those of the profile as it is;
- *imports*: uploads and proposals go, whatever is lost; a value the user typed is
  never replaced by an import (up to case and spacing); overlapping imports leave one
  entry per project; runs that end early never weaken the evidence stored for a skill;
  no refusal by GitHub lasts;
- *answers*: what is filled in does not contradict a setting, comes from no other
  country and is not guessed where the user has answered, each with the exceptions
  that the property states and section 5 lists; a learned answer was typed for two
  employers and never replaces the user's; the panel ends up current;
- *boards*: a decision stands; an approved board's jobs are its own company's; every
  board that can be fetched is found; a fetch that returns has the whole board, except
  for what a Workday query at the cap, or a Workday body without its fields, hides;
- *locations*: a name that is resolved has one reading (of several cities of a name
  the largest is taken, and a city comes before the region of its name); what a text
  says of country and region is kept; a row's place is derived from its own text;
  every row becomes current.

## 2. Modules

| module | models |
|---|---|
| `DraftAnswers` | one answer of a draft: how drafting can leave it, carry-forward from an earlier draft, edit, confirmation, the checks of Send, the submitted snapshot (pure operators) |
| `DraftLifecycle` | the abstract specification of the drafts of one user |
| `AutoApply` | drafting, review queue, submit task, lease, sweep, resume replacement and their surroundings for one user; extends `DraftAnswers` and instantiates `DraftLifecycle` |
| `AutoApplyInvariant` | the inductive invariant of `AutoApply`, in named parts |
| `AutoApplyProofs`, `AutoApplyRefinement`, `DraftLifecycleProofs` | proofs |
| `JobPipeline` | ingestion, classification and matching for all users |
| `JobPipelineProofs` | proofs |
| `Prefilter` | the prefilter as a predicate and as a database query in SQL's three-valued logic |
| `ImportJobs` | import jobs of a user: upload, claim, extraction, review, expiry, sweep |
| `ImportReview` | the columns both the user and an import write, and their provenance |
| `ResumeFacts`, `SkillYears`, `GitHubEvidence` | entries and skills a review stores; years per skill; what repositories prove (the last two pure) |
| `GitHubImport` | imports of all users under GitHub's quota |
| `AnswerMemory` | one question of one profile: saved answer, votes, suggestions, learner |
| `AnswerSources` | where an answer comes from and what may be saved (pure operators) |
| `PanelCache` | the cached questions panel |
| `BoardDiscovery` | search, review and registration of boards |
| `BoardFetch` | one fetch of a board, with pages, splits and retries |
| `Gazetteer`, `PlaceResolution` | the location dataset and the resolution of a text against it (pure operators) |
| `LocationBackfill` | the versioned backfill against writers and deployments |
| `ImportProofs` | proofs about resume facts, years, evidence, import jobs and GitHub imports; lemmas about finite sets, functions and recursive functions that the others use |
| `ComponentProofs`, `LocationProofs` | proofs about the prefilter, reviews, boards, fetches, answers and the panel; about places and the backfill |
| `MCAutoApply`, `MCJobPipeline`, `MCComponents` | instances for TLC |
| `MCSources`, `MCBoardFetch`, `MCPlaces` | parts of `MCComponents`: the questions, applicants and rows, the board, the datasets |
| `MCComponentsProofs` | the properties of the run `Components`, from the theorems about its parts |

Definitions marked `Fault:` are faulty variants of the definition that follows them.
No specification uses them; substituting one shows that a property can fail.

### AutoApply and the code

A handler that reads and saves later is two actions, with what it has read kept in
`request[q]` (web) or `worker[w]` (Celery).  A conditional `UPDATE` is one action.

| action | code |
|---|---|
| `TriggerAutoApply`, `StartDrafting`, `PersistDraft`, `PersistExcluded`, `AbandonDrafting` | `web/views.py` trigger, `tasks.draft_auto_apply`, `drafting.draft_for`, `_carry_forward_confirmed_answers`, `_persist_draft` and its unique constraint |
| `BeginEdit`/`FinishEdit`, `BeginConfirm`/`FinishConfirm`, `Discard`, `Send` | the review views |
| `SkipSettled`, `RefuseUnconfirmed`, `RefuseClosedJob`, `RetryForLease`, `RetryDue`, `StartSubmit` | `submit_auto_apply_draft` up to the browser |
| `MaterializeFile`, `ClickSubmit`, `StartPolling`, `EnterCode`, `SeeSuccess`, `Fail*`, `RecordApplied` | the run, with the outcomes of the Greenhouse client and the code lookup |
| `Sweep`, `Tick`, `Crash`, `LoseSubmit`, `LoseDrafting` | the periodic sweep, clocks, kills, lost messages |
| `LoadProfile`/`SaveProfile`, `SetResume`, `ReadReferencing`, `RetireResume` | the profile form, `Profile.set_resume`, `_retire_previous_resume` |
| `MarkApplication`, `SetInbox`, `SetJobStatus` | the rest of the product, as far as these handlers read it |

State: a draft row is `status`, `reason`, `target`, `answers`, `file`, `snapshot`,
`linked` (its `JobApplication`), `age` and `older` (what `updated_at` is used for);
`lease` is the cache key with owner token and expiry; `draftQueue` and
`submitQueue` are the messages; `filed[d]` is what the employer has received.

What is merged or abstracted, and why that loses nothing the properties see:

- one user: every query of these handlers, and the lease key, is scoped to one;
- Send checks the answers and then updates `WHERE answers = <the checked ones>`, so
  check and update are one action;
- the guards of the submit task and the read of the row are one action, as are the
  two `UPDATE`s of the sweep, the read of the previous draft and the creation of the
  new one, and the retirement of drafts with the deletion of the file (the *read* of
  the drafts to retire is separate: `ReadReferencing`);
- what drafting infers is any function from fields to the given `Inferred` entries:
  resolver, LLM, option matching and captcha adapters only choose among them;
- writes to the answer bank, observations and suggestions are `AnswerMemory`, which
  no handler of this module reads back except through what drafting infers;
- Celery acknowledges early (the default), so a message is delivered at most once
  and a killed run is lost;
- time advances in units; `age` counts only while it matters; constants keep the
  order that `auto_apply/checks.py` E001 enforces and nothing more.

### JobPipeline and the code

| action | code |
|---|---|
| `StartIngest`, `Upsert` | `ingest_source`: the fetch, and the transaction `upsert_jobs` with the message after it |
| `StartClassify`, `StartSweep`, `ClassifyNext` | `_classify_batch`: select and read the batch; then row by row save tags, clear the flag, publish |
| `StartMatch`, `CommitMatch` | `match_job_to_profiles`: read job and candidates; then delete and upsert matches |
| `SaveProfile` | a profile save with its post-save signal, `schedule_rematch` |
| `StartRematch`, `CommitRematch` | `rematch_profile`: token check and reads; then the writes |
| `ChangeBoard`, `Age`, `LoseMessage`, `ExpireToken`, `Crash` | the outside world, the rematch window, failures |

A posting's content is one value (its content hash), `TagsOf` is the ruleset, `Fits`
the prefilter; a match records what it was computed from, which is all that a score
depends on.  The debounce delay is the freedom of a queued rematch to start at any
time.  Queues are sets, since a second identical message changes nothing.  Sources
are those of one platform and stay active; `ingest_all_active_sources` visits them
one after the other and skips one that fails, so each is an independent task here.
The upsert is one transaction and is one action; under READ COMMITTED a
classification can commit inside it, but then the row it touches is either left as
classified or flagged again.  A content change that leaves the tags as they are
triggers no matching; that is the documented design
(`docs/plans/2026-07-18-001-feat-jobborg-v1-plan.md:199`).

### Imports and the code

| action | code |
|---|---|
| `StartImport`, `StoreUpload`, `PublishImport` | `start_document_import`, `start_github_import`: the row under its unique constraint, the file, the row again and the task |
| `SkipImport`, `ClaimImport`, `Extract`, `FinishImport` | `run_job` and `_finish`: conditional claim, reads, full-row save |
| `ApplyJob`, `DiscardJob` | `apply_review` under its lock, discard; what is written is `ApplyReview`, `AcceptEntries`, `AcceptSkill` |
| `BeginSweep`, `SweepRow`, `SweepStuck`, `EndSweep` | `service.sweep`, query by query and row by row |
| `GrowLate`, `LoseImportMessage`, `KillImportWorker`, `KillImportRequest` | time and failures |
| `SaveSearchPage`, `SaveAnswersPage`, `ApplyReview` | the profile forms with `record_user_edits`; `apply_imported` |
| `ApplyEntries`, `DeleteEntry`, `AcceptSkill`, `DismissSkill` | `apply_entries`, `apply_skills` with `merge_evidence`, the pages that remove them |
| `StartGitHub`, `FetchUser`, `FetchPage`, `FetchPinned`, `LookDeeper`, `BudgetIsSpent`, `GitHubTimeIsUp`, `FinishGitHub`, `FailGitHub` | `_github_full_mode`, `fetch_profile` call by call, and what `run_github_job` remembers of the quota |

A row of an import is its status, whether it holds proposals and a file, and whether
it is late (for being stuck, or for its review): that is all the sweep and the review
read.  The worker keeps what it read of the row, since it saves every column.  A slot
is used again when nothing refers to the deleted row, which makes one bound out of
any number of imports.  In `ImportReview` a submitted form may carry any values, so
pages may be arbitrarily old; two requests do not overlap (section 5 says what
happens when they do).  A value is what `clean_field` leaves of it, and `Spelling` the
sets of values that `_norm` takes for one: a review compares what was posted with what
was proposed by it (`review.py:207`, `:326`), a profile page compares to the letter.
`typed` is a history variable, which says what of a value the user has typed: nothing,
its spelling, or the value itself.  A column that holds a list is one value here.

In `ResumeFacts` a review is accepted as a whole (`AcceptEntries`) or skill by skill,
in any order and in any of the three modes; `shown` is a history variable, the evidence
that reviews have shown of the skill since the last full run.

In `GitHubImport` a call has a status and may or may not say what is left
(`github.py:103-112`): a 403 or 429 is a refusal whatever is left, any answer but a 404
that says nothing is left is taken for one, and every call GitHub hears of counts, an
answer of 404 or 500 too; a call may also fail with nothing heard, counted by GitHub or
not.  A successful import remembers the number it heard for `KeepTime`
(`service.py:319`), a refusal is remembered for `BlockTime` (`service.py:339`).

### Answers and the code

| action or operator | code |
|---|---|
| `RecordObservation` | what a sent application leaves in `AnswerObservation` |
| `SaveAnswer`, `QuickFill`, `RememberReviewed`, `DeleteAnswer` | the answers page, the panel, the review page: `write_answer`, `delete_answer` |
| `Promote`, `Forget`, `AcceptSuggestion`, `DismissSuggestion`, `ToggleLearning` | the learning page |
| `StartLearning`, `SweepLearning`, `WithdrawAnswer`, `WriteLearned`, `SuggestLearned`, `LearnerDies` | `learn_for_profile`: the decision on the rows it has read, then each write; by message and by the nightly sweep |
| `TypedFact`, `BankRow`, `LegacyApplies`, `ResolveAnswer`, `FieldAnswer` | `typed_facts.resolve`, `_bank_row`, `resolve_answer`, `resolve_field_answers` |
| `Inferred` | the checks of a language model's reply |
| `SettingsOwned`, `PanelRefuses`, `Candidates`, `Remembered` | `answer_memory`, the quick-fill of the panel, `find_candidates` |
| `ChangeFacts`, `ChangeSilently`, `DropPanel`, `LoseDrop`, `BuildPanel`, `StorePanel`, `ExpirePanel` | `get_panel`, `invalidate_questions_panel` and those that call it or do not |

A question is what the classifiers read in its text: its kind, the countries named,
whether one could not be resolved, whether it says "without restriction", and what
`tiering.py` makes of it, which reads the text by patterns of its own (`excluded`, kept
from the language model; `held`, shown for confirmation).  A form is the set of answers
it takes.  A row of the old page is a yes or no, a text, or the salary band of a region.
The learner looks at the newest vote of each employer, so the two newest votes are kept.
A question is of one kind: one that combines two is outside `AnswerSources`, and so is
what the custom answers page and the learner save (the learner is `AnswerMemory`).
Of the branch of the panel that shows an excluded status or pay question without
suggestions (`questions_panel.py:158`) the model keeps that nothing is saved from it.

### Boards, locations and the code

| action or operator | code |
|---|---|
| `StartSearch`, `QueueBoard`, `PassOverBoard`, `StopSearch` | `discover_boards` |
| `Approve`, `Reject`, `AddJobSource`, `FetchForRegistration`, `CreateSource`, `MarkApproved` | the admin actions, the command, `register_job_source` with `_get_or_create_employer` |
| `StartFetch`, `Answer`, `Retry`, `GiveUpPage`, `FetchFails`, `ReturnPostings`, `MoveBoard` | one fetch: `_exhaust_query`, `_fan_out_pages`, the retry loop, the other clients; the board itself |
| `Canonical`, `CityAliases`, `Demoted`, `Ambiguous`, the index look-ups | `build_geodata` and the engine's index |
| `Resolve`, `ResolveBare`, `ResolveTail`, `FromCountry` | `_normalize_location_once` |
| `StartBackfill`, `ReadBatch`, `WriteRow`, `WriteText`, `Deploy`, `BackfillDies` | `backfill_jobs`, `backfill_profiles`, ingestion and profile saves, releases |

A registration is its fetch with the look-up of the employer, the creation of both
rows, and the mark: between them others register.  Slugs are the numbers they end
in, because the only interesting names are those that make one slug.  A board is a
sequence of postings whose facet values say which queries find them.  A page that
Workday answers with success has a `Body`: whole, null, or without its postings, total
or facets (`scraper.py:319-322`, `:386`); what lay in one and was not read is `missed`.
A query is split on the first preferred facet that is listed with two values, or else on
any other with most values (`scraper.py:602-617`).

Names are tokens and a text is the tokens left after cleaning: an optional two-letter
prefix, tokens between commas or dashes, and beside which token a noise word like
"office" stood.  `Resolve` keeps the order of `_normalize_location_once`: a country that
comes first in a dashed text is looked for before noise words are taken out, so that
"Germany - Berlin office" finds no city; a prefix that is no country stays in the text.
A place is its row.  A noise word that is a segment of its own is not covered.

## 3. Runs

| run | instance | question |
|---|---|---|
| `ReviewRaces` | 1 job, 2 drafts, 1 worker, 1 review request, one optional field, left blank or filled by a remembered answer awaiting confirmation, whose options may have changed between drafts | types; nothing on hold is filed; the flow implements `DraftLifecycle` |
| `InboxLease` | 2 jobs, 2 drafts, 2 workers, emailed codes, timeout 3, hard kill 4 | polling is exclusive; one run per draft; the sweep spares prompt runs |
| `ResumeReplacement` | 1 job, 2 drafts, 2 resume keys, one profile request, hand-made marks | one active draft; APPLIED was filed |
| `StuckRecovery` | 1 job, 2 drafts, credentials and posting change, fairness | every SENDING draft is settled |
| `SerialPipeline` | 2 postings with 2 contents, batches of 1, 1 worker slot, 1 user with 2 edits, 1 failure | tags are current; edits reach the matches |
| `Convergence` | 2 postings with 2 contents, batches of 1, 2 slots, 1 failure, fairness | rows follow the boards; flagged rows are classified although a message was lost or a worker died |
| `Components` | the modules of the last three tables and `Prefilter`, each alone | everything section 1 lists for imports, answers, boards and locations; the query mirrors the predicate |
| `EditRacesSend`, `AppliedAgain`, `RetireRacesSend`, `StaleTags`, `LateRematch` | the smallest instances that show it | statements of the repository the code does not keep (section 5) |

Why the bounds are enough.  The races of the review queue are between one stale
page and Send, and two drafts are a retry with its predecessor, which is as far as
carry-forward looks.  The lease and the sweep need two drafts of one user and two
workers; the times are the smallest that leave budget, grace and hard kill
different.  Two postings with batches of one make a backlog; two slots are what a
pair of overlapping tasks needs; one change of the boards is enough for a fetch to
be stale when written, both for a posting that appears and for one that changes.  In
`Convergence` the boards begin with one content: without users the contents are alike,
and the second one comes by the change.
A profile with two edits can have one rematch running, one queued and one
superseded.  `MaxQueued`, `MaxChanges`, `MaxSaves` and `MaxFaults` are the only
counters that are cut.  Symmetry is used for drafts, workers and requests in runs
without liveness.

`Components` is a union: `part` says which component moves, chosen at the start,
and the variables of the others keep one initial value.  The components share no
state, so the union has the reachable states of each and no product; a pure
component has its `input` chosen at the start and takes no step.  It has some 270,000
distinct states.  Its instances:

| part | instance |
|---|---|
| prefilter | 3 salaries and NULL, every preference |
| jobs | 2 rows, so that an import can follow one the sweep still holds; 1 worker |
| review | 2 columns, one of each page, 3 values, of which 2 are one but for the spelling |
| entries | 2 natural keys, 2 links, up to 2 entries in a review |
| skills | counts, scopes and months of 2, any number of reviews in every mode |
| years | every set of up to 3 roles over 4 months: apart, adjacent, overlapping, nested |
| evidence | 2 repositories, own, forked, pinned or archived, over 2 months |
| memory | 2 employers, 2 answers, 1 learner |
| sources | every question that names any of 2 countries, asked at jobs in 3 countries of 2 regions or in none; statuses none, citizen, visa and sponsored; 3 forms (all answers, only yes, only no); 16 pairs of a general and a regional row, of the user or learned, expired or not; the rows of the old page; learning on and off |
| panel | 2 requests, 3 changes |
| github | 2 imports, 4 calls admitted, 3 calls an import, thresholds 2 and 3, a refusal remembered for 2 ticks and a number for 3 |
| discovery | 3 boards (one dead, two of other companies), 2 a run, 1 reviewer and 1 command |
| fetch | 4 postings, pages of 1, a cap of 3, a preferred facet and another, of which one posting has two values and one has none, 2 tries, the board moves once, 1 body lacks something |
| places | 2 countries, 2 regions and 2 cities with every way their 2 names and 2 codes can collide; every text of up to 2 tokens |
| backfill | a job and 2 profiles, batches of 2, 1 sweep, 2 versions, 2 text changes |

Two values make a change visible, two actors a race, and two places a collision; a
cap of three over four postings makes a split, and a board that is still too large
after it, reachable.  `MaxOddBodies`, `MaxBoardFaults`, `MaxBoardMoves`, `MaxTextChanges`,
`MaxSweepDeaths`, `MaxChanges`, `MaxAccepted` and `MaxLooks` are cut counters; the
other numbers are settings of the code made small.

What the longer properties of `Components` say.  `ProvenanceIsHonest`: what the user
typed, on a page or over a proposal, counts as theirs, up to the spelling.
`PartialRunsKeepProof`: the stored evidence of a skill is the best that reviews have
shown since the last full run and nothing else, however light and partial runs were
ordered and whether the skill was removed in between.  `NoContradiction`: for every
bank, row of the old page and reply of the language model, an answer that contradicts
the entered status comes from a row saved under that very question, where the setting
put nothing on the form, or is inferred where `classify` does not know the wording; it
is never the setting misread nor the old page.  `NoAnswerTravels`: what was saved for a
job in one country neither fills itself in nor is offered for one in another, unless the
question names its country, the user said anywhere, or its kind is a status or pay
question of which nothing is read; a relocation answer stays in its region, which may be
several countries.  `NoAnswerIsGuessed`: a question reaches the language model only if
no setting, no usable row that holds at the job and no row of the old page answers it,
or a row of the region hides the answer.  `FetchIsWhole`: with the board standing still,
what a returned fetch lacks lay in a query at the cap or in a body that lacked
something, of a Workday board.  `NoPlaceIsGuessed` and `PlaceHintsHold`: as in section
1; of two tokens, a region's code or full name as the one that says where resolves to a
region of that code or name, and a country to that country and to the region the other
names; only a region's code beside a word like "office" may overrule a prefix.
`RefusalsEnd`: imports are let through to GitHub again and again.

A web request or a task may stop forever in these models, so safety never
depends on fairness, and deadlock is checked everywhere.

Fairness.  `AutoApply`: clocks advance; beat runs the sweep every five minutes
(`config/settings/base.py:215`); the hard time limit ends a run
(`auto_apply/tasks.py:260`); `get_code` returns at its deadline.  Nothing is assumed
about users, employers, message delivery or the worker picking a draft up.
`Components`: beat starts the import sweep every fifteen minutes, the location sweep
every five, the board search and the learning sweep every day
(`config/settings/base.py:198`), and a worker goes through what they find; hard
limits end workers and requests; time passes, so rows grow late and what is cached
expires (`PANEL_CACHE_TTL`, GitHub's ten minutes).  Nothing is assumed about users,
reviewers, GitHub or message delivery.  Its deaths of the location sweep and faults
of the board search are bounded, since a sweep that dies every time gets nowhere.
`JobPipeline`: beat publishes an ingestion every hour and a classification sweep
every five minutes into a first-in-first-out queue, so each gets a free slot again
and again (strong fairness); a task that runs goes on.  Matching and event-driven
classification get no fairness: the sweep alone must drain the flags.

`SerialPipeline` and its theorems are about a pool with one slot.  That is a real
configuration (the worker in `docker-compose.yml` starts without `-c`, which means
one slot per CPU), but not the only one; `StaleTags` and `LateRematch` check the
same properties with two slots and show what exactly breaks.

## 4. What is proved

For every value of the constants that satisfies the assumptions below.

| theorem | statement |
|---|---|
| `AutoApplyProofs!TypeCorrect`, `Invariance` | type correctness and the inductive invariant |
| `OneActive`, `OneRun`, `NothingHeld`, `AppliedFiled`, `PollingExclusive` | the safety invariants of the runs |
| `SweepSpares` | the sweep never fails the draft of a promptly started run within its budget, *if* `SendingTimeout >= SafetyMargin + MinBudget` |
| `AutoApplyRefinement!Implements`, `PromisesAreKept` | `Spec => LifecycleSpec`; what the lifecycle promises, the flow keeps |
| `NothingIsFiledTwice` | no run files an application that the employer already has |
| `DraftLifecycleProofs!OneActivePerJobHolds`, `ReceivedWithConsentHolds` | what the abstract lifecycle promises |
| `JobPipelineProofs!TypeCorrect` | type correctness |
| `TagsCurrentOnOneSlot` | with one slot, an unflagged row has the tags of its content, whatever is lost |
| `EditsReachMatches` | with one slot and no job leaving the window, no profile edit is forgotten while nothing was lost |
| `ImportProofs!EntriesStayDistinct`, `ProofIsKept` | no two stored entries are one; the stored evidence is the best shown since the last full run, through every sequence of reviews |
| `MonthsCountOnce` | sorting and merging count each month of any set of roles once |
| `EvidenceAddsUp` | a skill is counted over the repositories it was looked for in |
| `ImportsTyped`, `GitHubKeepsItsBudget` | form of the rows and workers; no import leaves its budget of calls |
| `ComponentProofs!QueryMirrorsPrefilter` | query and predicate agree for all employers and salaries |
| `ProvenanceHolds` | a value the user typed is, up to its spelling, never taken for an imported one |
| `CompaniesApart`, `ReviewersDecide` | an approved board is its own company's; decisions stand |
| `SlugsNeverRunOut` | a numbered slug, no higher than the number of boards, is free for every employer that is made up |
| `FetchesAreWhole` | a fetch that returns has the whole board, but for what lay beyond the cap or in a body that lacked something |
| `LearningIsFounded`, `LearnerYields`, `LearningSettles` | a learned answer was typed for two employers; the learner replaces nothing of the user's; learning again changes nothing |
| `SettingsAreKept` | for all countries, statuses, questions, forms, banks, old rows and replies: what contradicts a status was saved under that very question, or is inferred where `classify` does not know the wording |
| `AnswersStay` | an answer given for a job in one country is neither used nor offered in another, but for status and pay questions of no kind the code reads |
| `AnsweredStays` | for every bank and old row: a question given to the language model has no answer but one that is hidden |
| `LocationProofs!BackfillTyped`, `BackfillKeepsPlaces` | types; a row's place is derived from its own text |
| `NamesAreNotGuessed`, `HintsAreKept` | for every dataset: a name that two kinds of place claim, or two countries or regions, is not resolved, as `NoReadingIsGuessed` spells out; what a text of one or two tokens says of country and region is kept |
| `MCComponentsProofs!PartsAreComponents` | the run that explores the components one by one behaves as each of them |
| `ComponentsTyped`, `QueriesMirror`, `YearsCounted`, `ScansSound`, `SettingsWin`, `AnswersStayHome`, `NothingAnsweredIsGuessed`, `PlacesNotGuessed`, `PlacesKeepHints` | the invariants of that run |

Every invariant and every action property of the passing runs is thereby a theorem.

Assumptions: `ConstantsAssumption`, `AnswersAssumption`, `PipelineAssumption` and
`SalaryAssumption` say that the null values differ from the values and that bounds
are numbers; `TimesAssumption` orders the timeouts as the system check E001 does.
The hypothesis of `SweepSpares` is *not* implied by E001: with a timeout shorter
than margin plus floor the budget is the floor, and the sweep can fail a run that
is still within it.  The default configuration satisfies the hypothesis.

The assumptions of the smaller modules.  `ReviewAssumption`, `FactsAssumption`,
`PanelAssumption`, `SourcesAssumption` (which also says which words are statuses),
`RowAssumption`, `LegacyAssumption` and `ResolutionAssumption` tell null values from
values and say which constants are numbers.  `SpellingAssumption` says that no value is
of two spelling classes.  `MemoryAssumption` adds that a key can be had that no row and
no run knows.  `YearsAssumption` and `EvidenceAssumption` say that months are numbers,
and that a resume spans finitely many and a scan has finitely many repositories.
`GitHubAssumption` orders the limits: the calls of an import cover the first one and
the pages, and a number is kept at least as long as a refusal.  `FetchAssumption` says
that the postings are finitely many, that the facets are in an order and that the cap is more than a page.  `DiscoveryAssumption`
says that the boards are a list, and that dead boards are fewer than a run takes up,
which only the run needs.  `GazetteerAssumption` says that country codes are unique and
that places' codes and names are told apart; a `Dataset` has finitely many regions
and cities, as a file has.  `BackfillAssumption` says that keys, batch and versions
are numbers and that the two tables have no key in common.  `InstanceAssumption`
and `SourcesInstance` are about the instance of the run only.

The argument for `AutoApply`.  The properties are not inductive, because what a
handler writes depends on what it read earlier.  `RowsWellFormed` ties the columns
of a row to its status (only Send makes a snapshot; only a row with a snapshot is
filed).  `RunsWellFormed` says what a run holds: a draft that was sent, answers
that were all confirmed when they were read, and whether the employer has them.
That is why an edit that lands on a sent row cannot make a held answer go out: the
run re-checks what it reads and files only that.  `RequestsWellFormed` is the same
for web requests.  `OneRunPerDraft` is what at-most-once delivery gives: a draft
whose message is queued is driven by nobody.  `LeaseCoversBudget` relates the
remaining time of the lease to the time its run has spent, and `AgeOfRuns` the age
of a draft to the time of its run; `PollingIsExclusive` and
`SweepSparesPromptRuns` are arithmetic from there.  One lemma per action and part
keeps the proof flat.

The refinement maps every status to a phase, the existence of a snapshot to the
user's consent and `filed` to receipt; a sweep or a retirement that settles
several drafts at once is one `Settle`.

The argument for `JobPipeline`.  `JobsKnown` (rows are never deleted) makes queued
ids safe to use.  With one slot, `BatchesCurrent` says that the rows of a batch are
still as they were read, so clearing a flag never loses a change.  `EditsCovered`
says of every user that the rematch of the last edit is queued, or running on the
profile as it is, or done: a save queues the token it mints, a superseded token is
dropped only when a newer one is queued, and a job matched in between reads the
profile as it is.

The arguments for the smaller components.  `ReviewInv` is inductive as it stands, by
cases of the three writers: a page compares to the letter and a review up to the
spelling, and only a change of the words has to leave the column the user's.  `BoardInv` adds
`CompanyCarried`: from the look-up of the employer to the creation a registration
carries its board's company, and an approval that loses the race for the slug does
not go on.  `MemoryInv` says that the votes are of two employers and were typed
(`VotesWereTyped`), that a run which is about to write carries such an answer
(`RunsWereTyped`), and that only a learned row expires (`BankIsRow`), which is why
`would_refuse`, asked again under the lock, protects every row of the user.
`BackfillInv` says that what a sweep has read of a row is still its text unless the
version changed (`SeenTextsHold`) and that no row is ahead of the dataset
(`NoRowAhead`): a writer stamps the current version, a sweep reads stale rows only, so
the condition on the version protects the text as well.  `FactsInv` is
`EntriesAreDistinct` and `PartialRunsKeepProof` with the types: a proposal replaces the
row it is found to be, by link or by key, so that the entries stay apart through every
prefix of a review; and the best of what was shown, merged with what is shown now, is
the best of both.  `SettingsAreKept`, `AnswersStay`,
`AnsweredStays`, `NamesAreNotGuessed` and `HintsAreKept` are case analyses of pure
operators.  For the first, a value is traced back to its source: what a setting puts on
the form is entailed by it, the old page speaks of one country only, and a row is used
only where the fact has no value.  For the second, a question a setting answers is
refused unless it names its country, and an answer about relocation is saved under the
region of its job.  For the last, a text of two tokens is one of four: with commas or a
stray prefix, with dashes that separate nothing known, or with a country first, whose
name is then the tail.

Three arguments count.  A fetch (`FetchInv`): while the board stands still, every
posting is read, given up, or on a page that some request still asks for or will
(`AccountedFor`), or was missed in a body that lacked something; a first page that asks
for the others covers every rank below the total, since a rank lies on exactly one page, and a split covers every value that a
posting can have.  Slugs (`SlugsSuffice`): the slugs in use are `1..n`, and `n` plus
the sourced boards for which somebody is about to create slug `n + 1` never exceeds
the boards with a source: an employer is created together with the source of its board
or, by a command that comes too late for its board, against the source that the board
has got meanwhile and that no new employer was created for.  GitHub (`GitHubInv`): the pages
leave room for the calls that follow them (`CallsFit`), and what is remembered has time
left.

Recursive functions.  `SmallestOf` (a non-empty set of numbers has a least one) comes
from the well-foundedness of `<`, and gives `AllNaturals`, the principle of induction
for a set of numbers; from it, `StepsReach` shows that the function given by a first
value and one step for each position (`Steps`, `Runs`) exists, and stays in the set
that its steps stay in.  `MonthsCountOnce` uses them for the merge
of intervals: after each span, the months counted so far and those of the open span
are those of the union.  `ApplyEntries` and `NewBoards` are reasoned about in the same
way, which is why the models use recursive functions and no `RECURSIVE` operator.

Only model-checked: the liveness properties (`SendingIsSettled`, `RowsFollowBoards`,
`FlaggedIsClassified`, `PersonalDataGoes`, `ImportsEnd`, `EvidenceIsRead`,
`StalePanelGoes`, `RefusalsEnd`, `EveryBoardIsFound`, `RowsBecomeCurrent`), because
temporal reasoning under fairness is outside the prover, and the violation runs.
`GitHubKeepsItsBudget` says no more than the types of `GitHubTypeOK` do: calls within
the budget, what is remembered within its time; that refusals end is `RefusalsEnd`.

## 5. Where code and documents disagree

Shown by runs:

- `EditRacesSend`: an edit read before Send is saved after it.  The employer gets
  the edited answers, `submitted_answers_snapshot` keeps the others, although
  `auto_apply/models.py:139` calls it the exact answers.
- `AppliedAgain`: the guard against applying twice is evaluated before the task is
  queued (`web/views.py:403`); a draft made afterwards is sent again.
- `RetireRacesSend`: the file of a draft in flight is deleted, against
  `accounts/models.py:364`, because the drafts that use it are read first.
- `StaleTags`: the durable flag of `jobs/tasks.py:38` is cleared by a
  classification that has not seen the change.
- `LateRematch`: the debounce token is compared at the start only, so an old
  rematch can commit last.

Met while modelling, without a run of their own; the models contain them unless it is
said otherwise, and the properties of section 3 name them as their exceptions:

- the sweep fails drafts whose application was filed (a run killed after the
  click), and `web/views.py:211` says the submission "wasn't completed";
- the profile form saves every column (`web/forms_profile.py:118`), so a form
  loaded before a replacement writes the deleted resume key back, past `set_resume`;
- closing a job deletes no matches (`jobs/ingestion/upsert.py:118`), although line
  91 and the v1 plan say it does;
- `match_job` can write a match for a profile deactivated meanwhile
  (`matching/services.py:131`, against line 149);
- closure is per platform and employer, not per source
  (`jobs/ingestion/upsert.py:111`): two boards of one employer close each other's
  jobs.  `RowsFollowBoards` is therefore claimed for one board per employer.

Imports:

- the sweep and the worker save every column of a row they have read, so a status
  written meanwhile (applied, ready) is overwritten (`accounts/importing/service.py:256`);
  and an upload whose request dies before the row names it stays in storage
  (`PersonalDataGoes` speaks of what rows hold);
- `profile_fields.py:1` and `web/forms_profile.py:3` promise provenance for every
  write; overlapping form saves break it, because both forms save provenance, or every
  column, as they loaded it;
- `apply_review` folds case and spacing before it decides what the user edited
  (`review.py:326`), so a correction of either keeps the stamp of the import, and the
  next import may replace it, although `profile_fields.py:224` says that a value
  changed on the review page is the user's;
- `github.fetch_profile` says that after the first two calls nothing fails the import;
  pages two and three of the repositories do (`github.py:177`).

Answers:

- a learner that decided to withdraw a learned row deletes it by its key, also when
  the user has promoted it meanwhile (`services/learning.py:227`);
- a learned row that expired is `already_learned` and never refreshed (`learning.py:233`);
- `panel_cache.py:22` says a concurrent rebuild cannot cache the state before the
  commit; it can, and applied imports and the search page drop nothing;
- profiles past the cap of the learning sweep are handed to messages that can be lost,
  and switching learning on again after more than 25 hours leaves answers unread;
- `typed_facts.py:13` says that a question the settings cover is left to no looser
  source ("stays blank rather than being filled from an old saved answer");
  `answer_resolver.py:374` keeps only the rows of the old page out, and a saved row
  fills what a setting leaves open or fits no option of (`test_answer_resolver.py:530`
  expects that), or else the language model does;
- `settings_owned` gives back False for a question `authorization_kind` calls ambiguous
  (`answer_memory.py:72`), so an answer about a visa status is saved without a country
  and fills itself in for jobs in all others, which `answer_memory.py:63` is there to
  prevent;
- `tiering.py:64` looks for the words "sponsor" and "sponsorship" where
  `authorization_kind` also reads "sponsored": "Will you need to be sponsored?" reaches
  the language model, against `tiering.py:29` and `question_semantics.py:72`;
- a row of the region hides the one that holds everywhere even when it is expired, or
  learned while learning is off (`answer_resolver.py:176`): the question is then
  inferred, against `answer_resolver.py:12` and `answer_resolution.py:86`;
- the learning page (promote, accept) has no check like `settings_owned`
  (`auto_apply/services/answer_memory.py:60`);
- the language model's answers to legal and commercial questions of no special kind
  are not held for confirmation when they are grounded.

Boards:

- approval registers the source before the conditional update of the board: a board
  rejected meanwhile keeps an active source (`jobs/admin.py:109`);
- a command that loses the race for a slug uses the row of another company
  (`register.py:93`); in the transaction of an approval the re-query fails and takes
  the whole action with it;
- boards that cannot be fetched are forgotten, so as many of them at the head of the
  list as a run takes up keep it from the rest (`jobs/tasks.py:136`);
- a Workday query at the cap with no facet left is accepted as it is, and postings
  without the facet a query is split on are lost; closure detection then closes them
  (`upsert.py:118`).  The same goes for postings that move between pages during a fetch;
- a Workday body that is null, or has no `jobPostings` or `total`, is read as an empty
  page, query or board (`scraper.py:319-322`, `:386`), although `workday_client.py:76`
  promises a `WorkdayParseError` for a body of an unexpected shape; closure detection
  then closes those jobs;
- one malformed posting fails the whole fetch of a Greenhouse, Lever or Ashby board.

Locations:

- with an unreadable dataset everything is stored as unresolved under the current
  version, and stays so until the next version;
- a worker of the old release that still runs during a deployment can write a place
  that does not fit the text, and the admin pages save a location without deriving it;
- with a word like "office" in the text, a bare region code ignores the country in
  front of it ("SG - MI office" becomes Michigan): `_resolve_bare` looks it up without
  comparing the countries (`engine.py:655`), which `engine.py:643` warns of.

## 6. Not modelled

- HTTP, DOM discovery and filling in the browser, IMAP parsing, prompts and providers
  of language models, captcha adapters: calls to the outside whose results are the
  nondeterministic choices of the models.
- Text extraction from resumes (`rules`, `entries`, `documents`, `llm_extract`) and the
  wording rules that classify a question or clean a location: string processing without
  state.  Their results are attributes of the models' data.
- In `PlaceResolution`: lists separated by "|", the fallbacks on trailing parentheses,
  the spelling; in `LocationBackfill`: the report of a dry run, admin pages.
- Overlapping saves of two profile forms (section 5), audit history, encryption,
  templates, authentication, observability, experiments.
- Scoring arithmetic: a function of what a match records.

`PROJECT.json` lists every component with its status.

## 7. Plan

1. `GreenhouseSubmit`: the client's outcomes after the click, code entry and the
   deadline, as the detailed specification of the submit run of `AutoApply`
   (refinement of its `filed` and reason).  Choice of the message in the inbox.
2. Proofs: what the sweep's reads of `ImportJobs` still say when it writes; a two-slot
   version of the pipeline theorems with the interference they need excluded by
   hypothesis; the quota of `GitHubImport` as what the imports share.
3. `PlaceResolution`: the fallbacks for lists and parentheses, with their termination.
4. Overlapping form saves in `ImportReview`, once the forms save what they changed.
5. `BoardFetch` as the detailed specification of the fetch of `JobPipeline`, and the
   sources that `BoardDiscovery` registers as its set of boards.
