---------------------------- MODULE JobPipeline -----------------------------
(***************************************************************************)
(* From an employer's board to a user's recommendations: ingestion upserts *)
(* the postings of a source and closes those that disappeared, the         *)
(* classifier tags the rows that are flagged, and matching keeps one       *)
(* UserJobMatch row per user and job.  All of it is Celery tasks that read *)
(* first and write later, on any number of workers, triggered by messages  *)
(* that may be lost, by beat, and by the user saving a profile.            *)
(*                                                                         *)
(* The sources are those of one ATS.  What a posting says is one content   *)
(* hash; TagsOf is the ruleset, Fits the prefilter (module Prefilter).     *)
(*                                                                         *)
(* "Fault:" marks a faulty variant of the definition that follows it.      *)
(***************************************************************************)
EXTENDS Integers, FiniteSets

CONSTANTS
  Source,      \* JobSource rows
  Job,         \* postings, numbered in the order of their primary keys
  Home,        \* the board that lists a posting
  EmployerOf,  \* the employer of a source
  Content,     \* what a posting can say
  TagsOf,      \* the tags of a content
  NoTags,      \* the empty tag list
  User,        \* users, one profile each
  Criteria,    \* the matching columns of a profile
  Fits,        \* <<criteria, content>> that pass the prefilter
  SignupCriteria, \* the criteria of a new profile
  Worker,      \* slots of the Celery worker pool
  BatchSize,   \* CLASSIFICATION_BATCH_SIZE
  OldJobs,     \* postings that may drop out of the rematch window
  None,        \* no content, row, match or profile
  MaxChanges,  \* bound: changes to the boards
  MaxSaves,    \* bound: saves of one profile
  MaxFaults    \* bound: lost messages, expired tokens and killed workers

Tags == {TagsOf[c] : c \in Content} \cup {NoTags}

Rows == [status : {"open", "closed"}, content : Content, tags : Tags,
         flag : BOOLEAN, recent : BOOLEAN]

Profiles == [criteria : Criteria, active : BOOLEAN]

\* What a match was computed from.
Matches == [criteria : Criteria, content : Content, tags : Tags]

ASSUME PipelineAssumption ==
  /\ Job \subseteq Nat /\ OldJobs \subseteq Job
  /\ Home \in [Job -> Source]
  /\ DOMAIN EmployerOf = Source
  /\ DOMAIN TagsOf = Content
  /\ Fits \subseteq Criteria \X Content
  /\ SignupCriteria \in Criteria
  /\ BatchSize \in Nat \ {0}
  /\ None \notin Content \cup Rows \cup Matches
  /\ MaxChanges \in Nat /\ MaxSaves \in Nat /\ MaxFaults \in Nat

VARIABLES
  board,          \* what the boards list
  row,            \* Job rows
  profile,        \* Profile rows
  match,          \* UserJobMatch rows
  token, minted,  \* the rematch token in the cache; how many were minted
  classifyQueue, matchQueue, rematchQueue,
  worker,
  changes, faults

matchVars == <<profile, match>>
tokenVars == <<token, minted>>
queueVars == <<classifyQueue, matchQueue, rematchQueue>>
vars == <<board, row, matchVars, tokenVars, queueVars, worker, changes, faults>>

-----------------------------------------------------------------------------
(* Types                                                                   *)

Partial(S, T) == UNION {[D -> T] : D \in SUBSET S}

IdleWorker == [task |-> "idle"]

WorkerStates ==
  {IdleWorker} \cup
  [task : {"ingest"}, source : Source, listed : Partial(Job, Content)] \cup
  [task : {"classify"}, batch : Partial(Job, Rows)] \cup
  [task : {"match"}, job : Job, seen : Rows, users : Partial(User, Criteria)] \cup
  [task : {"rematch"}, user : User, seen : Profiles, jobs : Partial(Job, Rows)]

TypeOK ==
  /\ board \in [Job -> Content \cup {None}]
  /\ row \in [Job -> Rows \cup {None}]
  /\ profile \in [User -> Profiles]
  /\ match \in [User -> [Job -> Matches \cup {None}]]
  /\ token \in [User -> Nat]
  /\ minted \in [User -> Nat]
  /\ classifyQueue \subseteq SUBSET Job
  /\ matchQueue \subseteq Job
  /\ rematchQueue \subseteq User \X Nat
  /\ worker \in [Worker -> WorkerStates]
  /\ changes \in 0..MaxChanges
  /\ faults \in 0..MaxFaults

\* Signing up creates the profile, and its first save schedules a rematch.
Init ==
  /\ board \in [Job -> Content \cup {None}]
  /\ row = [j \in Job |-> None]
  /\ profile = [u \in User |-> [criteria |-> SignupCriteria, active |-> TRUE]]
  /\ match = [u \in User |-> [j \in Job |-> None]]
  /\ token = [u \in User |-> 1]
  /\ minted = [u \in User |-> 1]
  /\ classifyQueue = {} /\ matchQueue = {}
  /\ rematchQueue = User \X {1}
  /\ worker = [w \in Worker |-> IdleWorker]
  /\ changes = 0 /\ faults = 0

Exists(j) == row[j] # None
Open(j) == Exists(j) /\ row[j].status = "open"
Idle(w) == worker[w].task = "idle"
Finish(w) == worker' = [worker EXCEPT ![w] = IdleWorker]

-----------------------------------------------------------------------------
(* Ingestion                                                               *)

\* The fetch of one board; one that fails changes nothing.
StartIngest(w, s) ==
  /\ Idle(w)
  /\ worker' = [worker EXCEPT ![w] =
       [task |-> "ingest", source |-> s,
        listed |-> [j \in {i \in Job : Home[i] = s /\ board[i] # None} |-> board[j]]]]
  /\ UNCHANGED <<board, row, matchVars, tokenVars, queueVars, changes, faults>>

\* The posting has to be classified: it is new, back, or says something else.
Entered(j, c) == ~Open(j) \/ row[j].content # c

\* Fault: a posting that is back with the same content is not reopened.
WithoutReopening(j, c) ==
  IF ~Exists(j)
  THEN [status |-> "open", content |-> c, tags |-> NoTags, flag |-> TRUE, recent |-> TRUE]
  ELSE IF row[j].content # c
       THEN [row[j] EXCEPT !.status = "open", !.content = c, !.flag = TRUE, !.recent = TRUE]
       ELSE [row[j] EXCEPT !.recent = TRUE]

\* Fault: a changed posting keeps its flag.
WithoutFlag(j, c) ==
  IF ~Open(j)
  THEN [status |-> "open", content |-> c, tags |-> NoTags, flag |-> TRUE, recent |-> TRUE]
  ELSE [row[j] EXCEPT !.content = c, !.recent = TRUE]

\* Fault: the tags of a new row are left NULL.
WithoutTags(j, c) ==
  IF ~Open(j)
  THEN [status |-> "open", content |-> c, tags |-> None, flag |-> TRUE, recent |-> TRUE]
  ELSE [row[j] EXCEPT !.content = c, !.recent = TRUE,
                      !.flag = row[j].flag \/ row[j].content # c]

\* The row of a listed posting.  A closed one starts over as if it were new.
Upserted(j, c) ==
  IF ~Open(j)
  THEN [status |-> "open", content |-> c, tags |-> NoTags, flag |-> TRUE, recent |-> TRUE]
  ELSE [row[j] EXCEPT !.content = c, !.recent = TRUE,
                      !.flag = row[j].flag \/ row[j].content # c]

\* The open jobs of the source's employer that the fetch did not list.
Gone(s, listed) ==
  {j \in Job \ DOMAIN listed : Open(j) /\ EmployerOf[Home[j]] = EmployerOf[s]}

\* One transaction, and then a message for the classifier.
Upsert(w) ==
  LET listed  == worker[w].listed
      entered == {j \in DOMAIN listed : Entered(j, listed[j])}
      gone    == Gone(worker[w].source, listed)
  IN
  /\ worker[w].task = "ingest"
  /\ row' = [j \in Job |->
       IF j \in DOMAIN listed THEN Upserted(j, listed[j])
       ELSE IF j \in gone THEN [row[j] EXCEPT !.status = "closed"]
       ELSE row[j]]
  /\ classifyQueue' = classifyQueue \cup ({entered} \ {{}})
  /\ Finish(w)
  /\ UNCHANGED <<board, matchVars, tokenVars, matchQueue, rematchQueue, changes, faults>>

-----------------------------------------------------------------------------
(* Classification                                                          *)

\* Fault: the batch is cut before the flag is looked at.
CutBeforeFilter(ids) ==
  {j \in ids : Exists(j) /\ row[j].flag
               /\ Cardinality({i \in Job : Exists(i) /\ i < j}) < BatchSize}

\* The first BatchSize flagged jobs among ids.
Batch(ids) ==
  LET flagged == {j \in ids : Exists(j) /\ row[j].flag}
  IN  {j \in flagged : Cardinality({i \in flagged : i < j}) < BatchSize}

BeginBatch(w, ids) ==
  worker' = IF Batch(ids) = {} THEN worker
            ELSE [worker EXCEPT ![w] =
                    [task |-> "classify", batch |-> [j \in Batch(ids) |-> row[j]]]]

StartClassify(w, ids) ==
  /\ Idle(w)
  /\ ids \in classifyQueue
  /\ classifyQueue' = classifyQueue \ {ids}
  /\ BeginBatch(w, ids)
  /\ UNCHANGED <<board, row, matchVars, tokenVars, matchQueue, rematchQueue, changes, faults>>

StartSweep(w) ==
  /\ Idle(w)
  /\ BeginBatch(w, Job)
  /\ UNCHANGED <<board, row, matchVars, tokenVars, queueVars, changes, faults>>

\* The next job of the batch gets the tags of what the batch read, and the
\* flag is cleared.  Other tags than those read send a message to matching.
ClassifyNext(w) ==
  /\ worker[w].task = "classify"
  /\ \E j \in DOMAIN worker[w].batch :
       LET batch == worker[w].batch
           tags  == TagsOf[batch[j].content]
           rest  == DOMAIN batch \ {j}
       IN
       /\ \A k \in rest : j < k
       /\ row' = [row EXCEPT ![j] = [@ EXCEPT !.tags = tags, !.flag = FALSE]]
       /\ matchQueue' = matchQueue \cup (IF tags # batch[j].tags THEN {j} ELSE {})
       /\ worker' = [worker EXCEPT ![w] =
            IF rest = {} THEN IdleWorker
            ELSE [task |-> "classify", batch |-> [i \in rest |-> batch[i]]]]
  /\ UNCHANGED <<board, matchVars, tokenVars, classifyQueue, rematchQueue, changes, faults>>

-----------------------------------------------------------------------------
(* Matching one job against all profiles                                   *)

Candidates(c) ==
  {u \in User : profile[u].active /\ <<profile[u].criteria, c>> \in Fits}

StartMatch(w, j) ==
  /\ Idle(w)
  /\ j \in matchQueue
  /\ matchQueue' = matchQueue \ {j}
  /\ worker' = [worker EXCEPT ![w] =
       [task |-> "match", job |-> j, seen |-> row[j],
        users |-> [u \in Candidates(row[j].content) |-> profile[u].criteria]]]
  /\ UNCHANGED <<board, row, matchVars, tokenVars, classifyQueue, rematchQueue, changes, faults>>

Scored(criteria, r) == [criteria |-> criteria, content |-> r.content, tags |-> r.tags]

\* Candidates get a match, everybody else loses theirs; a job that was seen
\* closed loses them all.
CommitMatch(w) ==
  LET seen == worker[w].seen IN
  /\ worker[w].task = "match"
  /\ match' = [u \in User |-> [match[u] EXCEPT ![worker[w].job] =
       IF seen.status = "open" /\ u \in DOMAIN worker[w].users
       THEN Scored(worker[w].users[u], seen) ELSE None]]
  /\ Finish(w)
  /\ UNCHANGED <<board, row, profile, tokenVars, queueVars, changes, faults>>

-----------------------------------------------------------------------------
(* Rematching one profile against the recent open jobs                     *)

\* Every save of matching columns mints a token and queues a delayed task.
SaveProfile(u, p) ==
  /\ minted[u] < MaxSaves
  /\ profile' = [profile EXCEPT ![u] = p]
  /\ minted' = [minted EXCEPT ![u] = @ + 1]
  /\ token' = [token EXCEPT ![u] = minted'[u]]
  /\ rematchQueue' = rematchQueue \cup {<<u, minted'[u]>>}
  /\ UNCHANGED <<board, row, match, classifyQueue, matchQueue, worker, changes, faults>>

\* A run whose token is no longer the one in the cache does nothing.
StartRematch(w, u, t) ==
  /\ Idle(w)
  /\ <<u, t>> \in rematchQueue
  /\ rematchQueue' = rematchQueue \ {<<u, t>>}
  /\ worker' = IF t # token[u] THEN worker
               ELSE [worker EXCEPT ![w] =
                       [task |-> "rematch", user |-> u, seen |-> profile[u],
                        jobs |-> [j \in {i \in Job : Open(i) /\ row[i].recent} |-> row[j]]]]
  /\ UNCHANGED <<board, row, matchVars, tokenVars, classifyQueue, matchQueue, changes, faults>>

\* Fault: matches on jobs that no longer qualify are kept.
RefreshedOnly(old, p, jobs) ==
  [j \in Job |->
     IF ~p.active THEN None
     ELSE IF j \in DOMAIN jobs /\ <<p.criteria, jobs[j].content>> \in Fits
          THEN Scored(p.criteria, jobs[j])
     ELSE IF Exists(j) /\ ~Open(j) THEN None
     ELSE old[j]]

\* The matches of a profile after its rematch.  Jobs outside the window keep
\* theirs; those closed by now lose it, unless it is being written.
Refreshed(old, p, jobs) ==
  [j \in Job |->
     IF ~p.active THEN None
     ELSE IF j \in DOMAIN jobs
          THEN IF <<p.criteria, jobs[j].content>> \in Fits
               THEN Scored(p.criteria, jobs[j]) ELSE None
     ELSE IF Exists(j) /\ ~Open(j) THEN None
     ELSE old[j]]

CommitRematch(w) ==
  LET u == worker[w].user IN
  /\ worker[w].task = "rematch"
  /\ match' = [match EXCEPT ![u] = Refreshed(@, worker[w].seen, worker[w].jobs)]
  /\ Finish(w)
  /\ UNCHANGED <<board, row, profile, tokenVars, queueVars, changes, faults>>

-----------------------------------------------------------------------------
(* The boards, time and failures                                           *)

ChangeBoard(j, c) ==
  /\ changes < MaxChanges
  /\ board[j] # c
  /\ board' = [board EXCEPT ![j] = c]
  /\ changes' = changes + 1
  /\ UNCHANGED <<row, matchVars, tokenVars, queueVars, worker, faults>>

\* No fetch has listed the job for REMATCH_JOB_WINDOW_DAYS.
Age(j) ==
  /\ j \in OldJobs
  /\ Exists(j) /\ row[j].recent
  /\ row' = [row EXCEPT ![j].recent = FALSE]
  /\ UNCHANGED <<board, matchVars, tokenVars, queueVars, worker, changes, faults>>

Fails == faults < MaxFaults /\ faults' = faults + 1

\* A message that is not delivered, or not even sent.
LoseMessage ==
  /\ Fails
  /\ \/ \E ids \in classifyQueue :
          /\ classifyQueue' = classifyQueue \ {ids}
          /\ UNCHANGED <<matchQueue, rematchQueue>>
     \/ \E j \in matchQueue :
          /\ matchQueue' = matchQueue \ {j}
          /\ UNCHANGED <<classifyQueue, rematchQueue>>
     \/ \E m \in rematchQueue :
          /\ rematchQueue' = rematchQueue \ {m}
          /\ UNCHANGED <<classifyQueue, matchQueue>>
  /\ UNCHANGED <<board, row, matchVars, tokenVars, worker, changes>>

\* The token lives in the cache for an hour, or until it is evicted.
ExpireToken(u) ==
  /\ Fails
  /\ token[u] # 0
  /\ token' = [token EXCEPT ![u] = 0]
  /\ UNCHANGED <<board, row, matchVars, minted, queueVars, worker, changes>>

Crash(w) ==
  /\ Fails
  /\ ~Idle(w)
  /\ Finish(w)
  /\ UNCHANGED <<board, row, matchVars, tokenVars, queueVars, changes>>

-----------------------------------------------------------------------------

Proceed(w) == Upsert(w) \/ ClassifyNext(w) \/ CommitMatch(w) \/ CommitRematch(w)

Start(w) ==
  \/ \E s \in Source : StartIngest(w, s)
  \/ \E ids \in classifyQueue : StartClassify(w, ids)
  \/ StartSweep(w)
  \/ \E j \in matchQueue : StartMatch(w, j)
  \/ \E m \in rematchQueue : StartRematch(w, m[1], m[2])

Surroundings ==
  \/ \E u \in User, p \in Profiles : SaveProfile(u, p)
  \/ \E j \in Job, c \in Content \cup {None} : ChangeBoard(j, c)
  \/ \E j \in Job : Age(j)

Failures ==
  \/ LoseMessage
  \/ \E u \in User : ExpireToken(u)
  \/ \E w \in Worker : Crash(w)

Next ==
  \/ \E w \in Worker : Start(w) \/ Proceed(w)
  \/ Surroundings \/ Failures

Spec == Init /\ [][Next]_vars

(* Beat publishes an ingestion every hour and a sweep every five minutes   *)
(* into a first-in-first-out queue, so each gets a worker again and again; *)
(* a task that has one finishes or is killed.                              *)
Fairness ==
  /\ \A s \in Source : SF_vars(\E w \in Worker : StartIngest(w, s))
  /\ SF_vars(\E w \in Worker : StartSweep(w))
  /\ \A w \in Worker : WF_vars(Proceed(w))

FairSpec == Spec /\ Fairness

-----------------------------------------------------------------------------
(* Properties that hold                                                    *)

(* However many messages are lost, and whichever jobs fill the batches, a  *)
(* flagged job is classified in the end: the sweep drains the backlog.     *)
FlaggedIsClassified ==
  \A j \in Job : (Exists(j) /\ row[j].flag) ~> (Exists(j) /\ ~row[j].flag)

(* Once the boards stop changing, the rows say what the boards list, even  *)
(* if an older fetch was written after a newer one on the way.  (Each      *)
(* employer has one board: a fetch also closes the jobs of other boards.)  *)
Agrees(j) == IF board[j] = None THEN ~Open(j)
             ELSE Open(j) /\ row[j].content = board[j]

RowsFollowBoards == <>[](\A j \in Job : Agrees(j))

(* A row that is not flagged has the tags of its content.  This holds when *)
(* the pool has one slot, and fails with two (see the run StaleTags).      *)
TagsAreCurrent ==
  \A j \in Job : Exists(j) /\ ~row[j].flag => row[j].tags = TagsOf[row[j].content]

\* Nothing that could write a match of u is running or will run.
Settled(u) ==
  /\ \A w \in Worker : worker[w].task \notin {"match", "rematch"}
  /\ matchQueue = {}
  /\ <<u, token[u]>> \notin rematchQueue

(* As long as nothing was lost, the open jobs show a user whose matching   *)
(* is done only matches that were computed from the profile as it is now:  *)
(* edits made during a rematch, or collapsed by the debounce, are not      *)
(* forgotten.  It holds when the pool has one slot and no job leaves the   *)
(* rematch window; see the run LateRematch for two slots.                  *)
MatchesFollowProfile ==
  \A u \in User : faults = 0 /\ Settled(u) => \A j \in Job :
    Open(j) /\ match[u][j] # None =>
      profile[u].active /\ match[u][j].criteria = profile[u].criteria
=============================================================================
