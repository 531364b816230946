------------------------- MODULE JobPipelineProofs --------------------------
(***************************************************************************)
(* Type correctness of JobPipeline, and what a pool with one slot keeps.   *)
(***************************************************************************)
EXTENDS JobPipeline, TLAPS

(* A function on a subset of S is a partial function of S.                 *)
LEMMA PartialFunction ==
  ASSUME NEW S, NEW T, NEW D \in SUBSET S, NEW f \in [D -> T]
  PROVE  f \in Partial(S, T)
BY DEF Partial

LEMMA PartialDomain ==
  ASSUME NEW S, NEW T, NEW f \in Partial(S, T)
  PROVE  /\ DOMAIN f \subseteq S
         /\ f \in [DOMAIN f -> T]
BY DEF Partial

(* What a slot holds, by the task it runs.                                 *)
LEMMA TaskShapes ==
  ASSUME NEW x \in WorkerStates
  PROVE  /\ x.task = "ingest" =>
              x.source \in Source /\ x.listed \in Partial(Job, Content)
         /\ x.task = "classify" => x.batch \in Partial(Job, Rows)
         /\ x.task = "match" =>
              x.job \in Job /\ x.seen \in Rows /\ x.users \in Partial(User, Criteria)
         /\ x.task = "rematch" =>
              x.user \in User /\ x.seen \in Profiles /\ x.jobs \in Partial(Job, Rows)
BY DEF WorkerStates, IdleWorker

LEMMA OpenRows ==
  ASSUME TypeOK, NEW j \in Job, Exists(j)
  PROVE  row[j] \in Rows /\ row[j] # None
BY DEF TypeOK, Exists

LEMMA RecordUpdates ==
  ASSUME NEW r \in Rows
  PROVE  /\ \A t \in Tags : [r EXCEPT !.tags = t, !.flag = FALSE] \in Rows
         /\ [r EXCEPT !.status = "closed"] \in Rows
         /\ [r EXCEPT !.recent = FALSE] \in Rows
BY DEF Rows

-----------------------------------------------------------------------------
(* Rows are never deleted, so what is queued for matching or held in a     *)
(* batch still exists when it is looked at.                                *)
JobsKnown ==
  /\ \A j \in matchQueue : Exists(j)
  /\ \A w \in Worker : worker[w].task = "classify" =>
       \A j \in DOMAIN worker[w].batch : Exists(j)

IInv == TypeOK /\ JobsKnown


LEMMA InitialState == Init => IInv
<1> SUFFICES ASSUME Init PROVE IInv
  OBVIOUS
<1> USE PipelineAssumption
<1>1. board \in [Job -> Content \cup {None}] /\ row \in [Job -> Rows \cup {None}]
  BY DEF Init
<1>2. profile \in [User -> Profiles]
  BY DEF Init, Profiles
<1>3. match \in [User -> [Job -> Matches \cup {None}]]
  BY DEF Init
<1>4. token \in [User -> Nat] /\ minted \in [User -> Nat]
  BY DEF Init
<1>5. classifyQueue \subseteq SUBSET Job /\ matchQueue \subseteq Job
  BY DEF Init
<1>6. rematchQueue \subseteq User \X Nat
  BY DEF Init
<1>7. worker \in [Worker -> WorkerStates]
  BY DEF Init, WorkerStates
<1>8. changes \in 0..MaxChanges /\ faults \in 0..MaxFaults
  BY DEF Init
<1>9. TypeOK
  BY <1>1, <1>2, <1>3, <1>4, <1>5, <1>6, <1>7, <1>8 DEF TypeOK
<1>10. JobsKnown
  BY DEF Init, JobsKnown, IdleWorker
<1> QED BY <1>9, <1>10 DEF IInv

(* A task that ends leaves nothing behind in its slot.                     *)
LEMMA FinishedSlot ==
  ASSUME IInv, NEW w \in Worker, Finish(w)
  PROVE  /\ worker' \in [Worker -> WorkerStates]
         /\ \A v \in Worker : worker'[v].task # "idle" => worker'[v] = worker[v]
<1>1. IdleWorker \in WorkerStates BY DEF WorkerStates
<1> QED BY <1>1 DEF IInv, TypeOK, Finish, IdleWorker

-----------------------------------------------------------------------------
(* Ingestion                                                               *)

LEMMA StartIngestStep ==
  ASSUME IInv, NEW w \in Worker, NEW s \in Source, StartIngest(w, s)
  PROVE  IInv'
<1> DEFINE D == {i \in Job : Home[i] = s /\ board[i] # None}
           f == [j \in D |-> board[j]]
           held == [task |-> "ingest", source |-> s, listed |-> f]
<1>1. f \in Partial(Job, Content)
  <2>1. f \in [D -> Content] /\ D \in SUBSET Job BY DEF IInv, TypeOK
  <2> HIDE DEF f, D
  <2> QED BY <2>1, PartialFunction
<1>2. worker' = [worker EXCEPT ![w] = held]
  BY DEF StartIngest
<1>3. held \in WorkerStates /\ held.task = "ingest"
  <2> HIDE DEF f
  <2> QED BY <1>1 DEF WorkerStates
<1> HIDE DEF held
<1>4. worker' \in [Worker -> WorkerStates]
  BY <1>2, <1>3 DEF IInv, TypeOK
<1>5. TypeOK'
  BY <1>4 DEF IInv, TypeOK, StartIngest, matchVars, tokenVars, queueVars
<1>6. JobsKnown'
  BY <1>2, <1>3 DEF IInv, TypeOK, JobsKnown, Exists, StartIngest, queueVars
<1> QED BY <1>5, <1>6 DEF IInv

LEMMA UpsertStep ==
  ASSUME IInv, NEW w \in Worker, Upsert(w)
  PROVE  IInv'
<1> DEFINE listed == worker[w].listed
           entered == {j \in DOMAIN listed : Entered(j, listed[j])}
<1>1. worker[w] \in WorkerStates /\ worker[w].task = "ingest"
  BY DEF Upsert, IInv, TypeOK
<1>2. listed \in Partial(Job, Content)
  BY <1>1, TaskShapes
<1>3. DOMAIN listed \subseteq Job /\ listed \in [DOMAIN listed -> Content]
  BY <1>2, PartialDomain
<1>4. ASSUME NEW j \in Job, j \in DOMAIN listed
      PROVE  Upserted(j, listed[j]) \in Rows
  <2>1. listed[j] \in Content BY <1>3, <1>4
  <2>2. CASE Open(j)
    <3>1. row[j] \in Rows BY <2>2, OpenRows DEF Open, IInv
    <3> QED BY <2>1, <2>2, <3>1 DEF Upserted, Rows
  <2>3. CASE ~Open(j)
    BY <2>1, <2>3 DEF Upserted, Rows, Tags
  <2> QED BY <2>2, <2>3
<1>5. ASSUME NEW j \in Job, j \in Gone(worker[w].source, listed)
      PROVE  [row[j] EXCEPT !.status = "closed"] \in Rows
  BY <1>5, OpenRows, RecordUpdates DEF Gone, Open, IInv
<1>6. /\ row' \in [Job -> Rows \cup {None}]
      /\ \A j \in Job : Exists(j) => row'[j] \in Rows
  BY <1>4, <1>5 DEF Upsert, IInv, TypeOK, Exists
<1>7. classifyQueue' \subseteq SUBSET Job
  <2>1. entered \in SUBSET Job BY <1>3
  <2>2. classifyQueue' = classifyQueue \cup ({entered} \ {{}}) BY DEF Upsert
  <2> QED BY <2>1, <2>2 DEF IInv, TypeOK
<1>7a. \A j \in Job : Exists(j) => row'[j] # None
  BY <1>6, PipelineAssumption
<1>8. /\ worker' \in [Worker -> WorkerStates]
      /\ \A v \in Worker : worker'[v].task # "idle" => worker'[v] = worker[v]
  BY FinishedSlot DEF Upsert
<1>9. TypeOK'
  BY <1>6, <1>7, <1>8 DEF Upsert, IInv, TypeOK, matchVars, tokenVars
<1>10. JobsKnown'
  BY <1>7a, <1>8, TaskShapes, PartialDomain DEF Upsert, IInv, TypeOK, JobsKnown, Exists
<1> QED BY <1>9, <1>10 DEF IInv

-----------------------------------------------------------------------------
(* Classification                                                          *)

(* A batch holds rows that exist.                                          *)
LEMMA BatchRows ==
  ASSUME IInv, NEW ids \in SUBSET Job
  PROVE  /\ [j \in Batch(ids) |-> row[j]] \in Partial(Job, Rows)
         /\ \A j \in Batch(ids) : j \in Job /\ Exists(j)
<1>1. Batch(ids) \in SUBSET Job /\ \A j \in Batch(ids) : Exists(j)
  BY DEF Batch
<1>2. \A j \in Batch(ids) : row[j] \in Rows
  BY <1>1, OpenRows DEF IInv
<1>3. [j \in Batch(ids) |-> row[j]] \in [Batch(ids) -> Rows]
  BY <1>2
<1> QED BY <1>1, <1>3, PartialFunction

LEMMA BeginBatchStep ==
  ASSUME IInv, NEW w \in Worker, NEW ids \in SUBSET Job, BeginBatch(w, ids)
  PROVE  /\ worker' \in [Worker -> WorkerStates]
         /\ \A v \in Worker : worker'[v].task = "classify" =>
              \/ worker'[v] = worker[v]
              \/ v = w /\ worker'[v].batch = [j \in Batch(ids) |-> row[j]]
<1> DEFINE f == [j \in Batch(ids) |-> row[j]]
           held == [task |-> "classify", batch |-> f]
<1>1. held \in WorkerStates /\ held.batch = f
  <2>1. f \in Partial(Job, Rows) BY BatchRows
  <2> HIDE DEF f
  <2> QED BY <2>1 DEF WorkerStates
<1>2. worker' = worker \/ worker' = [worker EXCEPT ![w] = held]
  BY DEF BeginBatch
<1> HIDE DEF held
<1> QED BY <1>1, <1>2 DEF IInv, TypeOK

LEMMA StartClassifyStep ==
  ASSUME IInv, NEW w \in Worker, NEW ids \in classifyQueue, StartClassify(w, ids)
  PROVE  IInv'
<1>1. ids \in SUBSET Job BY DEF IInv, TypeOK
<1>2. /\ worker' \in [Worker -> WorkerStates]
      /\ \A v \in Worker : worker'[v].task = "classify" =>
           \/ worker'[v] = worker[v]
           \/ v = w /\ worker'[v].batch = [j \in Batch(ids) |-> row[j]]
  BY <1>1, BeginBatchStep DEF StartClassify
<1>3. TypeOK'
  BY <1>2 DEF StartClassify, IInv, TypeOK, matchVars, tokenVars
<1>4. JobsKnown'
  BY <1>1, <1>2, BatchRows DEF StartClassify, IInv, JobsKnown, Exists
<1> QED BY <1>3, <1>4 DEF IInv

LEMMA StartSweepStep ==
  ASSUME IInv, NEW w \in Worker, StartSweep(w)
  PROVE  IInv'
<1>2. /\ worker' \in [Worker -> WorkerStates]
      /\ \A v \in Worker : worker'[v].task = "classify" =>
           \/ worker'[v] = worker[v]
           \/ v = w /\ worker'[v].batch = [j \in Batch(Job) |-> row[j]]
  BY BeginBatchStep DEF StartSweep
<1>3. TypeOK'
  BY <1>2 DEF StartSweep, IInv, TypeOK, matchVars, tokenVars, queueVars
<1>4. JobsKnown'
  BY <1>2, BatchRows DEF StartSweep, IInv, JobsKnown, Exists, queueVars
<1> QED BY <1>3, <1>4 DEF IInv

LEMMA ClassifyNextStep ==
  ASSUME IInv, NEW w \in Worker, ClassifyNext(w)
  PROVE  IInv'
<1> DEFINE batch == worker[w].batch
<1>1. worker[w] \in WorkerStates /\ worker[w].task = "classify"
  BY DEF ClassifyNext, IInv, TypeOK
<1>2. DOMAIN batch \subseteq Job /\ batch \in [DOMAIN batch -> Rows]
  BY <1>1, TaskShapes, PartialDomain
<1>3. PICK j \in DOMAIN batch :
        LET tags == TagsOf[batch[j].content]
            rest == DOMAIN batch \ {j}
        IN
        /\ row' = [row EXCEPT ![j] = [@ EXCEPT !.tags = tags, !.flag = FALSE]]
        /\ matchQueue' = matchQueue \cup (IF tags # batch[j].tags THEN {j} ELSE {})
        /\ worker' = [worker EXCEPT ![w] =
             IF rest = {} THEN IdleWorker
             ELSE [task |-> "classify", batch |-> [i \in rest |-> batch[i]]]]
  BY DEF ClassifyNext
<1> DEFINE tags == TagsOf[batch[j].content]
           rest == DOMAIN batch \ {j}
           f    == [i \in rest |-> batch[i]]
           held == IF rest = {} THEN IdleWorker ELSE [task |-> "classify", batch |-> f]
<1>4. j \in Job /\ Exists(j) /\ row[j] \in Rows /\ batch[j] \in Rows
  BY <1>1, <1>2, OpenRows DEF IInv, JobsKnown
<1>5. tags \in Tags
  BY <1>4 DEF Tags, Rows
<1>6. /\ row' \in [Job -> Rows \cup {None}]
      /\ \A i \in Job : Exists(i) => row'[i] # None
  <2> DEFINE new == [row[j] EXCEPT !.tags = tags, !.flag = FALSE]
  <2>1. new \in Rows BY <1>4, <1>5, RecordUpdates
  <2>2. row' = [row EXCEPT ![j] = new] BY <1>3
  <2> HIDE DEF new
  <2> QED BY <1>4, <2>1, <2>2, PipelineAssumption DEF IInv, TypeOK, Exists
<1>7. /\ held \in WorkerStates
      /\ held.task = "classify" => held.batch = f
  <2>1. f \in Partial(Job, Rows)
    <3>1. rest \in SUBSET Job /\ f \in [rest -> Rows] BY <1>2
    <3> HIDE DEF f, rest
    <3> QED BY <3>1, PartialFunction
  <2> HIDE DEF f, rest
  <2> QED BY <2>1 DEF WorkerStates, IdleWorker
<1>8. worker' = [worker EXCEPT ![w] = held] BY <1>3
<1>9. DOMAIN f \subseteq DOMAIN batch OBVIOUS
<1> HIDE DEF held, f, rest
<1>10. TypeOK'
  BY <1>3, <1>4, <1>6, <1>7, <1>8 DEF ClassifyNext, IInv, TypeOK, matchVars, tokenVars
<1>11. \A v \in Worker : worker'[v].task = "classify" =>
         \/ worker'[v] = worker[v]
         \/ v = w /\ DOMAIN worker'[v].batch \subseteq DOMAIN batch
  BY <1>7, <1>8, <1>9 DEF IInv, TypeOK
<1>12. ASSUME NEW v \in Worker, worker'[v].task = "classify",
              NEW i \in DOMAIN worker'[v].batch
       PROVE  row'[i] # None
  <2>1. i \in DOMAIN worker[v].batch /\ worker[v].task = "classify"
    BY <1>1, <1>11, <1>12
  <2>2. i \in Job /\ Exists(i)
    BY <2>1, TaskShapes, PartialDomain DEF IInv, TypeOK, JobsKnown
  <2> QED BY <1>6, <2>2
<1>13. JobsKnown'
  BY <1>3, <1>4, <1>6, <1>12 DEF IInv, TypeOK, JobsKnown, Exists
<1> QED BY <1>10, <1>13 DEF IInv

-----------------------------------------------------------------------------
(* Matching                                                                *)

LEMMA StartMatchStep ==
  ASSUME IInv, NEW w \in Worker, NEW j \in matchQueue, StartMatch(w, j)
  PROVE  IInv'
<1> DEFINE c == row[j].content
           f == [u \in Candidates(c) |-> profile[u].criteria]
           held == [task |-> "match", job |-> j, seen |-> row[j], users |-> f]
<1>1. j \in Job /\ Exists(j) /\ row[j] \in Rows
  BY OpenRows DEF IInv, TypeOK, JobsKnown
<1>2. f \in Partial(User, Criteria)
  <2>1. Candidates(c) \in SUBSET User /\ f \in [Candidates(c) -> Criteria]
    BY DEF Candidates, IInv, TypeOK, Profiles
  <2> HIDE DEF f
  <2> QED BY <2>1, PartialFunction
<1>3. held \in WorkerStates /\ held.task = "match"
  <2> HIDE DEF f
  <2> QED BY <1>1, <1>2 DEF WorkerStates
<1>4. worker' = [worker EXCEPT ![w] = held] BY DEF StartMatch
<1> HIDE DEF held
<1>5. TypeOK'
  BY <1>3, <1>4 DEF StartMatch, IInv, TypeOK, matchVars, tokenVars
<1>6. JobsKnown'
  BY <1>3, <1>4 DEF StartMatch, IInv, TypeOK, JobsKnown, Exists
<1> QED BY <1>5, <1>6 DEF IInv

LEMMA ScoredMatch ==
  ASSUME NEW criteria \in Criteria, NEW r \in Rows
  PROVE  Scored(criteria, r) \in Matches
BY DEF Scored, Matches, Rows

LEMMA CommitMatchStep ==
  ASSUME IInv, NEW w \in Worker, CommitMatch(w)
  PROVE  IInv'
<1>1. worker[w] \in WorkerStates /\ worker[w].task = "match"
  BY DEF CommitMatch, IInv, TypeOK
<1>2. /\ worker[w].job \in Job /\ worker[w].seen \in Rows
      /\ worker[w].users \in [DOMAIN worker[w].users -> Criteria]
  BY <1>1, TaskShapes, PartialDomain
<1>3. match' \in [User -> [Job -> Matches \cup {None}]]
  BY <1>2, ScoredMatch DEF CommitMatch, IInv, TypeOK
<1>4. /\ worker' \in [Worker -> WorkerStates]
      /\ \A v \in Worker : worker'[v].task # "idle" => worker'[v] = worker[v]
  BY FinishedSlot DEF CommitMatch
<1>5. TypeOK'
  BY <1>3, <1>4 DEF CommitMatch, IInv, TypeOK, tokenVars, queueVars
<1>6. JobsKnown'
  BY <1>4 DEF CommitMatch, IInv, JobsKnown, Exists, queueVars
<1> QED BY <1>5, <1>6 DEF IInv

LEMMA SaveProfileStep ==
  ASSUME IInv, NEW u \in User, NEW p \in Profiles, SaveProfile(u, p)
  PROVE  IInv'
<1>1. TypeOK'
  BY DEF SaveProfile, IInv, TypeOK
<1>2. JobsKnown'
  BY DEF SaveProfile, IInv, JobsKnown, Exists
<1> QED BY <1>1, <1>2 DEF IInv

LEMMA StartRematchStep ==
  ASSUME IInv, NEW w \in Worker, NEW u \in User, NEW t \in Nat, StartRematch(w, u, t)
  PROVE  IInv'
<1> DEFINE D == {i \in Job : Open(i) /\ row[i].recent}
           f == [j \in D |-> row[j]]
           held == [task |-> "rematch", user |-> u, seen |-> profile[u], jobs |-> f]
<1>1. f \in Partial(Job, Rows)
  <2>1. D \in SUBSET Job /\ f \in [D -> Rows] BY OpenRows DEF Open, IInv
  <2> HIDE DEF f, D
  <2> QED BY <2>1, PartialFunction
<1>2. held \in WorkerStates /\ held.task = "rematch"
  <2> HIDE DEF f
  <2> QED BY <1>1 DEF WorkerStates, IInv, TypeOK
<1>3. worker' = worker \/ worker' = [worker EXCEPT ![w] = held] BY DEF StartRematch
<1> HIDE DEF held
<1>4. TypeOK'
  BY <1>2, <1>3 DEF StartRematch, IInv, TypeOK, matchVars, tokenVars
<1>5. JobsKnown'
  BY <1>2, <1>3 DEF StartRematch, IInv, TypeOK, JobsKnown, Exists
<1> QED BY <1>4, <1>5 DEF IInv

LEMMA CommitRematchStep ==
  ASSUME IInv, NEW w \in Worker, CommitRematch(w)
  PROVE  IInv'
<1>1. worker[w] \in WorkerStates /\ worker[w].task = "rematch"
  BY DEF CommitRematch, IInv, TypeOK
<1>2. /\ worker[w].user \in User /\ worker[w].seen \in Profiles
      /\ worker[w].jobs \in [DOMAIN worker[w].jobs -> Rows]
  BY <1>1, TaskShapes, PartialDomain
<1> DEFINE u == worker[w].user
<1>3. Refreshed(match[u], worker[w].seen, worker[w].jobs) \in [Job -> Matches \cup {None}]
  BY <1>2, ScoredMatch DEF Refreshed, IInv, TypeOK, Profiles
<1>4. match' \in [User -> [Job -> Matches \cup {None}]]
  BY <1>2, <1>3 DEF CommitRematch, IInv, TypeOK
<1>5. /\ worker' \in [Worker -> WorkerStates]
      /\ \A v \in Worker : worker'[v].task # "idle" => worker'[v] = worker[v]
  BY FinishedSlot DEF CommitRematch
<1>6. TypeOK'
  BY <1>4, <1>5 DEF CommitRematch, IInv, TypeOK, tokenVars, queueVars
<1>7. JobsKnown'
  BY <1>5 DEF CommitRematch, IInv, JobsKnown, Exists, queueVars
<1> QED BY <1>6, <1>7 DEF IInv

-----------------------------------------------------------------------------
(* The boards, time and failures                                           *)

LEMMA SurroundingsStep ==
  ASSUME IInv, Surroundings
  PROVE  IInv'
<1>1. ASSUME NEW j \in Job, NEW c \in Content \cup {None}, ChangeBoard(j, c)
      PROVE  IInv'
  <2>1. changes' \in 0..MaxChanges
    BY <1>1, PipelineAssumption DEF ChangeBoard, IInv, TypeOK
  <2>2. TypeOK'
    BY <1>1, <2>1 DEF ChangeBoard, IInv, TypeOK, matchVars, tokenVars, queueVars
  <2>3. JobsKnown'
    BY <1>1 DEF ChangeBoard, IInv, JobsKnown, Exists, queueVars
  <2> QED BY <2>2, <2>3 DEF IInv
<1>2. ASSUME NEW j \in Job, Age(j)
      PROVE  IInv'
  <2>1. row[j] \in Rows
    BY <1>2, OpenRows DEF Age, IInv
  <2>2. /\ row' \in [Job -> Rows \cup {None}]
        /\ \A i \in Job : Exists(i) => row'[i] # None
    BY <1>2, <2>1, RecordUpdates, PipelineAssumption DEF Age, IInv, TypeOK, Exists
  <2>3. TypeOK'
    BY <1>2, <2>2 DEF Age, IInv, TypeOK, matchVars, tokenVars, queueVars
  <2>4. JobsKnown'
    BY <1>2, <2>2, TaskShapes, PartialDomain
       DEF Age, IInv, TypeOK, JobsKnown, Exists, queueVars
  <2> QED BY <2>3, <2>4 DEF IInv
<1> QED BY <1>1, <1>2, SaveProfileStep DEF Surroundings

LEMMA FailuresStep ==
  ASSUME IInv, Failures
  PROVE  IInv'
<1>1. ASSUME Fails PROVE faults' \in 0..MaxFaults
  BY <1>1, PipelineAssumption DEF Fails, IInv, TypeOK
<1>2. ASSUME LoseMessage PROVE IInv'
  <2>1. classifyQueue' \subseteq classifyQueue /\ matchQueue' \subseteq matchQueue
        /\ rematchQueue' \subseteq rematchQueue
    BY <1>2 DEF LoseMessage
  <2>2. TypeOK'
    BY <1>1, <1>2, <2>1 DEF LoseMessage, IInv, TypeOK, matchVars, tokenVars
  <2>3. JobsKnown'
    BY <1>2, <2>1 DEF LoseMessage, IInv, JobsKnown, Exists
  <2> QED BY <2>2, <2>3 DEF IInv
<1>3. ASSUME NEW u \in User, ExpireToken(u) PROVE IInv'
  <2>1. TypeOK'
    BY <1>1, <1>3 DEF ExpireToken, IInv, TypeOK, matchVars, queueVars
  <2>2. JobsKnown'
    BY <1>3 DEF ExpireToken, IInv, JobsKnown, Exists, queueVars
  <2> QED BY <2>1, <2>2 DEF IInv
<1>4. ASSUME NEW w \in Worker, Crash(w) PROVE IInv'
  <2>1. /\ worker' \in [Worker -> WorkerStates]
        /\ \A v \in Worker : worker'[v].task # "idle" => worker'[v] = worker[v]
    BY <1>4, FinishedSlot DEF Crash
  <2>2. TypeOK'
    BY <1>1, <1>4, <2>1 DEF Crash, IInv, TypeOK, matchVars, tokenVars, queueVars
  <2>3. JobsKnown'
    BY <1>4, <2>1 DEF Crash, IInv, JobsKnown, Exists, queueVars
  <2> QED BY <2>2, <2>3 DEF IInv
<1> QED BY <1>2, <1>3, <1>4 DEF Failures

LEMMA Stuttering ==
  ASSUME IInv, UNCHANGED vars
  PROVE  IInv'
BY DEF IInv, TypeOK, JobsKnown, Exists, vars, matchVars, tokenVars, queueVars

LEMMA NextStep ==
  ASSUME IInv, [Next]_vars
  PROVE  IInv'
<1>1. ASSUME NEW w \in Worker, Start(w) PROVE IInv'
  <2>1. ASSUME NEW m \in rematchQueue, StartRematch(w, m[1], m[2]) PROVE IInv'
    <3>1. m[1] \in User /\ m[2] \in Nat BY DEF IInv, TypeOK
    <3> QED BY <2>1, <3>1, StartRematchStep
  <2> QED BY <1>1, <2>1, StartIngestStep, StartClassifyStep, StartSweepStep,
             StartMatchStep DEF Start
<1>2. ASSUME NEW w \in Worker, Proceed(w) PROVE IInv'
  BY <1>2, UpsertStep, ClassifyNextStep, CommitMatchStep, CommitRematchStep DEF Proceed
<1> QED BY <1>1, <1>2, SurroundingsStep, FailuresStep, Stuttering DEF Next

THEOREM Invariance == Spec => []IInv
BY InitialState, NextStep, PTL DEF Spec

(* Every variable keeps its type in every reachable state.                 *)
THEOREM TypeCorrect == Spec => []TypeOK
<1>1. IInv => TypeOK BY DEF IInv
<1> QED BY <1>1, Invariance, PTL

-----------------------------------------------------------------------------
(* What a pool with one slot keeps: its tasks do not overlap, while the    *)
(* web requests and the boards still change between their two steps.       *)
OneSlot == \A v, w \in Worker : v = w

BatchesCurrent ==
  \A w \in Worker : worker[w].task = "classify" =>
    \A j \in DOMAIN worker[w].batch : row[j].content = worker[w].batch[j].content

TagsInv == IInv /\ TagsAreCurrent /\ BatchesCurrent

LEMMA UpsertKeepsTags ==
  ASSUME OneSlot, TagsInv, NEW w \in Worker, Upsert(w)
  PROVE  TagsAreCurrent' /\ BatchesCurrent'
<1> DEFINE listed == worker[w].listed
<1>1. DOMAIN listed \subseteq Job /\ listed \in [DOMAIN listed -> Content]
  BY TaskShapes, PartialDomain DEF Upsert, TagsInv, IInv, TypeOK
<1>2. ASSUME NEW j \in Job, Exists(j)', ~row'[j].flag
      PROVE  row'[j].tags = TagsOf[row'[j].content]
  <2>1. CASE j \in DOMAIN listed
    <3>1. row'[j] = Upserted(j, listed[j])
      BY <2>1 DEF Upsert, TagsInv, IInv, TypeOK
    <3>2. Open(j) /\ row[j] \in Rows
      BY <1>2, <3>1, OpenRows DEF Upserted, Open, TagsInv, IInv
    <3>3. ~row[j].flag /\ row[j].content = listed[j] /\ row'[j].tags = row[j].tags
          /\ row'[j].content = listed[j]
      BY <1>2, <3>1, <3>2 DEF Upserted, Rows
    <3> QED BY <3>2, <3>3 DEF TagsInv, TagsAreCurrent, Open
  <2>2. CASE j \notin DOMAIN listed /\ j \in Gone(worker[w].source, listed)
    <3>1. row'[j] = [row[j] EXCEPT !.status = "closed"]
      BY <2>2 DEF Upsert, TagsInv, IInv, TypeOK
    <3>2. Exists(j) /\ row[j] \in Rows
      BY <2>2, OpenRows DEF Gone, Open, TagsInv, IInv
    <3> QED BY <1>2, <3>1, <3>2 DEF Rows, TagsInv, TagsAreCurrent
  <2>3. CASE j \notin DOMAIN listed /\ j \notin Gone(worker[w].source, listed)
    <3>1. row'[j] = row[j]
      BY <2>3 DEF Upsert, TagsInv, IInv, TypeOK
    <3> QED BY <1>2, <3>1 DEF Exists, TagsInv, TagsAreCurrent
  <2> QED BY <2>1, <2>2, <2>3
<1>3. TagsAreCurrent'
  BY <1>2 DEF TagsAreCurrent
<1>4. BatchesCurrent'
  <2>1. \A v \in Worker : worker'[v].task = "idle"
    BY DEF OneSlot, Upsert, Finish, IdleWorker, TagsInv, IInv, TypeOK
  <2> QED BY <2>1 DEF BatchesCurrent
<1> QED BY <1>3, <1>4

LEMMA ClassifyNextKeepsTags ==
  ASSUME OneSlot, TagsInv, NEW w \in Worker, ClassifyNext(w)
  PROVE  TagsAreCurrent' /\ BatchesCurrent'
<1> DEFINE batch == worker[w].batch
<1>1. worker[w] \in WorkerStates /\ worker[w].task = "classify"
  BY DEF ClassifyNext, TagsInv, IInv, TypeOK
<1>2. DOMAIN batch \subseteq Job /\ batch \in [DOMAIN batch -> Rows]
  BY <1>1, TaskShapes, PartialDomain
<1>3. PICK j \in DOMAIN batch :
        LET tags == TagsOf[batch[j].content]
            rest == DOMAIN batch \ {j}
        IN
        /\ row' = [row EXCEPT ![j] = [@ EXCEPT !.tags = tags, !.flag = FALSE]]
        /\ worker' = [worker EXCEPT ![w] =
             IF rest = {} THEN IdleWorker
             ELSE [task |-> "classify", batch |-> [i \in rest |-> batch[i]]]]
  BY DEF ClassifyNext
<1> DEFINE tags == TagsOf[batch[j].content]
           rest == DOMAIN batch \ {j}
           new  == [row[j] EXCEPT !.tags = tags, !.flag = FALSE]
<1>4. j \in Job /\ row[j] \in Rows /\ row[j].content = batch[j].content
  BY <1>1, <1>2, OpenRows DEF TagsInv, IInv, JobsKnown, BatchesCurrent
<1>5. new.tags = TagsOf[new.content] /\ new.content = row[j].content
  BY <1>4 DEF Rows
<1>6. row' = [row EXCEPT ![j] = new] BY <1>3
<1> HIDE DEF new
<1>7. TagsAreCurrent'
  BY <1>4, <1>5, <1>6 DEF TagsInv, TagsAreCurrent, Exists, IInv, TypeOK
<1>8. BatchesCurrent'
  <2> SUFFICES ASSUME NEW v \in Worker, worker'[v].task = "classify",
                      NEW i \in DOMAIN worker'[v].batch
               PROVE  row'[i].content = worker'[v].batch[i].content
    BY DEF BatchesCurrent
  <2>1. v = w BY DEF OneSlot
  <2>2. worker'[w] = IF rest = {} THEN IdleWorker
                     ELSE [task |-> "classify", batch |-> [k \in rest |-> batch[k]]]
    BY <1>3 DEF TagsInv, IInv, TypeOK
  <2>3. worker'[w].batch = [k \in rest |-> batch[k]]
    BY <2>1, <2>2 DEF IdleWorker
  <2>4. i \in rest /\ i \in Job /\ i # j /\ worker'[v].batch[i] = batch[i]
    BY <1>2, <2>1, <2>3
  <2>5. row'[i] = row[i]
    BY <1>6, <2>4 DEF TagsInv, IInv, TypeOK
  <2> QED BY <1>1, <2>4, <2>5 DEF TagsInv, BatchesCurrent
<1> QED BY <1>7, <1>8

(* A batch that has just been read agrees with the rows.                   *)
LEMMA BeginBatchKeepsTags ==
  ASSUME TagsInv, NEW w \in Worker, NEW ids \in SUBSET Job, BeginBatch(w, ids),
         row' = row
  PROVE  TagsAreCurrent' /\ BatchesCurrent'
<1>1. \A v \in Worker : worker'[v].task = "classify" =>
           \/ worker'[v] = worker[v]
           \/ v = w /\ worker'[v].batch = [j \in Batch(ids) |-> row[j]]
  BY BeginBatchStep DEF TagsInv
<1>2. TagsAreCurrent'
  BY DEF TagsInv, TagsAreCurrent, Exists
<1>3. BatchesCurrent'
  <2> SUFFICES ASSUME NEW v \in Worker, worker'[v].task = "classify",
                      NEW i \in DOMAIN worker'[v].batch
               PROVE  row'[i].content = worker'[v].batch[i].content
    BY DEF BatchesCurrent
  <2>1. CASE worker'[v] = worker[v]
    BY <2>1 DEF TagsInv, BatchesCurrent
  <2>2. CASE worker'[v].batch = [j \in Batch(ids) |-> row[j]]
    BY <2>2
  <2> QED BY <1>1, <2>1, <2>2
<1> QED BY <1>2, <1>3

LEMMA NextKeepsTags ==
  ASSUME OneSlot, TagsInv, [Next]_vars
  PROVE  TagsInv'
<1>1. IInv'
  BY NextStep DEF TagsInv
<1>2. ASSUME NEW w \in Worker, Start(w) PROVE TagsAreCurrent' /\ BatchesCurrent'
  <2>1. ASSUME NEW ids \in classifyQueue, StartClassify(w, ids)
        PROVE  TagsAreCurrent' /\ BatchesCurrent'
    <3>1. ids \in SUBSET Job BY DEF TagsInv, IInv, TypeOK
    <3> QED BY <2>1, <3>1, BeginBatchKeepsTags DEF StartClassify
  <2>2. ASSUME StartSweep(w) PROVE TagsAreCurrent' /\ BatchesCurrent'
    BY <2>2, BeginBatchKeepsTags DEF StartSweep
  <2>3. ASSUME row' = row,
               \A v \in Worker : worker'[v].task = "classify" => worker'[v] = worker[v]
        PROVE  TagsAreCurrent' /\ BatchesCurrent'
    BY <2>3 DEF TagsInv, TagsAreCurrent, BatchesCurrent, Exists
  <2>4. ASSUME NEW s \in Source, StartIngest(w, s)
        PROVE  TagsAreCurrent' /\ BatchesCurrent'
    BY <2>3, <2>4 DEF StartIngest, TagsInv, IInv, TypeOK
  <2>5. ASSUME NEW j \in matchQueue, StartMatch(w, j)
        PROVE  TagsAreCurrent' /\ BatchesCurrent'
    BY <2>3, <2>5 DEF StartMatch, TagsInv, IInv, TypeOK
  <2>6. ASSUME NEW m \in rematchQueue, StartRematch(w, m[1], m[2])
        PROVE  TagsAreCurrent' /\ BatchesCurrent'
    BY <2>3, <2>6 DEF StartRematch, TagsInv, IInv, TypeOK
  <2> QED BY <1>2, <2>1, <2>2, <2>4, <2>5, <2>6 DEF Start
<1>3. ASSUME row' = row,
             \A v \in Worker : worker'[v].task # "idle" => worker'[v] = worker[v]
      PROVE  TagsAreCurrent' /\ BatchesCurrent'
  BY <1>3 DEF TagsInv, TagsAreCurrent, BatchesCurrent, Exists
<1>4. ASSUME NEW w \in Worker, Proceed(w) PROVE TagsAreCurrent' /\ BatchesCurrent'
  <2>1. ASSUME CommitMatch(w) PROVE TagsAreCurrent' /\ BatchesCurrent'
    BY <1>3, <2>1, FinishedSlot DEF CommitMatch, TagsInv
  <2>2. ASSUME CommitRematch(w) PROVE TagsAreCurrent' /\ BatchesCurrent'
    BY <1>3, <2>2, FinishedSlot DEF CommitRematch, TagsInv
  <2> QED BY <1>4, <2>1, <2>2, UpsertKeepsTags, ClassifyNextKeepsTags DEF Proceed
<1>5. ASSUME Surroundings PROVE TagsAreCurrent' /\ BatchesCurrent'
  <2>1. ASSUME NEW j \in Job, Age(j) PROVE TagsAreCurrent' /\ BatchesCurrent'
    <3>1. row[j] \in Rows
      BY <2>1, OpenRows DEF Age, TagsInv, IInv
    <3> DEFINE new == [row[j] EXCEPT !.recent = FALSE]
    <3>2. new.tags = row[j].tags /\ new.content = row[j].content /\ new.flag = row[j].flag
      BY <3>1 DEF Rows
    <3>3. row' = [row EXCEPT ![j] = new] BY <2>1 DEF Age
    <3> HIDE DEF new
    <3>4. \A i \in Job : /\ row'[i] # None => row[i] # None
                         /\ row'[i].tags = row[i].tags
                         /\ row'[i].content = row[i].content
                         /\ row'[i].flag = row[i].flag
      BY <2>1, <3>2, <3>3 DEF Age, Exists, TagsInv, IInv, TypeOK
    <3>5. TagsAreCurrent'
      BY <3>4 DEF TagsInv, TagsAreCurrent, Exists
    <3>6. BatchesCurrent'
      <4>1. worker' = worker BY <2>1 DEF Age
      <4>2. \A w \in Worker : worker[w].task = "classify" => DOMAIN worker[w].batch \subseteq Job
        BY TaskShapes, PartialDomain DEF TagsInv, IInv, TypeOK
      <4> QED BY <3>4, <4>1, <4>2 DEF TagsInv, BatchesCurrent
    <3> QED BY <3>5, <3>6
  <2>2. ASSUME NEW u \in User, NEW p \in Profiles, SaveProfile(u, p)
        PROVE  TagsAreCurrent' /\ BatchesCurrent'
    BY <1>3, <2>2 DEF SaveProfile
  <2>3. ASSUME NEW j \in Job, NEW c \in Content \cup {None}, ChangeBoard(j, c)
        PROVE  TagsAreCurrent' /\ BatchesCurrent'
    BY <1>3, <2>3 DEF ChangeBoard
  <2> QED BY <1>5, <2>1, <2>2, <2>3 DEF Surroundings
<1>6. ASSUME Failures PROVE TagsAreCurrent' /\ BatchesCurrent'
  <2>1. ASSUME NEW w \in Worker, Crash(w) PROVE TagsAreCurrent' /\ BatchesCurrent'
    BY <1>3, <2>1, FinishedSlot DEF Crash, TagsInv
  <2>2. ASSUME LoseMessage PROVE TagsAreCurrent' /\ BatchesCurrent'
    BY <1>3, <2>2 DEF LoseMessage
  <2>3. ASSUME NEW u \in User, ExpireToken(u) PROVE TagsAreCurrent' /\ BatchesCurrent'
    BY <1>3, <2>3 DEF ExpireToken
  <2> QED BY <1>6, <2>1, <2>2, <2>3 DEF Failures
<1>7. ASSUME UNCHANGED vars PROVE TagsAreCurrent' /\ BatchesCurrent'
  BY <1>3, <1>7 DEF vars
<1> QED BY <1>1, <1>2, <1>4, <1>5, <1>6, <1>7 DEF Next, TagsInv

(* With one slot an unflagged row always has the tags of its content:      *)
(* what makes rows stale is only a classification that overlaps an         *)
(* ingestion.                                                              *)
THEOREM TagsCurrentOnOneSlot ==
  ASSUME OneSlot
  PROVE  Spec => []TagsAreCurrent
<1>1. Init => TagsInv
  BY InitialState DEF Init, TagsInv, TagsAreCurrent, BatchesCurrent, Exists, IdleWorker
<1>2. TagsInv /\ [Next]_vars => TagsInv'
  BY NextKeepsTags
<1>3. TagsInv => TagsAreCurrent
  BY DEF TagsInv
<1> QED BY <1>1, <1>2, <1>3, PTL DEF Spec

-----------------------------------------------------------------------------
(* Why no edit is forgotten: at any time the rematch of the last edit is   *)
(* queued, or running on what the profile says now, or done.               *)
OpenIsRecent == \A j \in Job : Open(j) => row[j].recent

MatchedExists ==
  /\ \A u \in User, j \in Job : match[u][j] # None => Exists(j)
  /\ \A w \in Worker : worker[w].task = "match" => Exists(worker[w].job)
  /\ \A w \in Worker : worker[w].task = "rematch" =>
       \A j \in DOMAIN worker[w].jobs : Exists(j)

Queued(u) == <<u, token[u]>> \in rematchQueue

BeingRematched(u) ==
  \E w \in Worker :
    /\ worker[w].task = "rematch" /\ worker[w].user = u
    /\ worker[w].seen = profile[u]
    /\ \A j \in Job : Open(j) => j \in DOMAIN worker[w].jobs

Follows(u) ==
  /\ \A j \in Job : match[u][j] # None =>
       profile[u].active /\ match[u][j].criteria = profile[u].criteria
  /\ \A w \in Worker : worker[w].task = "match" /\ u \in DOMAIN worker[w].users =>
       profile[u].active /\ worker[w].users[u] = profile[u].criteria
  /\ \A w \in Worker : worker[w].task = "rematch" => worker[w].user # u

EditsCovered == \A u \in User : Queued(u) \/ BeingRematched(u) \/ Follows(u)

EditsInv == IInv /\ OpenIsRecent /\ MatchedExists /\ EditsCovered

(* A step that leaves rows, profiles and matches alone, starts nothing and *)
(* keeps the queued rematches keeps the coverage.                          *)
LEMMA QuietStep ==
  ASSUME EditsInv, row' = row, profile' = profile, match' = match, token' = token,
         rematchQueue' = rematchQueue,
         \A v \in Worker : worker[v].task = "rematch" => worker'[v] = worker[v],
         \A v \in Worker : worker'[v].task \in {"match", "rematch"} => worker'[v] = worker[v]
  PROVE  OpenIsRecent' /\ MatchedExists' /\ EditsCovered'
<1>1. OpenIsRecent' /\ MatchedExists'
  BY DEF EditsInv, OpenIsRecent, MatchedExists, Open, Exists
<1>2. ASSUME NEW u \in User PROVE (Queued(u) \/ BeingRematched(u) \/ Follows(u))'
  <2>1. CASE Queued(u)
    BY <2>1 DEF Queued
  <2>2. CASE BeingRematched(u)
    BY <2>2 DEF BeingRematched, Open, Exists
  <2>3. CASE Follows(u)
    BY <2>3 DEF Follows
  <2> QED BY <2>1, <2>2, <2>3 DEF EditsInv, EditsCovered
<1> QED BY <1>1, <1>2 DEF EditsCovered

(* With one slot, a slot that is not rematching means nobody is.           *)
LEMMA NotBeingRematched ==
  ASSUME OneSlot, NEW w \in Worker, worker[w].task # "rematch", NEW u \in User
  PROVE  ~BeingRematched(u)
BY DEF OneSlot, BeingRematched

(* An upsert reopens only rows that are recent, and deletes none.          *)
LEMMA UpsertCovers ==
  ASSUME OneSlot, EditsInv, NEW w \in Worker, Upsert(w)
  PROVE  OpenIsRecent' /\ MatchedExists' /\ EditsCovered'
<1> DEFINE listed == worker[w].listed
<1>1. DOMAIN listed \subseteq Job /\ listed \in [DOMAIN listed -> Content]
  BY TaskShapes, PartialDomain DEF Upsert, EditsInv, IInv, TypeOK
<1>2. ASSUME NEW j \in Job
      PROVE  (Open(j) => row[j].recent)' /\ (Exists(j) => Exists(j)')
  <2>1. CASE j \in DOMAIN listed
    <3>1. row'[j] = Upserted(j, listed[j])
      BY <2>1 DEF Upsert, EditsInv, IInv, TypeOK
    <3>2. Open(j) => row[j] \in Rows
      BY OpenRows DEF Open, EditsInv, IInv
    <3>3. row'[j].recent
      BY <3>1, <3>2 DEF Upserted, Rows
    <3>4. row'[j] \in Rows
      <4>1. listed[j] \in Content BY <1>1, <2>1
      <4>2. CASE Open(j)
        BY <3>1, <3>2, <4>1, <4>2 DEF Upserted, Rows
      <4>3. CASE ~Open(j)
        BY <3>1, <4>1, <4>3 DEF Upserted, Rows, Tags
      <4> QED BY <4>2, <4>3
    <3> QED BY <3>3, <3>4, PipelineAssumption DEF Exists
  <2>2. CASE j \notin DOMAIN listed /\ j \in Gone(worker[w].source, listed)
    <3>1. row'[j] = [row[j] EXCEPT !.status = "closed"]
      BY <2>2 DEF Upsert, EditsInv, IInv, TypeOK
    <3>2. row[j] \in Rows
      BY <2>2, OpenRows DEF Gone, Open, EditsInv, IInv
    <3>3. row'[j] \in Rows /\ row'[j].status = "closed"
      BY <3>1, <3>2 DEF Rows
    <3> QED BY <3>3, PipelineAssumption DEF Open, Exists
  <2>3. CASE j \notin DOMAIN listed /\ j \notin Gone(worker[w].source, listed)
    <3>1. row'[j] = row[j]
      BY <2>3 DEF Upsert, EditsInv, IInv, TypeOK
    <3> QED BY <3>1 DEF EditsInv, OpenIsRecent, Open, Exists
  <2> QED BY <2>1, <2>2, <2>3
<1>3. match' = match /\ profile' = profile /\ token' = token /\ rematchQueue' = rematchQueue
  BY DEF Upsert, matchVars, tokenVars
<1>3a. \A v \in Worker : worker'[v].task = "idle"
  BY DEF OneSlot, Upsert, Finish, IdleWorker, EditsInv, IInv, TypeOK
<1>4. OpenIsRecent' /\ MatchedExists'
  BY <1>2, <1>3, <1>3a DEF OpenIsRecent, MatchedExists, EditsInv
<1>5. ASSUME NEW u \in User PROVE (Queued(u) \/ Follows(u))'
  <2>1. Queued(u) \/ Follows(u)
    BY NotBeingRematched DEF Upsert, EditsInv, EditsCovered
  <2> QED BY <1>3, <1>3a, <2>1 DEF Queued, Follows
<1> QED BY <1>4, <1>5 DEF EditsCovered

LEMMA ClassifyNextCovers ==
  ASSUME OneSlot, EditsInv, NEW w \in Worker, ClassifyNext(w)
  PROVE  OpenIsRecent' /\ MatchedExists' /\ EditsCovered'
<1> DEFINE batch == worker[w].batch
<1>1. worker[w] \in WorkerStates /\ worker[w].task = "classify"
  BY DEF ClassifyNext, EditsInv, IInv, TypeOK
<1>2. DOMAIN batch \subseteq Job /\ batch \in [DOMAIN batch -> Rows]
  BY <1>1, TaskShapes, PartialDomain
<1>3. PICK j \in DOMAIN batch :
        LET tags == TagsOf[batch[j].content]
            rest == DOMAIN batch \ {j}
        IN
        /\ row' = [row EXCEPT ![j] = [@ EXCEPT !.tags = tags, !.flag = FALSE]]
        /\ worker' = [worker EXCEPT ![w] =
             IF rest = {} THEN IdleWorker
             ELSE [task |-> "classify", batch |-> [i \in rest |-> batch[i]]]]
  BY DEF ClassifyNext
<1> DEFINE new == [row[j] EXCEPT !.tags = TagsOf[batch[j].content], !.flag = FALSE]
<1>4. j \in Job /\ Exists(j) /\ row[j] \in Rows
  BY <1>1, <1>2, OpenRows DEF EditsInv, IInv, JobsKnown
<1>5. new.status = row[j].status /\ new.recent = row[j].recent
  BY <1>4 DEF Rows
<1>6. row' = [row EXCEPT ![j] = new] BY <1>3
<1>7. new # None
  <2>1. TagsOf[batch[j].content] \in Tags
    BY <1>2 DEF Tags, Rows
  <2>2. new \in Rows BY <1>4, <2>1, RecordUpdates
  <2> QED BY <2>2, PipelineAssumption
<1> HIDE DEF new
<1>8. \A i \in Job : /\ Exists(i)' <=> Exists(i)
                     /\ Open(i)' <=> Open(i)
                     /\ row'[i].recent = row[i].recent
  BY <1>4, <1>5, <1>6, <1>7 DEF Open, Exists, EditsInv, IInv, TypeOK
<1>9. match' = match /\ profile' = profile /\ token' = token /\ rematchQueue' = rematchQueue
  BY DEF ClassifyNext, matchVars, tokenVars
<1>9a. \A v \in Worker : worker'[v].task \notin {"match", "rematch"}
  <2>1. worker'[w].task \in {"idle", "classify"}
    BY <1>3 DEF IdleWorker, EditsInv, IInv, TypeOK
  <2> QED BY <2>1 DEF OneSlot
<1>10. OpenIsRecent' /\ MatchedExists'
  BY <1>8, <1>9, <1>9a DEF OpenIsRecent, MatchedExists, EditsInv
<1>11. ASSUME NEW u \in User PROVE (Queued(u) \/ Follows(u))'
  <2>1. Queued(u) \/ Follows(u)
    BY <1>1, NotBeingRematched DEF EditsInv, EditsCovered
  <2> QED BY <1>9, <1>9a, <2>1 DEF Queued, Follows
<1> QED BY <1>10, <1>11 DEF EditsCovered

(* The candidates are read from the profiles as they are.                  *)
LEMMA StartMatchCovers ==
  ASSUME OneSlot, EditsInv, NEW w \in Worker, NEW j \in matchQueue, StartMatch(w, j)
  PROVE  OpenIsRecent' /\ MatchedExists' /\ EditsCovered'
<1>1. /\ row' = row /\ profile' = profile /\ match' = match
      /\ token' = token /\ rematchQueue' = rematchQueue
  BY DEF StartMatch, matchVars, tokenVars
<1>2. OpenIsRecent' /\ MatchedExists'
  <2>1. \A v \in Worker : worker'[v].task = "match" /\ worker'[v].job = j
    BY DEF OneSlot, StartMatch, EditsInv, IInv, TypeOK
  <2>2. Exists(j)
    BY DEF EditsInv, IInv, JobsKnown
  <2> QED BY <1>1, <2>1, <2>2 DEF EditsInv, OpenIsRecent, MatchedExists, Open, Exists
<1>3. ASSUME NEW u \in User PROVE (Queued(u) \/ Follows(u))'
  <2>1. Queued(u) \/ Follows(u)
    BY NotBeingRematched DEF StartMatch, Idle, EditsInv, EditsCovered
  <2>2. /\ worker'[w].task = "match"
        /\ worker'[w].users =
             [x \in Candidates(row[j].content) |-> profile[x].criteria]
    BY DEF StartMatch, EditsInv, IInv, TypeOK
  <2>3. u \in DOMAIN worker'[w].users =>
          profile[u].active /\ worker'[w].users[u] = profile[u].criteria
    BY <2>2 DEF Candidates
  <2>4. \A v \in Worker : v = w
    BY DEF OneSlot
  <2> QED BY <1>1, <2>1, <2>2, <2>3, <2>4 DEF Queued, Follows
<1> QED BY <1>2, <1>3 DEF EditsCovered

LEMMA CommitMatchCovers ==
  ASSUME OneSlot, EditsInv, NEW w \in Worker, CommitMatch(w)
  PROVE  OpenIsRecent' /\ MatchedExists' /\ EditsCovered'
<1> DEFINE x == worker[w]
<1>0. x \in WorkerStates /\ x.task = "match"
  BY DEF CommitMatch, EditsInv, IInv, TypeOK
<1>1. row' = row /\ profile' = profile /\ token' = token /\ rematchQueue' = rematchQueue
  BY DEF CommitMatch, tokenVars, queueVars
<1>2. \A v \in Worker : worker'[v].task = "idle"
  BY DEF OneSlot, CommitMatch, Finish, IdleWorker, EditsInv, IInv, TypeOK
<1>3. x.job \in Job /\ Exists(x.job) /\ x.users \in [DOMAIN x.users -> Criteria]
      /\ x.seen \in Rows
  BY <1>0, TaskShapes, PartialDomain DEF EditsInv, MatchedExists
<1>4. ASSUME NEW u \in User, NEW j \in Job, match'[u][j] # None
      PROVE  \/ match'[u][j] = match[u][j]
             \/ /\ j = x.job /\ u \in DOMAIN x.users
                /\ match'[u][j].criteria = x.users[u]
  BY <1>3, <1>4 DEF CommitMatch, Scored, EditsInv, IInv, TypeOK
<1>5. OpenIsRecent' /\ MatchedExists'
  BY <1>1, <1>2, <1>3, <1>4 DEF EditsInv, OpenIsRecent, MatchedExists, Open, Exists
<1>6. ASSUME NEW u \in User PROVE (Queued(u) \/ Follows(u))'
  <2>1. Queued(u) \/ Follows(u)
    BY <1>0, NotBeingRematched DEF EditsInv, EditsCovered
  <2>2. CASE Queued(u)
    BY <1>1, <2>2 DEF Queued
  <2>3. CASE Follows(u)
    <3>1. u \in DOMAIN x.users => profile[u].active /\ x.users[u] = profile[u].criteria
      BY <1>0, <2>3 DEF Follows
    <3>2. \A j \in Job : match[u][j] # None =>
            profile[u].active /\ match[u][j].criteria = profile[u].criteria
      BY <2>3 DEF Follows
    <3> HIDE DEF x
    <3> QED BY <1>1, <1>2, <1>4, <3>1, <3>2 DEF Follows
  <2> QED BY <2>1, <2>2, <2>3
<1> QED BY <1>5, <1>6 DEF EditsCovered

(* The rematch of the last edit starts on the profile as it is and on all  *)
(* open jobs; any other is dropped.                                        *)
LEMMA StartRematchCovers ==
  ASSUME OneSlot, EditsInv, NEW w \in Worker, NEW u \in User, NEW t \in Nat,
         StartRematch(w, u, t)
  PROVE  OpenIsRecent' /\ MatchedExists' /\ EditsCovered'
<1>1. row' = row /\ profile' = profile /\ match' = match /\ token' = token
  BY DEF StartRematch, matchVars, tokenVars
<1> DEFINE D == {i \in Job : Open(i) /\ row[i].recent}
           held == [task |-> "rematch", user |-> u, seen |-> profile[u],
                    jobs |-> [j \in D |-> row[j]]]
<1>2. \A v \in User : Queued(v) \/ Follows(v)
  BY NotBeingRematched DEF StartRematch, Idle, EditsInv, EditsCovered
<1>3. rematchQueue' = rematchQueue \ {<<u, t>>}
  BY DEF StartRematch
<1>4. CASE t # token[u]
  <2>1. worker' = worker BY <1>4 DEF StartRematch
  <2>2. OpenIsRecent' /\ MatchedExists'
    BY <1>1, <2>1 DEF EditsInv, OpenIsRecent, MatchedExists, Open, Exists
  <2>3. ASSUME NEW v \in User PROVE (Queued(v) \/ Follows(v))'
    <3>1. CASE Queued(v)
      BY <1>1, <1>3, <1>4, <3>1 DEF Queued
    <3>2. CASE Follows(v)
      BY <1>1, <2>1, <3>2 DEF Follows
    <3> QED BY <1>2, <3>1, <3>2
  <2> QED BY <2>2, <2>3 DEF EditsCovered
<1>5. CASE t = token[u]
  <2>1. \A v \in Worker : v = w /\ worker'[v] = held
    BY <1>5 DEF StartRematch, OneSlot, EditsInv, IInv, TypeOK
  <2>2. held.task = "rematch" /\ held.user = u /\ held.seen = profile[u]
        /\ DOMAIN held.jobs = D
    OBVIOUS
  <2>3. \A j \in Job : Open(j) <=> j \in D
    BY DEF EditsInv, OpenIsRecent
  <2> HIDE DEF held, D
  <2>4. OpenIsRecent'
    BY <1>1 DEF EditsInv, OpenIsRecent, Open, Exists
  <2>5. MatchedExists'
    <3>1. D \subseteq Job BY DEF D
    <3> QED BY <1>1, <2>1, <2>2, <2>3, <3>1 DEF EditsInv, MatchedExists, Open, Exists
  <2>6. BeingRematched(u)'
    BY <1>1, <2>1, <2>2, <2>3 DEF BeingRematched, Open, Exists
  <2>7. ASSUME NEW v \in User, v # u PROVE (Queued(v) \/ Follows(v))'
    <3>1. CASE Queued(v)
      BY <1>1, <1>3, <2>7, <3>1 DEF Queued
    <3>2. CASE Follows(v)
      BY <1>1, <2>1, <2>2, <2>7, <3>2 DEF Follows
    <3> QED BY <1>2, <3>1, <3>2
  <2> QED BY <2>4, <2>5, <2>6, <2>7 DEF EditsCovered
<1> QED BY <1>4, <1>5

(* What a rematch leaves to its user follows the profile it has read.      *)
LEMMA CommitRematchCovers ==
  ASSUME OneSlot, EditsInv, NEW w \in Worker, CommitRematch(w)
  PROVE  OpenIsRecent' /\ MatchedExists' /\ EditsCovered'
<1> DEFINE x == worker[w]
<1>0. x \in WorkerStates /\ x.task = "rematch"
  BY DEF CommitRematch, EditsInv, IInv, TypeOK
<1>1. row' = row /\ profile' = profile /\ token' = token /\ rematchQueue' = rematchQueue
  BY DEF CommitRematch, tokenVars, queueVars
<1>2. \A v \in Worker : worker'[v].task = "idle"
  BY DEF OneSlot, CommitRematch, Finish, IdleWorker, EditsInv, IInv, TypeOK
<1>3. x.user \in User /\ x.seen \in Profiles /\ x.jobs \in [DOMAIN x.jobs -> Rows]
      /\ \A j \in DOMAIN x.jobs : Exists(j)
  BY <1>0, TaskShapes, PartialDomain DEF EditsInv, MatchedExists
<1>4. ASSUME NEW j \in Job
      PROVE  match'[x.user][j] = Refreshed(match[x.user], x.seen, x.jobs)[j]
  BY <1>3 DEF CommitRematch, EditsInv, IInv, TypeOK
<1>5. \A u \in User : u # x.user => match'[u] = match[u]
  BY <1>3 DEF CommitRematch, EditsInv, IInv, TypeOK
<1>6. ASSUME NEW j \in Job, match'[x.user][j] # None
      PROVE  /\ x.seen.active
             /\ \/ j \in DOMAIN x.jobs /\ match'[x.user][j].criteria = x.seen.criteria
                \/ /\ j \notin DOMAIN x.jobs /\ ~(Exists(j) /\ ~Open(j))
                   /\ match'[x.user][j] = match[x.user][j]
  <2> HIDE DEF x
  <2>1. match'[x.user][j] = Refreshed(match[x.user], x.seen, x.jobs)[j]
    BY <1>4
  <2>2. x.seen.active
    BY <1>6, <2>1 DEF Refreshed
  <2>3. CASE j \in DOMAIN x.jobs
    <3>1. match'[x.user][j] = Scored(x.seen.criteria, x.jobs[j])
      BY <1>6, <2>1, <2>2, <2>3 DEF Refreshed
    <3> QED BY <2>2, <2>3, <3>1 DEF Scored
  <2>4. CASE j \notin DOMAIN x.jobs
    BY <1>6, <2>1, <2>2, <2>4 DEF Refreshed
  <2> QED BY <2>3, <2>4
<1> HIDE DEF x
<1>7. OpenIsRecent'
  BY <1>1 DEF EditsInv, OpenIsRecent, Open, Exists
<1>8. MatchedExists'
  <2>1. ASSUME NEW u \in User, NEW j \in Job, match'[u][j] # None PROVE Exists(j)
    <3>1. \A i \in Job : match[u][i] # None => Exists(i)
      BY DEF EditsInv, MatchedExists
    <3> QED BY <1>3, <1>5, <1>6, <2>1, <3>1
  <2> QED BY <1>1, <1>2, <2>1 DEF MatchedExists, Exists
<1>9. ASSUME NEW u \in User PROVE (Queued(u) \/ Follows(u))'
  <2>1. CASE Queued(u)
    BY <1>1, <2>1 DEF Queued
  <2>2. CASE BeingRematched(u)
    <3>1. u = x.user /\ x.seen = profile[u] /\ \A j \in Job : Open(j) => j \in DOMAIN x.jobs
      BY <2>2 DEF BeingRematched, OneSlot, x
    <3>2. \A j \in Job : match[u][j] # None => Exists(j)
      BY DEF EditsInv, MatchedExists
    <3>3. \A j \in Job : match'[u][j] # None =>
            profile[u].active /\ match'[u][j].criteria = profile[u].criteria
      BY <1>6, <3>1, <3>2
    <3> QED BY <1>1, <1>2, <3>3 DEF Follows
  <2>3. CASE Follows(u)
    <3>1. u # x.user BY <1>0, <2>3 DEF Follows, x
    <3> QED BY <1>1, <1>2, <1>5, <2>3, <3>1 DEF Follows
  <2> QED BY <2>1, <2>2, <2>3 DEF EditsInv, EditsCovered
<1> QED BY <1>7, <1>8, <1>9 DEF EditsCovered

(* A save queues the rematch that its own token admits.                    *)
LEMMA SaveProfileCovers ==
  ASSUME EditsInv, NEW u \in User, NEW p \in Profiles, SaveProfile(u, p)
  PROVE  OpenIsRecent' /\ MatchedExists' /\ EditsCovered'
<1>1. row' = row /\ match' = match /\ worker' = worker
  BY DEF SaveProfile
<1>2. /\ token'[u] = minted'[u] /\ <<u, token'[u]>> \in rematchQueue'
      /\ \A v \in User : v # u => token'[v] = token[v] /\ profile'[v] = profile[v]
      /\ rematchQueue \subseteq rematchQueue'
  BY DEF SaveProfile, EditsInv, IInv, TypeOK
<1>3. OpenIsRecent' /\ MatchedExists'
  BY <1>1 DEF EditsInv, OpenIsRecent, MatchedExists, Open, Exists
<1>4. ASSUME NEW v \in User PROVE (Queued(v) \/ BeingRematched(v) \/ Follows(v))'
  <2>1. CASE v = u
    BY <1>2, <2>1 DEF Queued
  <2>2. CASE v # u /\ Queued(v)
    BY <1>2, <2>2 DEF Queued
  <2>3. CASE v # u /\ BeingRematched(v)
    BY <1>1, <1>2, <2>3 DEF BeingRematched, Open, Exists
  <2>4. CASE v # u /\ Follows(v)
    BY <1>1, <1>2, <2>4 DEF Follows
  <2> QED BY <2>1, <2>2, <2>3, <2>4 DEF EditsInv, EditsCovered
<1> QED BY <1>3, <1>4 DEF EditsCovered

LEMMA NextCovers ==
  ASSUME OneSlot, OldJobs = {}, EditsInv, [Next]_vars, ~Failures
  PROVE  EditsInv'
<1> DEFINE Covered == OpenIsRecent /\ MatchedExists /\ EditsCovered
<1>1. IInv'
  BY NextStep DEF EditsInv
<1>2. ASSUME NEW w \in Worker, Start(w) PROVE Covered'
  <2>1. ASSUME NEW s \in Source, StartIngest(w, s) PROVE Covered'
    <3>1. /\ worker[w].task = "idle"
          /\ \A v \in Worker : v # w => worker'[v] = worker[v]
          /\ worker'[w].task = "ingest"
      BY <2>1 DEF StartIngest, Idle, EditsInv, IInv, TypeOK
    <3> QED BY <2>1, <3>1, QuietStep DEF StartIngest, matchVars, tokenVars, queueVars
  <2>2. ASSUME NEW ids \in SUBSET Job, Idle(w), BeginBatch(w, ids)
        PROVE  /\ \A v \in Worker : worker[v].task = "rematch" => worker'[v] = worker[v]
               /\ \A v \in Worker : worker'[v].task \in {"match", "rematch"} =>
                    worker'[v] = worker[v]
    BY <2>2 DEF BeginBatch, Idle, EditsInv, IInv, TypeOK
  <2>3. ASSUME NEW ids \in classifyQueue, StartClassify(w, ids) PROVE Covered'
    <3>1. ids \in SUBSET Job BY DEF EditsInv, IInv, TypeOK
    <3> QED BY <2>2, <2>3, <3>1, QuietStep DEF StartClassify, matchVars, tokenVars
  <2>4. ASSUME StartSweep(w) PROVE Covered'
    BY <2>2, <2>4, QuietStep DEF StartSweep, matchVars, tokenVars, queueVars
  <2>5. ASSUME NEW j \in matchQueue, StartMatch(w, j) PROVE Covered'
    BY <2>5, StartMatchCovers
  <2>6. ASSUME NEW m \in rematchQueue, StartRematch(w, m[1], m[2]) PROVE Covered'
    <3>1. m[1] \in User /\ m[2] \in Nat BY DEF EditsInv, IInv, TypeOK
    <3> QED BY <2>6, <3>1, StartRematchCovers
  <2> QED BY <1>2, <2>1, <2>3, <2>4, <2>5, <2>6 DEF Start
<1>3. ASSUME NEW w \in Worker, Proceed(w) PROVE Covered'
  BY <1>3, UpsertCovers, ClassifyNextCovers, CommitMatchCovers, CommitRematchCovers
  DEF Proceed
<1>4. ASSUME Surroundings PROVE Covered'
  <2>1. ASSUME NEW u \in User, NEW p \in Profiles, SaveProfile(u, p) PROVE Covered'
    BY <2>1, SaveProfileCovers
  <2>2. ASSUME NEW j \in Job, NEW c \in Content \cup {None}, ChangeBoard(j, c) PROVE Covered'
    BY <2>2, QuietStep DEF ChangeBoard, matchVars, tokenVars, queueVars
  <2>3. ASSUME NEW j \in Job PROVE ~Age(j)
    BY DEF Age
  <2> QED BY <1>4, <2>1, <2>2, <2>3 DEF Surroundings
<1>5. ASSUME UNCHANGED vars PROVE Covered'
  BY <1>5, QuietStep DEF vars, matchVars, tokenVars, queueVars
<1>6. Covered'
  BY <1>2, <1>3, <1>4, <1>5 DEF Next
<1> QED BY <1>1, <1>6 DEF EditsInv

(* A failure is counted.                                                   *)
LEMMA FailuresCount ==
  ASSUME IInv, Failures
  PROVE  faults' # 0
BY DEF IInv, TypeOK, Failures, LoseMessage, ExpireToken, Crash, Fails

LEMMA FaultsOnlyGrow ==
  ASSUME IInv, [Next]_vars, faults' = 0
  PROVE  faults = 0 /\ ~Failures
<1>1. ~Failures
  BY FailuresCount
<1>2. faults' = faults
  BY <1>1 DEF Next, Start, StartIngest, StartClassify, StartSweep, StartMatch, StartRematch,
     Proceed, Upsert, ClassifyNext, CommitMatch, CommitRematch,
     Surroundings, SaveProfile, ChangeBoard, Age, vars
<1> QED BY <1>1, <1>2

(* With one slot and no job leaving the rematch window, the open jobs of a *)
(* settled system that has lost nothing show only matches of the profile   *)
(* as it is, whatever was edited while a rematch was waiting or running.   *)
THEOREM EditsReachMatches ==
  ASSUME OneSlot, OldJobs = {}
  PROVE  Spec => []MatchesFollowProfile
<1> DEFINE Inv == IInv /\ (faults = 0 => EditsInv)
<1>1. ASSUME Init PROVE Inv
  <2>1. IInv BY <1>1, InitialState
  <2>2. OpenIsRecent /\ MatchedExists
    BY <1>1 DEF Init, OpenIsRecent, MatchedExists, Open, Exists, IdleWorker
  <2>3. \A u \in User : Queued(u)
    BY <1>1 DEF Init, Queued
  <2> QED BY <2>1, <2>2, <2>3 DEF EditsInv, EditsCovered
<1>2. ASSUME Inv, [Next]_vars PROVE Inv'
  <2>1. IInv' BY <1>2, NextStep
  <2>2. ASSUME faults' = 0 PROVE EditsInv'
    BY <1>2, <2>2, FaultsOnlyGrow, NextCovers
  <2> QED BY <2>1, <2>2
<1>3. ASSUME Inv PROVE MatchesFollowProfile
  <2>1. ASSUME NEW u \in User, faults = 0, Settled(u) PROVE Follows(u)
    <3>1. ~Queued(u) /\ ~BeingRematched(u)
      BY <2>1 DEF Settled, Queued, BeingRematched
    <3> QED BY <1>3, <2>1, <3>1 DEF EditsInv, EditsCovered
  <2> QED BY <2>1 DEF MatchesFollowProfile, Follows
<1> QED BY <1>1, <1>2, <1>3, PTL DEF Spec
=============================================================================
