---------------------------- MODULE BoardDiscovery ----------------------------
(***************************************************************************)
(* How a job board becomes a source that is read every hour.  The daily    *)
(* search takes the first boards of a public list that it does not know,   *)
(* fetches each one and queues it; a reviewer approves it, which fetches   *)
(* it again and registers a source under an employer; a command registers  *)
(* a board without review.                                                 *)
(*                                                                         *)
(* The names of all companies make the same slug, the case registration    *)
(* has to take care of; a slug is the number it ends in (1: none).         *)
(***************************************************************************)
EXTENDS Integers, FiniteSets, Sequences

CONSTANTS
  BoardList,      \* the public list, a sequence of tokens
  DeadBoard,      \* those whose board cannot be fetched
  CompanyOf,      \* the name derived from each token
  Reviewer, Command,
  MaxNewBoards,   \* DISCOVERY_MAX_NEW_BOARDS_PER_RUN
  MaxApprovals,   \* _MAX_WORKDAY_APPROVALS_PER_ACTION
  MaxBoardFaults, \* bound on searches, fetches and runs that fail
  NoSource

BoardToken == {BoardList[i] : i \in DOMAIN BoardList}

VARIABLES
  board,        \* DiscoveredBoard.status of each token, or "unknown"
  source,       \* its JobSource: the employer, or NoSource
  route,        \* who registered it
  employers,    \* Employer rows
  searching,    \* tokens the running search has yet to validate
  registering,  \* what each reviewer and command is doing
  boardFaults

boardVars == <<board, source, route, employers, searching, registering, boardFaults>>

Slug == 1 .. Cardinality(BoardToken) + 1
EmployerRow == [slug : Slug, name : {CompanyOf[t] : t \in BoardToken}]

\* Dead boards are never queued: as many as the cap would take up every run.
ASSUME DiscoveryAssumption ==
  /\ BoardList \in Seq(BoardToken) /\ DeadBoard \subseteq BoardToken
  /\ MaxNewBoards \in Nat /\ Cardinality(DeadBoard) < MaxNewBoards
  /\ MaxBoardFaults \in Nat /\ NoSource \notin EmployerRow

Registrar == Reviewer \cup Command
IdleRegistrar == [step |-> "idle"]
Registrations == {IdleRegistrar}
  \cup [step : {"next"}, todo : SUBSET BoardToken]
  \cup [step : {"create"}, todo : SUBSET BoardToken, token : BoardToken,
         employer : EmployerRow, fresh : BOOLEAN]
  \cup [step : {"mark"}, todo : SUBSET BoardToken, token : BoardToken]

DiscoveryTypeOK ==
  /\ board \in [BoardToken -> {"unknown", "pending", "approved", "rejected"}]
  /\ source \in [BoardToken -> EmployerRow \cup {NoSource}]
  /\ route \in [BoardToken -> {"none", "approval", "command"}]
  /\ employers \subseteq EmployerRow
  /\ searching \in Seq(BoardToken)
  /\ registering \in [Registrar -> Registrations]
  /\ boardFaults \in 0 .. MaxBoardFaults

DiscoveryInit ==
  /\ board = [t \in BoardToken |-> "unknown"]
  /\ source = [t \in BoardToken |-> NoSource]
  /\ route = [t \in BoardToken |-> "none"]
  /\ employers = {} /\ searching = <<>> /\ boardFaults = 0
  /\ registering = [r \in Registrar |-> IdleRegistrar]

Fault == boardFaults < MaxBoardFaults /\ boardFaults' = boardFaults + 1

-----------------------------------------------------------------------------
(* The daily search                                                        *)

\* Fault: a board that was rejected is a candidate again.
NotQueued(token) == source[token] = NoSource /\ board[token] # "pending" /\ board[token] # "approved"

NewBoard(token) == source[token] = NoSource /\ board[token] = "unknown"

\* The boards of the list that are new, in its order.
NewBoards ==
  LET new[n \in 0 .. Len(BoardList)] ==
        IF n = 0 THEN <<>>
        ELSE IF NewBoard(BoardList[n]) THEN Append(new[n - 1], BoardList[n]) ELSE new[n - 1]
  IN new[Len(BoardList)]

\* The first of them.  (A search that fails finds none.)
StartSearch ==
  /\ searching = <<>>
  /\ LET new == NewBoards IN
       searching' = SubSeq(new, 1, IF Len(new) < MaxNewBoards THEN Len(new) ELSE MaxNewBoards)
  /\ UNCHANGED <<board, source, route, employers, registering, boardFaults>>

\* A board that another run queued first is refused by the constraint.
QueueBoard ==
  /\ searching # <<>> /\ Head(searching) \notin DeadBoard
  /\ board' = [board EXCEPT ![Head(searching)] = IF @ = "unknown" THEN "pending" ELSE @]
  /\ searching' = Tail(searching)
  /\ UNCHANGED <<source, route, employers, registering, boardFaults>>

\* A board that cannot be fetched is passed over, and forgotten.
PassOverBoard ==
  /\ searching # <<>>
  /\ IF Head(searching) \in DeadBoard THEN UNCHANGED boardFaults ELSE Fault
  /\ searching' = Tail(searching)
  /\ UNCHANGED <<board, source, route, employers, registering>>

\* The task is stopped at its time limit, or dies.
StopSearch ==
  /\ searching # <<>> /\ Fault /\ searching' = <<>>
  /\ UNCHANGED <<board, source, route, employers, registering>>

-----------------------------------------------------------------------------
(* Registering a source: register_job_source                               *)

RowWithSlug(slug) == {e \in employers : e.slug = slug}

\* Fault: the slug is taken for the company.
EmployerBySlug(name) ==
  IF RowWithSlug(1) = {} THEN [slug |-> 1, name |-> name]
  ELSE CHOOSE e \in RowWithSlug(1) : TRUE

\* _get_or_create_employer: the row it will use or try to create.  Another
\* company's slug gets a number.
EmployerFor(name) ==
  IF RowWithSlug(1) = {} THEN [slug |-> 1, name |-> name]
  ELSE IF [slug |-> 1, name |-> name] \in employers THEN [slug |-> 1, name |-> name]
  ELSE [slug |-> CHOOSE n \in Slug \ {1} : /\ RowWithSlug(n) = {}
                                           /\ \A m \in 2 .. n - 1 : RowWithSlug(m) # {},
        name |-> name]

\* approve: the selected boards that are pending.
Approve(r, selected) ==
  LET pending == {t \in selected : board[t] = "pending"} IN
  /\ registering[r] = IdleRegistrar
  /\ pending # {} /\ Cardinality(pending) <= MaxApprovals
  /\ registering' = [registering EXCEPT ![r] = [step |-> "next", todo |-> pending]]
  /\ UNCHANGED <<board, source, route, employers, searching, boardFaults>>

Reject(t) ==
  /\ board[t] = "pending"
  /\ board' = [board EXCEPT ![t] = "rejected"]
  /\ UNCHANGED <<source, route, employers, searching, registering, boardFaults>>

\* add_job_source
AddJobSource(c, t) ==
  /\ registering[c] = IdleRegistrar
  /\ registering' = [registering EXCEPT ![c] = [step |-> "next", todo |-> {t}]]
  /\ UNCHANGED <<board, source, route, employers, searching, boardFaults>>

\* What follows for the rest of the boards.
Rest(todo) == IF todo = {} THEN IdleRegistrar ELSE [step |-> "next", todo |-> todo]

\* Only an approval marks the board.
AfterSource(r, todo, t) ==
  IF r \in Reviewer THEN [step |-> "mark", todo |-> todo, token |-> t] ELSE Rest(todo)

\* The board is fetched again, then what is registered of it is read.
FetchForRegistration(r, t) ==
  /\ registering[r].step = "next" /\ t \in registering[r].todo
  /\ LET todo == registering[r].todo \ {t} IN
       \/ /\ IF t \in DeadBoard THEN UNCHANGED boardFaults ELSE Fault
          /\ registering' = [registering EXCEPT ![r] = Rest(todo)]
       \/ /\ t \notin DeadBoard
          /\ registering' = [registering EXCEPT ![r] =
               IF source[t] # NoSource THEN AfterSource(r, todo, t)
               ELSE [step |-> "create", todo |-> todo, token |-> t,
                     employer |-> EmployerFor(CompanyOf[t]),
                     fresh |-> EmployerFor(CompanyOf[t]) \notin employers]]
          /\ UNCHANGED boardFaults
  /\ UNCHANGED <<board, source, route, employers, searching>>

\* Both rows are created.  When the slug was taken meanwhile the command uses
\* the row that has it; in the transaction of an approval that query fails and
\* takes the whole action with it.  When the source exists by now, neither
\* marks the board; the command leaves the employer it created.
CreateSource(r) ==
  /\ registering[r].step = "create"
  /\ LET job == registering[r]
         taken == RowWithSlug(job.employer.slug)
         lost == job.fresh /\ taken # {}
         row == IF lost THEN CHOOSE e \in taken : TRUE ELSE job.employer IN
       IF lost /\ r \in Reviewer
       THEN /\ registering' = [registering EXCEPT ![r] = IdleRegistrar]
            /\ UNCHANGED <<source, route, employers>>
       ELSE IF source[job.token] # NoSource
       THEN /\ registering' = [registering EXCEPT ![r] = Rest(job.todo)]
            /\ employers' = IF r \in Command THEN employers \cup {row} ELSE employers
            /\ UNCHANGED <<source, route>>
       ELSE /\ employers' = employers \cup {row}
            /\ source' = [source EXCEPT ![job.token] = row]
            /\ route' = [route EXCEPT ![job.token] = IF r \in Reviewer THEN "approval" ELSE "command"]
            /\ registering' = [registering EXCEPT ![r] = AfterSource(r, job.todo, job.token)]
  /\ UNCHANGED <<board, searching, boardFaults>>

\* Fault: the status read when the action began is trusted.
MarkedAnyway(status) == "approved"

Marked(status) == IF status = "pending" THEN "approved" ELSE status

MarkApproved(r) ==
  /\ registering[r].step = "mark"
  /\ board' = [board EXCEPT ![registering[r].token] = Marked(@)]
  /\ registering' = [registering EXCEPT ![r] = Rest(registering[r].todo)]
  /\ UNCHANGED <<source, route, employers, searching, boardFaults>>

-----------------------------------------------------------------------------
SearchStep == StartSearch \/ QueueBoard \/ PassOverBoard \/ StopSearch

RegistrarStep(r) ==
  (\E t \in BoardToken : FetchForRegistration(r, t)) \/ CreateSource(r) \/ MarkApproved(r)

DiscoveryNext ==
  \/ SearchStep
  \/ \E r \in Reviewer, selected \in SUBSET BoardToken : Approve(r, selected)
  \/ \E t \in BoardToken : Reject(t)
  \/ \E c \in Command, t \in BoardToken : AddJobSource(c, t)
  \/ \E r \in Registrar : RegistrarStep(r)

\* Beat starts the search every day and its worker goes through the boards.
DiscoveryFairness ==
  /\ WF_boardVars(StartSearch)
  /\ WF_boardVars(QueueBoard \/ PassOverBoard)

DiscoverySpec == DiscoveryInit /\ [][DiscoveryNext]_boardVars /\ DiscoveryFairness

-----------------------------------------------------------------------------
(* Properties                                                              *)

(* A board a reviewer has decided on stays so: neither an approval that    *)
(* was under way, nor the next search, undoes it.  (The source that the    *)
(* overtaken approval registered stays too.)                               *)
DecisionsStand ==
  [][\A t \in BoardToken : board[t] \in {"approved", "rejected"} => board'[t] = board[t]]_boardVars

(* An approved board's jobs are listed under its own company, however the  *)
(* slugs collide and whoever registers at the same time.                   *)
CompaniesStayApart ==
  \A t \in BoardToken : route[t] = "approval" => source[t].name = CompanyOf[t]

(* Boards that cannot be fetched, or were rejected, do not keep the search *)
(* from the rest of the list: every board that can be fetched is queued.   *)
EveryBoardIsQueued ==
  \A t \in BoardToken \ DeadBoard : <>(board[t] # "unknown" \/ source[t] # NoSource)
=============================================================================
