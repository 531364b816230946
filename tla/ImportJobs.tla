----------------------------- MODULE ImportJobs ------------------------------
(***************************************************************************)
(* The import jobs of one user: a web request creates the job and stores   *)
(* the upload, a worker claims it and extracts proposals, the user applies *)
(* or discards them, and a periodic sweep closes what got stuck or was     *)
(* never reviewed.  A job holds personal data twice: the uploaded file and *)
(* the proposals.  What the review writes is module ImportReview.          *)
(*                                                                         *)
(* The worker and the sweep save every column of a row read earlier, so    *)
(* what is kept of that read is whether the row had a file; claiming is a  *)
(* conditional update, and the review locks the row.                       *)
(*                                                                         *)
(* "Fault:" marks a faulty variant of the definition that follows it.      *)
(***************************************************************************)
EXTENDS Integers, FiniteSets

CONSTANTS
  ImportSlot,    \* ImportJob rows; the slot of a deleted row is used again
  ImportWorker   \* workers

VARIABLES
  importRow,      \* the rows
  importFiles,    \* slots whose upload is in storage
  importRequest,  \* the web request that starts an import
  importQueue,    \* run_document_import and run_github_import messages
  importWorker,
  importSweep     \* the sweep: the rows its query returned and it has not saved yet

importVars == <<importRow, importFiles, importRequest, importQueue, importWorker,
                importSweep>>

NoRow == [status |-> "none"]
InFlight == {"pending", "running"}
Settled == {"applied", "discarded", "failed", "expired"}

\* late: of a row in flight, its updated_at is PROFILE_IMPORT_STUCK_MINUTES
\* old; of a ready row, its expires_at has passed.
ImportRows == [status : InFlight \cup {"ready"} \cup Settled,
               proposals : BOOLEAN, file : BOOLEAN, late : BOOLEAN]

IdleTask == [step |-> "idle"]

ImportWorkers ==
  {IdleTask} \cup
  [step : {"claimed"}, job : ImportSlot, file : BOOLEAN, text : BOOLEAN] \cup
  [step : {"extracted"}, job : ImportSlot, file : BOOLEAN, found : BOOLEAN]

ImportTypeOK ==
  /\ importRow \in [ImportSlot -> ImportRows \cup {NoRow}]
  /\ importFiles \subseteq ImportSlot
  /\ importRequest \in {IdleTask} \cup [step : {"created", "stored"}, job : ImportSlot]
  /\ importQueue \subseteq ImportSlot
  /\ importWorker \in [ImportWorker -> ImportWorkers]
  /\ importSweep \in {IdleTask} \cup
       [step : {"expire", "fail"}, left : SUBSET ImportSlot, withFile : SUBSET ImportSlot]

ImportInit ==
  /\ importRow = [j \in ImportSlot |-> NoRow]
  /\ importFiles = {}
  /\ importRequest = IdleTask
  /\ importQueue = {}
  /\ importWorker = [w \in ImportWorker |-> IdleTask]
  /\ importSweep = IdleTask

Exists(j) == importRow[j] # NoRow
Active(j) == importRow[j].status \in InFlight

Requested(j) == importRequest # IdleTask /\ importRequest.job = j
HandledBy(w, j) == importWorker[w] # IdleTask /\ importWorker[w].job = j

\* Nothing refers to the slot: a new row may take it.
Unused(j) ==
  /\ ~Exists(j) /\ j \notin importQueue /\ ~Requested(j)
  /\ \A w \in ImportWorker : ~HandledBy(w, j)

-----------------------------------------------------------------------------
(* Starting an import                                                      *)

\* The unique constraint refuses a second import in flight, whichever
\* request comes first.
StartImport(j) ==
  /\ importRequest = IdleTask
  /\ Unused(j) /\ \A i \in ImportSlot : ~Active(i)
  /\ importRow' = [importRow EXCEPT ![j] =
       [status |-> "pending", proposals |-> FALSE, file |-> FALSE, late |-> FALSE]]
  /\ importRequest' = [step |-> "created", job |-> j]
  /\ UNCHANGED <<importFiles, importQueue, importWorker, importSweep>>

StoreUpload ==
  /\ importRequest.step = "created"
  /\ importFiles' = importFiles \cup {importRequest.job}
  /\ importRequest' = [importRequest EXCEPT !.step = "stored"]
  /\ UNCHANGED <<importRow, importQueue, importWorker, importSweep>>

\* The row is saved with its file and the task published.  An import of the
\* saved resume or of GitHub has no file.
PublishImport ==
  /\ importRequest # IdleTask
  /\ importRow' = [importRow EXCEPT ![importRequest.job].file = (importRequest.step = "stored")]
  /\ importQueue' = importQueue \cup {importRequest.job}
  /\ importRequest' = IdleTask
  /\ UNCHANGED <<importFiles, importWorker, importSweep>>

-----------------------------------------------------------------------------
(* Running it                                                              *)

\* Fault: closing an unreviewed job keeps its proposals.
FinishKeepingProposals(j, file, status) ==
  /\ importRow' = [importRow EXCEPT ![j] =
       [status |-> status, late |-> FALSE, file |-> FALSE,
        proposals |-> IF status = "expired" THEN importRow[j].proposals ELSE status = "ready"]]
  /\ importFiles' = IF file THEN importFiles \ {j} ELSE importFiles

\* The file of the row as it was read goes, and every column is saved.
Finish(j, file, status) ==
  /\ importRow' = [importRow EXCEPT ![j] =
       [status |-> status, late |-> FALSE, file |-> FALSE, proposals |-> status = "ready"]]
  /\ importFiles' = IF file THEN importFiles \ {j} ELSE importFiles

\* A job that is no longer pending is left alone.
SkipImport(j) ==
  /\ j \in importQueue /\ importRow[j].status # "pending"
  /\ importQueue' = importQueue \ {j}
  /\ UNCHANGED <<importRow, importFiles, importRequest, importWorker, importSweep>>

\* The conditional update; then the row, the profile and the text are read.
ClaimImport(w, j) ==
  /\ importWorker[w] = IdleTask
  /\ j \in importQueue /\ importRow[j].status = "pending"
  /\ importQueue' = importQueue \ {j}
  /\ importRow' = [importRow EXCEPT ![j].status = "running", ![j].late = FALSE]
  /\ importWorker' = [importWorker EXCEPT ![w] =
       [step |-> "claimed", job |-> j, file |-> importRow[j].file,
        text |-> importRow[j].file => j \in importFiles]]
  /\ UNCHANGED <<importFiles, importRequest, importSweep>>

\* What is found in the text: something or nothing.  (The LLM pass, which the
\* user may not have agreed to, finds more of the same.)
Extract(w) ==
  LET worker == importWorker[w] IN
  /\ worker.step = "claimed"
  /\ \E found \in {FALSE, worker.text} :
       importWorker' = [importWorker EXCEPT ![w] =
         [step |-> "extracted", job |-> worker.job, file |-> worker.file, found |-> found]]
  /\ UNCHANGED <<importRow, importFiles, importRequest, importQueue, importSweep>>

\* READY with proposals, FAILED without any or on an error.
FinishImport(w) ==
  LET worker == importWorker[w] IN
  /\ worker.step = "extracted"
  /\ Finish(worker.job, worker.file, IF worker.found THEN "ready" ELSE "failed")
  /\ importWorker' = [importWorker EXCEPT ![w] = IdleTask]
  /\ UNCHANGED <<importRequest, importQueue, importSweep>>

-----------------------------------------------------------------------------
(* The user                                                                *)

\* The row is locked and its state checked; what is accepted is written in
\* the same transaction.
ApplyJob(j) ==
  /\ importRow[j].status = "ready" /\ ~importRow[j].late
  /\ importRow' = [importRow EXCEPT ![j].status = "applied", ![j].proposals = FALSE]
  /\ UNCHANGED <<importFiles, importRequest, importQueue, importWorker, importSweep>>

DiscardJob(j) ==
  /\ importRow[j].status = "ready"
  /\ importRow' = [importRow EXCEPT ![j].status = "discarded", ![j].proposals = FALSE,
                                    ![j].late = FALSE]
  /\ UNCHANGED <<importFiles, importRequest, importQueue, importWorker, importSweep>>

-----------------------------------------------------------------------------
(* Housekeeping                                                            *)

WithFile(S) == {j \in S : importRow[j].file}

BeginSweep ==
  /\ importSweep = IdleTask
  /\ LET expired == {j \in ImportSlot : importRow[j].status = "ready" /\ importRow[j].late} IN
     importSweep' = [step |-> "expire", left |-> expired, withFile |-> WithFile(expired)]
  /\ UNCHANGED <<importRow, importFiles, importRequest, importQueue, importWorker>>

\* The sweep saves the rows of its query, whatever became of them since.
SweepRow(j) ==
  /\ importSweep # IdleTask /\ j \in importSweep.left
  /\ Finish(j, j \in importSweep.withFile, IF importSweep.step = "expire" THEN "expired" ELSE "failed")
  /\ importSweep' = [importSweep EXCEPT !.left = @ \ {j}]
  /\ UNCHANGED <<importRequest, importQueue, importWorker>>

\* Fault: only a job that is running can be stuck.
OnlyRunning(j) == importRow[j].status = "running" /\ importRow[j].late

Stuck(j) == Active(j) /\ importRow[j].late

SweepStuck ==
  /\ importSweep.step = "expire" /\ importSweep.left = {}
  /\ LET stuck == {j \in ImportSlot : Exists(j) /\ Stuck(j)} IN
     importSweep' = [step |-> "fail", left |-> stuck, withFile |-> WithFile(stuck)]
  /\ UNCHANGED <<importRow, importFiles, importRequest, importQueue, importWorker>>

\* The uploads of closed jobs, then the closed rows past their retention.
EndSweep ==
  /\ importSweep.step = "fail" /\ importSweep.left = {}
  /\ LET closed == {j \in ImportSlot : Exists(j) /\ ~Active(j)} IN
     /\ importFiles' = importFiles \ WithFile(closed)
     /\ \E outdated \in SUBSET {j \in closed : \A w \in ImportWorker : ~HandledBy(w, j)} :
          importRow' = [j \in ImportSlot |->
            IF j \in outdated THEN NoRow
            ELSE IF j \in WithFile(closed) THEN [importRow[j] EXCEPT !.file = FALSE]
            ELSE importRow[j]]
  /\ importSweep' = IdleTask
  /\ UNCHANGED <<importRequest, importQueue, importWorker>>

-----------------------------------------------------------------------------
(* Time and failures                                                       *)

\* A request and the task's hard limit are shorter than the time after which
\* a job counts as stuck, and so is that than the time for a review.
GrowLate(j) ==
  /\ Exists(j) /\ importRow[j].status \notin Settled /\ ~importRow[j].late
  /\ Active(j) => ~Requested(j) /\ \A w \in ImportWorker : ~HandledBy(w, j)
  /\ importRow' = [importRow EXCEPT ![j].late = TRUE]
  /\ UNCHANGED <<importFiles, importRequest, importQueue, importWorker, importSweep>>

LoseImportMessage(j) ==
  /\ j \in importQueue
  /\ importQueue' = importQueue \ {j}
  /\ UNCHANGED <<importRow, importFiles, importRequest, importWorker, importSweep>>

\* A worker dies, or runs into its hard limit; it may have deleted the file
\* and not yet saved the row.
KillImportWorker(w) ==
  /\ importWorker[w] # IdleTask
  /\ importFiles' \in {importFiles} \cup
       (IF importWorker[w].step = "extracted" /\ importWorker[w].file
        THEN {importFiles \ {importWorker[w].job}} ELSE {})
  /\ importWorker' = [importWorker EXCEPT ![w] = IdleTask]
  /\ UNCHANGED <<importRow, importRequest, importQueue, importSweep>>

KillImportRequest ==
  /\ importRequest # IdleTask
  /\ importRequest' = IdleTask
  /\ UNCHANGED <<importRow, importFiles, importQueue, importWorker, importSweep>>

-----------------------------------------------------------------------------
SweepStep ==
  \/ BeginSweep
  \/ \E j \in ImportSlot : SweepRow(j)
  \/ SweepStuck
  \/ EndSweep

ImportNext ==
  \/ \E j \in ImportSlot :
       \/ StartImport(j)
       \/ SkipImport(j)
       \/ ApplyJob(j)
       \/ DiscardJob(j)
       \/ GrowLate(j)
       \/ LoseImportMessage(j)
       \/ \E w \in ImportWorker : ClaimImport(w, j)
  \/ StoreUpload
  \/ PublishImport
  \/ \E w \in ImportWorker :
       \/ Extract(w)
       \/ FinishImport(w)
       \/ KillImportWorker(w)
  \/ SweepStep
  \/ KillImportRequest

\* Beat starts the sweep every fifteen minutes; time passes; a worker ends at
\* its hard limit at the latest, and a request ends.
ImportFairness ==
  /\ WF_importVars(SweepStep)
  /\ \A j \in ImportSlot : WF_importVars(GrowLate(j))
  /\ \A w \in ImportWorker : WF_importVars(Extract(w) \/ FinishImport(w) \/ KillImportWorker(w))
  /\ WF_importVars(PublishImport \/ KillImportRequest)

ImportSpec == ImportInit /\ [][ImportNext]_importVars /\ ImportFairness

-----------------------------------------------------------------------------
(* Properties                                                              *)

HoldsData(j) == Exists(j) /\ (importRow[j].file \/ importRow[j].proposals)

(* Uploads and proposals do not outlive their purpose, whatever is lost,   *)
(* killed or forgotten: each job in time holds neither.                    *)
PersonalDataGoes == \A j \in ImportSlot : HoldsData(j) ~> ~HoldsData(j)

(* A lost message or a killed worker blocks the user's next import for a   *)
(* while only.                                                             *)
ImportsEnd == \A j \in ImportSlot : Active(j) ~> ~Active(j)
=============================================================================
