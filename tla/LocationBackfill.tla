--------------------------- MODULE LocationBackfill ---------------------------
(***************************************************************************)
(* The structured place kept beside the text of a job's location and of a  *)
(* profile's target locations.  A new version of the dataset makes every   *)
(* stored place stale; the sweep (and the command and the migration, which *)
(* do the same) derives it again while ingestion and users write.          *)
(*                                                                         *)
(* A place is the text and the version it was derived from, or NoPlaceYet  *)
(* when the dataset has none for it or cannot be read.  A deployment       *)
(* restarts every process: no two versions run at once.  Saves of the      *)
(* admin pages, which write every column and derive nothing, are left out. *)
(***************************************************************************)
EXTENDS Integers, FiniteSets

CONSTANTS
  JobRow, ProfileRow, \* keys of the rows of both tables
  LocationText,
  NoPlaceYet,
  LocationSweeper, \* the sweep may overlap with itself and with the command
  BackfillBatch,   \* LOCATION_BACKFILL_BATCH_SIZE
  MaxAliasVersion, MaxTextChanges, MaxSweepDeaths

ASSUME BackfillAssumption ==
  /\ JobRow \subseteq Nat /\ ProfileRow \subseteq Nat /\ JobRow \cap ProfileRow = {}
  /\ BackfillBatch \in Nat \ {0} /\ MaxAliasVersion \in Nat \ {0}
  /\ MaxTextChanges \in Nat /\ MaxSweepDeaths \in Nat
  /\ \A text \in LocationText, v \in 1 .. MaxAliasVersion :
       NoPlaceYet # [text |-> text, version |-> v]

RowKey == JobRow \cup ProfileRow

VARIABLES
  located,      \* each row's text, place and location_alias_version
  aliasVersion, \* CURRENT_LOCATION_ALIAS_VERSION
  phase,        \* of each sweep: idle, jobs or profiles
  batch,        \* the rows it has read and not yet written
  textChanges, sweepDeaths

backfillVars == <<located, aliasVersion, phase, batch, textChanges, sweepDeaths>>

AliasVersion == 1 .. MaxAliasVersion
DerivedPlace == [text : LocationText, version : AliasVersion] \cup {NoPlaceYet}
LocatedText == [text : LocationText, place : DerivedPlace, version : AliasVersion]
SeenRow == [row : RowKey, text : LocationText, version : AliasVersion]

BackfillTypeOK ==
  /\ located \in [RowKey -> LocatedText]
  /\ aliasVersion \in AliasVersion
  /\ phase \in [LocationSweeper -> {"idle", "jobs", "profiles"}]
  /\ batch \in [LocationSweeper -> SUBSET SeenRow]
  /\ textChanges \in 0 .. MaxTextChanges /\ sweepDeaths \in 0 .. MaxSweepDeaths

\* normalize_location and normalize_target_locations at the running version.
Derived(text) == {[text |-> text, version |-> aliasVersion], NoPlaceYet}

BackfillInit ==
  \E text \in LocationText :
  /\ aliasVersion = 1
  /\ located = [r \in RowKey |-> [text |-> text, place |-> [text |-> text, version |-> 1], version |-> 1]]
  /\ phase = [s \in LocationSweeper |-> "idle"]
  /\ batch = [s \in LocationSweeper |-> {}]
  /\ textChanges = 0 /\ sweepDeaths = 0

-----------------------------------------------------------------------------
(* Writers                                                                 *)

\* A job is listed with new content, or a profile's search is saved: text,
\* place and version are written together.
WriteText(r, text) ==
  /\ textChanges < MaxTextChanges /\ textChanges' = textChanges + 1
  /\ \E place \in Derived(text) :
       located' = [located EXCEPT ![r] = [text |-> text, place |-> place, version |-> aliasVersion]]
  /\ UNCHANGED <<aliasVersion, phase, batch, sweepDeaths>>

\* A deployment with a new dataset version.
Deploy ==
  /\ aliasVersion < MaxAliasVersion /\ aliasVersion' = aliasVersion + 1
  /\ phase' = [s \in LocationSweeper |-> "idle"]
  /\ batch' = [s \in LocationSweeper |-> {}]
  /\ UNCHANGED <<located, textChanges, sweepDeaths>>

-----------------------------------------------------------------------------
(* sweep_stale_locations: backfill_jobs, then backfill_profiles            *)

StartBackfill(s) ==
  /\ phase[s] = "idle"
  /\ phase' = [phase EXCEPT ![s] = "jobs"]
  /\ UNCHANGED <<located, aliasVersion, batch, textChanges, sweepDeaths>>

\* The rows of the table it is at that are not current.
StaleRows(s) ==
  {r \in IF phase[s] = "jobs" THEN JobRow ELSE ProfileRow : located[r].version # aliasVersion}

\* A batch: the first of them by key, as many as there may be.
FirstOf(rows) ==
  {r \in rows : Cardinality({q \in rows : q < r}) < BackfillBatch}

\* The next batch, until there is none; then the other table, then the end.
ReadBatch(s) ==
  /\ phase[s] # "idle" /\ batch[s] = {}
  /\ IF StaleRows(s) = {}
     THEN /\ phase' = [phase EXCEPT ![s] = IF @ = "jobs" THEN "profiles" ELSE "idle"]
          /\ UNCHANGED batch
     ELSE /\ batch' = [batch EXCEPT ![s] =
               {[row |-> r, text |-> located[r].text, version |-> located[r].version] :
                  r \in FirstOf(StaleRows(s))}]
          /\ UNCHANGED phase
  /\ UNCHANGED <<located, aliasVersion, textChanges, sweepDeaths>>

\* Fault: the write is keyed by the row only.
Always(seen) == TRUE

\* The condition of the write: the version is still the one that was read.
Unchanged(seen) == located[seen.row].version = seen.version

\* Fault: the place is stored and the version forgotten.
KeepsVersion(found, place) == [found EXCEPT !.place = place]

Renewed(found, place) == [text |-> found.text, place |-> place, version |-> aliasVersion]

WriteRow(s) ==
  \E seen \in batch[s] :
    /\ \A other \in batch[s] : seen.row <= other.row
    /\ \E place \in Derived(seen.text) :
         located' = IF Unchanged(seen)
                    THEN [located EXCEPT ![seen.row] = Renewed(@, place)] ELSE located
    /\ batch' = [batch EXCEPT ![s] = @ \ {seen}]
    /\ UNCHANGED <<aliasVersion, phase, textChanges, sweepDeaths>>

\* The worker dies, or a row's write fails and ends the run.
BackfillDies(s) ==
  /\ phase[s] # "idle" /\ sweepDeaths < MaxSweepDeaths
  /\ sweepDeaths' = sweepDeaths + 1
  /\ phase' = [phase EXCEPT ![s] = "idle"]
  /\ batch' = [batch EXCEPT ![s] = {}]
  /\ UNCHANGED <<located, aliasVersion, textChanges>>

BackfillStep(s) == StartBackfill(s) \/ ReadBatch(s) \/ WriteRow(s)

BackfillNext ==
  \/ \E r \in RowKey, text \in LocationText : WriteText(r, text)
  \/ Deploy
  \/ \E s \in LocationSweeper : BackfillStep(s) \/ BackfillDies(s)

\* Beat starts the sweep every five minutes.
BackfillFairness == \A s \in LocationSweeper : WF_backfillVars(BackfillStep(s))

BackfillSpec == BackfillInit /\ [][BackfillNext]_backfillVars /\ BackfillFairness

-----------------------------------------------------------------------------
(* Properties                                                              *)

(* A row stamped with a version carries the place that version derives     *)
(* from the row's own text (or none), however a sweep, an ingestion, a     *)
(* save and a deployment fall between each other's reads and writes.       *)
PlacesMatchTheirText ==
  \A r \in RowKey : located[r].place \in
    {[text |-> located[r].text, version |-> located[r].version], NoPlaceYet}

(* After the last new version every row is brought up to it and stays.     *)
RowsBecomeCurrent == \A r \in RowKey : <>[](located[r].version = aliasVersion)
=============================================================================
