----------------------------- MODULE PanelCache ------------------------------
(***************************************************************************)
(* The cached panel of questions the user has been asked.  A request that  *)
(* misses builds it from drafts, answers and settings and stores it for an *)
(* hour; what changes those drops it after its commit.  A build that       *)
(* overlaps a change can store what it read before it.                     *)
(***************************************************************************)
EXTENDS Naturals

CONSTANTS
  PanelRequest,  \* requests for the answers page
  MaxChanges,    \* bound: changes of what the panel shows
  NoPanel        \* nothing cached, nothing read

ASSUME PanelAssumption == MaxChanges \in Nat /\ NoPanel \notin Nat

VARIABLES
  panelFacts,   \* drafts, answers and settings, as the number of changes
  panelDrops,   \* changes committed whose on_commit hook has not run
  panelCached,  \* the facts the cached panel was built from
  panelBuild    \* the facts a request has read

panelVars == <<panelFacts, panelDrops, panelCached, panelBuild>>

PanelTypeOK ==
  /\ panelFacts \in 0..MaxChanges /\ panelDrops \in 0..MaxChanges
  /\ panelCached \in 0..MaxChanges \cup {NoPanel}
  /\ panelBuild \in [PanelRequest -> 0..MaxChanges \cup {NoPanel}]

PanelInit ==
  /\ panelFacts = 0 /\ panelDrops = 0 /\ panelCached = NoPanel
  /\ panelBuild = [q \in PanelRequest |-> NoPanel]

\* A saved or deleted answer, a new draft, the settings or the learning switch.
ChangeFacts ==
  /\ panelFacts < MaxChanges
  /\ panelFacts' = panelFacts + 1 /\ panelDrops' = panelDrops + 1
  /\ UNCHANGED <<panelCached, panelBuild>>

\* An applied import, the search page, an answer that expires: no one drops
\* the panel for these.
ChangeSilently ==
  /\ panelFacts < MaxChanges
  /\ panelFacts' = panelFacts + 1
  /\ UNCHANGED <<panelDrops, panelCached, panelBuild>>

\* invalidate_questions_panel
DropPanel ==
  /\ panelDrops > 0
  /\ panelDrops' = panelDrops - 1 /\ panelCached' = NoPanel
  /\ UNCHANGED <<panelFacts, panelBuild>>

\* The process dies, or the cache is away, between the commit and its hook.
LoseDrop ==
  /\ panelDrops > 0
  /\ panelDrops' = panelDrops - 1
  /\ UNCHANGED <<panelFacts, panelCached, panelBuild>>

\* get_panel on a miss; build_panel reads everything.
BuildPanel(q) ==
  /\ panelBuild[q] = NoPanel /\ panelCached = NoPanel
  /\ panelBuild' = [panelBuild EXCEPT ![q] = panelFacts]
  /\ UNCHANGED <<panelFacts, panelDrops, panelCached>>

StorePanel(q) ==
  /\ panelBuild[q] # NoPanel
  /\ panelCached' = panelBuild[q]
  /\ panelBuild' = [panelBuild EXCEPT ![q] = NoPanel]
  /\ UNCHANGED <<panelFacts, panelDrops>>

\* Fault: stored without a lifetime.
NeverExpires == FALSE /\ UNCHANGED panelVars

\* PANEL_CACHE_TTL, or an eviction.
ExpirePanel ==
  /\ panelCached # NoPanel
  /\ panelCached' = NoPanel
  /\ UNCHANGED <<panelFacts, panelDrops, panelBuild>>

PanelNext ==
  \/ ChangeFacts \/ ChangeSilently \/ DropPanel \/ LoseDrop \/ ExpirePanel
  \/ \E q \in PanelRequest : BuildPanel(q) \/ StorePanel(q)

\* Time passes, and a request that builds a panel comes to its end.
PanelFairness == WF_panelVars(ExpirePanel) /\ \A q \in PanelRequest : WF_panelVars(StorePanel(q))

PanelSpec == PanelInit /\ [][PanelNext]_panelVars /\ PanelFairness

(* A panel that is out of date, because its build overlapped a change or   *)
(* because nothing dropped it, is not shown for ever: once nothing changes *)
(* any more (changes are bounded), the panel ends up current.              *)
StalePanelGoes == <>[](panelCached \in {NoPanel, panelFacts})
=============================================================================
