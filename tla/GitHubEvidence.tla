--------------------------- MODULE GitHubEvidence ----------------------------
(***************************************************************************)
(* What fetched repositories prove: for one skill, in how many of them it  *)
(* was seen and when (build_skills), and the project entry of a repository *)
(* (build_projects).  Both are stored later by code that checks them again *)
(* (ResumeFacts), and one bad item refuses a whole review.                 *)
(***************************************************************************)
EXTENDS Integers, FiniteSets, FiniteSetsExt

CONSTANTS
  Repo,        \* names
  RepoMonth    \* months, as numbers

ASSUME EvidenceAssumption == IsFiniteSet(Repo) /\ RepoMonth \subseteq Nat

\* What a repository is and which sources of it show the skill: its language
\* or a topic (broad), or only what was found by reading it (deep).
RepoFacts == [own : {"own", "fork", "pinned_fork", "archived"}, created : RepoMonth,
              pushed : RepoMonth, broad : BOOLEAN, read : BOOLEAN, deep : BOOLEAN]

\* Nothing is found in a repository that was not read.
Possible(facts) == facts.deep => facts.read

\* eligible_repos: archived ones never count, forks when they are pinned.
EligibleRepos(scan) == {r \in Repo : scan[r].own \in {"own", "pinned_fork"}}

NoEvidence == [scope |-> "none"]

Shows(scan, r) == scan[r].broad \/ scan[r].deep

\* The repositories a skill is counted over, by its best source.
Members(scan, shown, broad) == IF broad THEN shown ELSE {r \in shown : scan[r].read}

\* Fault: dates are taken as they come.
LastSeen(first, last) == last

\* A repository can be created after its last push, by an import.
LastNotBefore(first, last) == IF last < first THEN first ELSE last

BuildEvidence(scan) ==
  LET eligible == EligibleRepos(scan)
      shown == {r \in eligible : Shows(scan, r)}
      broad == \E r \in shown : scan[r].broad
      population == IF broad THEN eligible ELSE {r \in eligible : scan[r].read}
      members == Members(scan, shown, broad)
      first == Min({scan[r].created : r \in members}) IN
  IF members = {} \/ population = {} THEN NoEvidence
  ELSE [scope |-> IF broad THEN "recent" ELSE "top",
        count |-> Cardinality(members),
        size |-> Max({Cardinality(population), Cardinality(members)}),
        first |-> first,
        last |-> LastNotBefore(first, Max({scan[r].pushed : r \in members})),
        repos |-> members]

\* build_projects
ProjectSpan(facts) == [start |-> facts.created, end |-> LastNotBefore(facts.created, facts.pushed)]

(* Whatever was fetched, the evidence is one that clean_evidence accepts,  *)
(* and its count is of one population: a skill seen in the language or a   *)
(* topic of some repository is counted over all that were scanned, one     *)
(* found by reading over those that were read.                             *)
EvidenceIsSound(scan) ==
  LET e == BuildEvidence(scan)
      population == IF e.scope = "recent" THEN EligibleRepos(scan)
                    ELSE {r \in EligibleRepos(scan) : scan[r].read} IN
  e # NoEvidence =>
    /\ 1 <= e.count /\ e.count <= e.size /\ e.first <= e.last
    /\ e.repos \subseteq population
    /\ e.size = Cardinality(population)
    /\ \A r \in Repo : ProjectSpan(scan[r]).start <= ProjectSpan(scan[r]).end
=============================================================================
