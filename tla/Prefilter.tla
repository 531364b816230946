----------------------------- MODULE Prefilter ------------------------------
(***************************************************************************)
(* The gate in front of the scorer exists twice: as the predicate          *)
(* passes_prefilter, used when one profile is matched against many jobs,   *)
(* and as a database query, used when one job is matched against all       *)
(* profiles.  The query works in the three-valued logic of SQL.            *)
(***************************************************************************)
EXTENDS Integers

CONSTANTS
  Employer,   \* employer slugs
  Salary,     \* salaries
  NULL        \* no salary, and SQL's unknown

ASSUME SalaryAssumption == Salary \subseteq Nat /\ NULL \notin Int \cup BOOLEAN

Profiles == [remote_pref : {"any", "remote_only", "onsite_only"},
             excluded_employers : SUBSET Employer,
             min_salary : Salary \cup {NULL},
             is_active : BOOLEAN]

Jobs == [is_remote : BOOLEAN, employer : Employer,
         salary_min : Salary \cup {NULL}, salary_max : Salary \cup {NULL}]

KnownSalaryCeiling(j) == IF j.salary_max # NULL THEN j.salary_max ELSE j.salary_min

PassesPrefilter(p, j) ==
  LET ceiling == KnownSalaryCeiling(j) IN
  /\ j.employer \notin p.excluded_employers
  /\ p.remote_pref = "remote_only" => j.is_remote
  /\ p.remote_pref = "onsite_only" => ~j.is_remote
  /\ p.min_salary # NULL /\ ceiling # NULL => ceiling >= p.min_salary

-----------------------------------------------------------------------------
(* The query                                                               *)

SqlGreater(a, b) == IF a = NULL \/ b = NULL THEN NULL ELSE a > b

SqlNot(x) == IF x = NULL THEN NULL ELSE ~x

SqlAnd(x, y) == IF x = FALSE \/ y = FALSE THEN FALSE
                ELSE IF x = NULL \/ y = NULL THEN NULL ELSE TRUE

\* Fault: a hand-written NOT (min_salary > ceiling).
BelowFloorWithoutNull(p, ceiling) == SqlNot(SqlGreater(p.min_salary, ceiling))

\* exclude() on a nullable column also asks for IS NOT NULL.
NotBelowFloor(p, ceiling) ==
  SqlNot(SqlAnd(SqlGreater(p.min_salary, ceiling), p.min_salary # NULL))

\* The profiles of the query for job j: WHERE keeps a row when it is TRUE.
IsCandidate(p, j) ==
  LET ceiling == IF j.salary_max # NULL THEN j.salary_max ELSE j.salary_min IN
  /\ p.is_active
  /\ IF j.is_remote THEN p.remote_pref # "onsite_only" ELSE p.remote_pref # "remote_only"
  /\ j.employer \notin p.excluded_employers
  /\ ceiling # NULL => NotBelowFloor(p, ceiling) = TRUE

(* The query mirrors the predicate: whichever side is computed first, the  *)
(* same users are matched with the same jobs.                              *)
Mirrored(p, j) == IsCandidate(p, j) <=> p.is_active /\ PassesPrefilter(p, j)
=============================================================================
