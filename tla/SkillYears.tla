----------------------------- MODULE SkillYears ------------------------------
(***************************************************************************)
(* Years of experience per skill, as years_by_skill computes them: roles   *)
(* are intervals of months, and those that share a month are merged while  *)
(* going through them in order.                                            *)
(***************************************************************************)
EXTENDS Integers, FiniteSets

CONSTANTS
  RoleMonth,  \* months, as consecutive numbers; the last one is today
  NoEnd       \* a role without an end date

ASSUME YearsAssumption == IsFiniteSet(RoleMonth) /\ RoleMonth \subseteq Nat /\ NoEnd \notin Nat

Roles == [start : RoleMonth, end : RoleMonth \cup {NoEnd}, current : BOOLEAN]

Today == CHOOSE m \in RoleMonth : \A n \in RoleMonth : n <= m

\* A current role runs to today, one with a single date counts for nothing.
RoleEnd(role) == IF role.current THEN Today ELSE role.end

Spans(roles) ==
  {<<role.start, RoleEnd(role)>> :
     role \in {r \in roles : RoleEnd(r) # NoEnd /\ r.start <= RoleEnd(r)}}

Earlier(a, b) == a[1] < b[1] \/ (a[1] = b[1] /\ a[2] < b[2])

\* Fault: the later role decides where a merged one ends.
EndOfLater(end, span) == span[2]

FurthestEnd(end, span) == IF span[2] > end THEN span[2] ELSE end

\* total: months of the finished spans; start, end: the one being merged.
MergeSpan(acc, span) ==
  IF span[1] <= acc.end
  THEN [acc EXCEPT !.end = FurthestEnd(acc.end, span)]
  ELSE [total |-> acc.total + acc.end - acc.start + 1, start |-> span[1], end |-> span[2]]

InOrder(spans) ==
  CHOOSE s \in [1 .. Cardinality(spans) -> spans] :
    \A i, j \in 1 .. Cardinality(spans) : i < j => Earlier(s[i], s[j])

\* merged: after the first span and k more.
MonthsOf(roles) ==
  LET n == Cardinality(Spans(roles))
      ordered == InOrder(Spans(roles))
      merged[k \in 0 .. n - 1] ==
        IF k = 0 THEN [total |-> 0, start |-> ordered[1][1], end |-> ordered[1][2]]
        ELSE MergeSpan(merged[k - 1], ordered[k + 1])
  IN IF n = 0 THEN 0 ELSE merged[n - 1].total + merged[n - 1].end - merged[n - 1].start + 1

\* format_years, in half years; 0 is "< 1 yr".
HalfYears(months) == IF months < 3 THEN 0 ELSE (months + 3) \div 6

(* Roles at the same time are counted once and gaps not at all: the months *)
(* of a skill are those in which some role used it, however many there     *)
(* are, whether they touch, overlap or lie within one another.             *)
MonthsAreCountedOnce(roles) ==
  MonthsOf(roles) = Cardinality(UNION {span[1]..span[2] : span \in Spans(roles)})

(* More experience is never shown as less, nor more than a quarter off.    *)
YearsAreRounded(months) ==
  /\ HalfYears(months) <= HalfYears(months + 1)
  /\ months >= 3 => 6 * HalfYears(months) - months \in -3..3
=============================================================================
