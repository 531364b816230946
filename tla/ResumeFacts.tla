----------------------------- MODULE ResumeFacts -----------------------------
(***************************************************************************)
(* What an accepted review stores besides the profile's columns: resume    *)
(* entries (roles and projects) and skills with their evidence.  Imports   *)
(* overlap: the same project comes again under another title, or with a    *)
(* link it did not have; a GitHub import that ran into a limit knows less  *)
(* than the one before.                                                    *)
(***************************************************************************)
EXTENDS Integers, FiniteSets, Sequences

CONSTANTS
  EntryKey,     \* natural keys: organization, title and first month
  EntryLink,    \* links of projects
  NoLink,       \* no link
  EntryText,    \* what an entry says besides
  MaxAccepted,  \* bound: entries accepted in one review
  Months,       \* months, as numbers
  ScopeSize     \* repositories an import can have looked at

ASSUME FactsAssumption ==
  NoLink \notin EntryLink /\ Months \subseteq Nat /\ ScopeSize \subseteq Nat

VARIABLES
  entries,  \* the ResumeEntry rows
  skill,    \* one ProfileSkill row
  shown     \* what reviews have shown of the skill since the last full run

factVars == <<entries, skill, shown>>

ResumeEntries == [key : EntryKey, link : EntryLink \cup {NoLink}, text : EntryText,
                  source : {"imported", "user"}]

\* clean_evidence: counts agree with the scope, months are in order.
Evidence == {e \in [count : ScopeSize \ {0}, size : ScopeSize, first : Months, last : Months] :
               e.count <= e.size /\ e.first <= e.last}

NoSkill == [dismissed |-> FALSE]
Skills == [evidence : Evidence, dismissed : BOOLEAN]

FactsTypeOK ==
  entries \subseteq ResumeEntries /\ skill \in Skills \cup {NoSkill} /\ shown \subseteq Evidence

FactsInit == entries = {} /\ skill = NoSkill /\ shown = {}

-----------------------------------------------------------------------------
(* Entries                                                                 *)

Accepted == [key : EntryKey, link : EntryLink \cup {NoLink}, text : EntryText, edited : BOOLEAN]

\* Fault: an entry is found by its natural key only.
FindByKey(stored, new) == {e \in stored : e.key = new.key}

\* find_existing: by its link, and only then by its natural key.
FindExisting(stored, new) ==
  LET linked == {e \in stored : new.link # NoLink /\ e.link = new.link} IN
  IF linked # {} THEN linked ELSE {e \in stored : e.key = new.key}

Kept(old) == old.source = "user"

\* An entry that is found keeps its key.
Refreshed(old, new) ==
  [old EXCEPT !.link = new.link, !.text = new.text, !.source = IF new.edited THEN "user" ELSE @]

ApplyEntry(stored, new) ==
  LET found == FindExisting(stored, new) IN
  IF found = {}
  THEN stored \cup {[key |-> new.key, link |-> new.link, text |-> new.text,
                     source |-> IF new.edited THEN "user" ELSE "imported"]}
  ELSE LET old == CHOOSE e \in found : TRUE IN
       IF Kept(old) THEN stored ELSE (stored \ {old}) \cup {Refreshed(old, new)}

\* build_review shows every proposal against what is stored, and a review
\* offers those that are new or an update.  (One that the user edited was
\* compared as it was proposed, with another key perhaps.)
ExistingState(stored, new) ==
  LET found == FindExisting(stored, new) IN
  IF found = {} THEN "new"
  ELSE LET old == CHOOSE e \in found : TRUE IN
       IF Kept(old) THEN "kept"
       ELSE IF old.text = new.text /\ old.link = new.link THEN "unchanged" ELSE "update"

Offered(stored, new) == new.edited \/ ExistingState(stored, new) \notin {"kept", "unchanged"}

\* apply_entries: those of the proposals that were offered, in order, in one
\* transaction.
ApplyEntries(stored, proposals) ==
  LET upTo[i \in 0 .. Len(proposals)] ==
        IF i = 0 THEN stored
        ELSE IF Offered(stored, proposals[i]) THEN ApplyEntry(upTo[i - 1], proposals[i])
        ELSE upTo[i - 1]
  IN upTo[Len(proposals)]

AcceptEntries(proposals) ==
  /\ entries' = ApplyEntries(entries, proposals)
  /\ UNCHANGED <<skill, shown>>

DeleteEntry(e) ==
  /\ entries' = entries \ {e}
  /\ UNCHANGED <<skill, shown>>

-----------------------------------------------------------------------------
(* Skills                                                                  *)

Richer(new, old) == new.count > old.count \/ (new.count = old.count /\ new.size >= old.size)

Least(a, b) == IF a <= b THEN a ELSE b
Greatest(a, b) == IF a <= b THEN b ELSE a

\* Fault: the later evidence is taken for the better one.
MergeByTakingNew(old, new) ==
  [new EXCEPT !.first = Least(old.first, new.first), !.last = Greatest(old.last, new.last)]

\* Fault: the higher count, over the scope of the other.
HighestCount(old, new) ==
  [old EXCEPT !.count = Greatest(@, new.count),
     !.first = Least(old.first, new.first), !.last = Greatest(old.last, new.last)]

\* merge_evidence
MergeEvidence(old, new) ==
  [(IF Richer(new, old) THEN new ELSE old) EXCEPT
     !.first = Least(old.first, new.first), !.last = Greatest(old.last, new.last)]

\* _skill_rows: what the profile has already is not offered.
SkillOffered(new) == skill # NoSkill /\ ~skill.dismissed => skill.evidence # new

\* apply_skills: a full run replaces the evidence, a light or partial one
\* adds to it; a skill that was removed comes back.
AcceptSkill(mode, new) ==
  /\ SkillOffered(new)
  /\ skill' = [evidence |-> IF skill = NoSkill \/ mode = "full" THEN new
                            ELSE MergeEvidence(skill.evidence, new),
               dismissed |-> FALSE]
  /\ shown' = {new} \cup IF mode = "full" THEN {} ELSE shown
  /\ UNCHANGED entries

DismissSkill ==
  /\ skill # NoSkill /\ ~skill.dismissed
  /\ skill' = [skill EXCEPT !.dismissed = TRUE]
  /\ UNCHANGED <<entries, shown>>

-----------------------------------------------------------------------------
EntryStep ==
  \/ \E n \in 1..MaxAccepted : \E proposals \in [1..n -> Accepted] : AcceptEntries(proposals)
  \/ \E e \in entries : DeleteEntry(e)

SkillStep ==
  \/ \E mode \in {"full", "light", "partial"}, new \in Evidence : AcceptSkill(mode, new)
  \/ DismissSkill

FactsNext == EntryStep \/ SkillStep

FactsSpec == FactsInit /\ [][FactsNext]_factVars

-----------------------------------------------------------------------------
(* Properties                                                              *)

(* However imports overlap, one project is one entry: no two stored        *)
(* entries share a natural key or a link.                                  *)
EntriesAreDistinct ==
  \A e, f \in entries : e.key = f.key \/ (e.link = f.link /\ e.link # NoLink) => e = f

\* No proof is richer, no month lies outside, and count and scope are of one.
BestOf(best, proofs) ==
  /\ \A e \in proofs : Richer(best, e) /\ best.first <= e.first /\ e.last <= best.last
  /\ \E e \in proofs : best.count = e.count /\ best.size = e.size
  /\ \E e \in proofs : best.first = e.first
  /\ \E e \in proofs : best.last = e.last

(* Whatever runs ended early, in whichever order they were accepted and    *)
(* with the skill removed in between, the stored evidence is the best that *)
(* reviews have shown since the last full run, and nothing else.           *)
PartialRunsKeepProof == skill # NoSkill => BestOf(skill.evidence, shown)
=============================================================================
