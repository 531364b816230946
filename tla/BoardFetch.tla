------------------------------ MODULE BoardFetch ------------------------------
(***************************************************************************)
(* Reading a job board.  Greenhouse, Lever and Ashby answer one request    *)
(* with the whole board.  Workday answers twenty postings a page and       *)
(* reports at most a cap; what is beyond is reached by splitting the query *)
(* on a facet.  Its requests run concurrently and are answered in any      *)
(* order, and the board may change between them.                           *)
(*                                                                         *)
(* What is not fetched is closed in the database, so a fetch has to fail   *)
(* rather than return less than the board.  The Workday client does so     *)
(* when a request fails; a body that was answered with success and lacks   *)
(* a field it reads as if nothing was there.                               *)
(***************************************************************************)
EXTENDS Integers, FiniteSets, SequencesExt

CONSTANTS
  Posting,
  MalformedPosting,  \* without an id or a title
  FacetOrder,        \* _SUBDIVISION_FACETS
  OtherFacet,        \* what else a tenant offers
  ZeroFacet,         \* facets of which it lists a value without postings, too
  FacetValue,
  ValuesOf,          \* of a facet, for a posting: one, several or none
  PageLimit, QueryTotalCap, MaxSplits,
  MaxTries,          \* requests made for one page
  MaxBoardMoves,
  MaxOddBodies       \* bound: bodies that lack something

Facet == {FacetOrder[i] : i \in DOMAIN FacetOrder} \cup OtherFacet

ASSUME FetchAssumption ==
  /\ IsFiniteSet(Posting) /\ FacetOrder \in Seq(Facet)
  /\ ValuesOf \in [Facet -> [Posting -> SUBSET FacetValue]]
  /\ PageLimit \in Nat \ {0} /\ QueryTotalCap \in Nat /\ QueryTotalCap > PageLimit
  /\ MaxTries \in Nat \ {0} /\ {MaxBoardMoves, MaxOddBodies} \subseteq Nat

VARIABLES
  platform,   \* which client; capped: a Workday tenant that reports no more than the cap
  listing,    \* the board, a sequence of postings
  fetching,   \* no, running, returned or failed
  requests,   \* those not yet answered
  fetched,
  givenUp,    \* postings the code decides to do without
  missed,     \* those that lay in a body read as empty
  oddBodies,
  boardMoved, \* the board changed since the fetch began
  boardMoves

fetchVars ==
  <<platform, listing, fetching, requests, fetched, givenUp, missed, oddBodies, boardMoved, boardMoves>>

Request == [applied : SUBSET (Facet \X FacetValue),
            offset : Nat, tries : 0 .. MaxTries - 1]

FetchTypeOK ==
  /\ platform \in {"simple", "workday", "capped"}
  /\ listing \in Seq(Posting)
  /\ fetching \in {"no", "running", "returned", "failed"}
  /\ requests \subseteq Request
  /\ fetched \subseteq Posting /\ givenUp \subseteq Posting /\ missed \subseteq Posting
  /\ oddBodies \in 0 .. MaxOddBodies
  /\ boardMoved \in BOOLEAN /\ boardMoves \in 0 .. MaxBoardMoves

FetchInit ==
  /\ platform \in {"simple", "workday", "capped"}
  /\ listing \in SetToSeqs(Posting)
  /\ fetching = "no" /\ requests = {} /\ fetched = {} /\ givenUp = {} /\ missed = {}
  /\ oddBodies = 0 /\ boardMoved = FALSE /\ boardMoves = 0

-----------------------------------------------------------------------------
(* The board                                                               *)

\* A posting is taken down, or one is put up in front.
MoveBoard ==
  /\ boardMoves < MaxBoardMoves /\ boardMoves' = boardMoves + 1
  /\ \/ \E i \in DOMAIN listing : listing' = RemoveAt(listing, i)
     \/ \E p \in Posting \ ToSet(listing) : listing' = <<p>> \o listing
  /\ boardMoved' = TRUE
  /\ UNCHANGED <<platform, fetching, requests, fetched, givenUp, missed, oddBodies>>

\* Where on the board the postings with all these facet values are.
Matching(applied) ==
  {i \in DOMAIN listing : \A facet \in applied : facet[2] \in ValuesOf[facet[1]][listing[i]]}

ReportedTotal(found) ==
  IF platform = "capped" /\ Cardinality(found) > QueryTotalCap THEN QueryTotalCap ELSE Cardinality(found)

\* The postings of a result, in the order of the board.
Rank(found, i) == Cardinality({j \in found : j <= i})
Ranked(found, from, to) == {listing[i] : i \in {j \in found : from < Rank(found, j) /\ Rank(found, j) <= to}}

PageAt(found, offset) == Ranked(found, offset, offset + PageLimit)

-----------------------------------------------------------------------------
(* One fetch                                                               *)

Query(applied, offset) == [applied |-> applied, offset |-> offset, tries |-> 0]

StartFetch ==
  /\ fetching # "running"
  /\ fetching' = "running" /\ requests' = {Query({}, 0)}
  /\ fetched' = {} /\ givenUp' = {} /\ missed' = {} /\ boardMoved' = FALSE
  /\ UNCHANGED <<platform, listing, oddBodies, boardMoves>>

\* An exception discards what was read.
Discard ==
  /\ fetching' = "failed" /\ requests' = {} /\ fetched' = {} /\ givenUp' = {} /\ missed' = {}
  /\ UNCHANGED <<platform, listing, oddBodies, boardMoved, boardMoves>>

ValuesIn(found, facet) == UNION {ValuesOf[facet][listing[i]] : i \in found}

\* The facets not applied that are listed with two values, and have one.
Splitting(found, applied) ==
  {f \in Facet : /\ \A a \in applied : a[1] # f
                 /\ \E v \in ValuesIn(found, f) : f \in ZeroFacet \/ ValuesIn(found, f) # {v}}

\* _pick_subdivision_facet: the first of the preferred ones, or else one with
\* most values.
Picked(found, splits) ==
  LET preferred == {n \in DOMAIN FacetOrder : FacetOrder[n] \in splits}
      size(f) == Cardinality(ValuesIn(found, f)) IN
  IF preferred # {} THEN {FacetOrder[n] : n \in {n \in preferred : \A m \in preferred : n <= m}}
  ELSE {f \in splits : \A g \in splits : size(g) <= size(f)}

\* What a body may lack: it is null, or a field is not in it.
Body == {"whole", "null", "noTotal", "noPostings", "noFacets"}
Postings(body, page) == IF body \in {"null", "noPostings"} THEN {} ELSE page
Total(body, found) == IF body \in {"null", "noTotal"} THEN 0 ELSE ReportedTotal(found)

Reads(body) ==
  IF body = "whole" THEN UNCHANGED oddBodies
  ELSE oddBodies < MaxOddBodies /\ oddBodies' = oddBodies + 1

\* _exhaust_query: the first page, and the requests it calls for.
AnswerFirst(r, body) ==
  LET found == Matching(r.applied)
      page == PageAt(found, 0)
      total == Total(body, found)
      splits == IF total = QueryTotalCap /\ Cardinality(r.applied) < MaxSplits /\ body # "noFacets"
                THEN Splitting(found, r.applied) ELSE {}
  IN /\ platform # "simple" /\ r.offset = 0
     /\ fetched' = fetched \cup Postings(body, page)
     /\ missed' = missed \cup
          ((IF total = 0 THEN {listing[i] : i \in found} ELSE page) \ Postings(body, page))
     /\ \/ /\ splits = {}
           /\ requests' = (requests \ {r}) \cup
                {Query(r.applied, o) : o \in {k \in 1 .. total - 1 : \E n \in 1 .. k : k = n * PageLimit}}
           /\ givenUp' = givenUp \cup IF total = 0 THEN {} ELSE Ranked(found, total, Cardinality(found))
        \/ \E facet \in Picked(found, splits) :
             /\ requests' = (requests \ {r}) \cup
                  {Query(r.applied \cup {<<facet, v>>}, 0) : v \in ValuesIn(found, facet)}
             /\ givenUp' = givenUp \cup {p \in {listing[i] : i \in found} : ValuesOf[facet][p] = {}}

\* _fan_out_pages
AnswerPage(r, body) ==
  LET page == PageAt(Matching(r.applied), r.offset) IN
  /\ r.offset > 0
  /\ fetched' = fetched \cup Postings(body, page)
  /\ missed' = missed \cup (page \ Postings(body, page))
  /\ requests' = requests \ {r}
  /\ UNCHANGED givenUp

\* The normalizers raise for a posting without what a job needs.
Parsed(p) == p \notin MalformedPosting

\* Greenhouse, Lever, Ashby: all postings, or none when one cannot be parsed.
AnswerWhole(r) ==
  /\ platform = "simple" /\ \A p \in ToSet(listing) : Parsed(p)
  /\ fetched' = ToSet(listing) /\ requests' = {}
  /\ UNCHANGED <<givenUp, missed>>

Answer(r) ==
  /\ \/ \E body \in Body : Reads(body) /\ (AnswerFirst(r, body) \/ AnswerPage(r, body))
     \/ AnswerWhole(r) /\ UNCHANGED oddBodies
  /\ UNCHANGED <<platform, listing, fetching, boardMoved, boardMoves>>

MayRetry(r) == r.tries + 1 < MaxTries

Retry(r) ==
  /\ MayRetry(r)
  /\ requests' = (requests \ {r}) \cup {[r EXCEPT !.tries = @ + 1]}
  /\ UNCHANGED <<platform, listing, fetching, fetched, givenUp, missed, oddBodies, boardMoved, boardMoves>>

\* Fault: a later page that cannot be had is empty.
OnlyFirstMatters(r) == r.offset = 0

IsFatal(r) == TRUE

\* The tries are used up.
GiveUpPage(r) ==
  /\ ~MayRetry(r)
  /\ IF IsFatal(r) THEN Discard
     ELSE /\ requests' = requests \ {r}
          /\ UNCHANGED <<platform, listing, fetching, fetched, givenUp, missed, oddBodies, boardMoved, boardMoves>>

\* A status that is not retried, a body that is no JSON, the deadline; for the
\* simple clients a body of another shape.
FetchFails == fetching = "running" /\ Discard

ReturnPostings ==
  /\ fetching = "running" /\ requests = {}
  /\ fetching' = "returned"
  /\ UNCHANGED <<platform, listing, requests, fetched, givenUp, missed, oddBodies, boardMoved, boardMoves>>

FetchNext ==
  \/ MoveBoard \/ StartFetch \/ FetchFails \/ ReturnPostings
  \/ \E r \in requests : Answer(r) \/ Retry(r) \/ GiveUpPage(r)

FetchSpec == FetchInit /\ [][FetchNext]_fetchVars

-----------------------------------------------------------------------------
(* Properties                                                              *)

(* A fetch that returns has the whole board, if the board stood still: no  *)
(* page that failed, no query that was split and no deadline leaves a hole *)
(* that closure detection would take for closed postings.  What the code   *)
(* gives up lies in a query at the cap; what it does not read lay in a     *)
(* body that lacked something, of a Workday board.                         *)
FetchIsWhole ==
  (fetching = "returned" /\ ~boardMoved) =>
    /\ fetched \subseteq ToSet(listing) /\ ToSet(listing) \subseteq fetched \cup givenUp \cup missed
    /\ givenUp # {} => platform # "simple" /\ Len(listing) >= QueryTotalCap
    /\ missed # {} => platform # "simple" /\ oddBodies > 0
=============================================================================
