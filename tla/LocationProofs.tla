---------------------------- MODULE LocationProofs ---------------------------
(***************************************************************************)
(* What holds of locations for all constants: the sweeps that resolve the  *)
(* stored texts, and the places a text is resolved to.                     *)
(***************************************************************************)
EXTENDS ImportProofs, LocationBackfill, PlaceResolution

(***************************************************************************)
(* The sweeps, for any rows, texts, versions, batch size and number of     *)
(* sweeps.  A sweep may write when the version is the one it read.  That   *)
(* suffices because a row at an older version has kept its text since:     *)
(* every write of a text stamps the running version.                       *)
(***************************************************************************)
\* What a sweep has read is of an older version, and while the row is at that
\* version it has the text that was read.
SeenTextsHold ==
  \A s \in LocationSweeper : \A seen \in batch[s] :
    /\ seen.version < aliasVersion
    /\ located[seen.row].version = seen.version => located[seen.row].text = seen.text

\* No row is ahead of the running version.
NoRowAhead == \A r \in RowKey : located[r].version <= aliasVersion

BackfillInv == BackfillTypeOK /\ PlacesMatchTheirText /\ SeenTextsHold /\ NoRowAhead

(* A place derived at the running version is a place of the model. *)
LEMMA DerivedIsPlace ==
  ASSUME BackfillTypeOK, NEW text \in LocationText, NEW place \in Derived(text)
  PROVE  /\ place \in DerivedPlace
         /\ place \in {[text |-> text, version |-> aliasVersion], NoPlaceYet}
BY DEF Derived, DerivedPlace, BackfillTypeOK

(* The stored places start out derived from their texts. *)
LEMMA BackfillInitInv == BackfillInit => BackfillInv
<1> SUFFICES ASSUME BackfillInit PROVE BackfillInv
  OBVIOUS
<1> 1 \in AliasVersion
  BY BackfillAssumption DEF AliasVersion
<1> PICK text \in LocationText :
      located = [r \in RowKey |-> [text |-> text, place |-> [text |-> text, version |-> 1], version |-> 1]]
  BY DEF BackfillInit
<1>1. BackfillTypeOK
  BY BackfillAssumption DEF BackfillInit, BackfillTypeOK, LocatedText, DerivedPlace, AliasVersion
<1>2. PlacesMatchTheirText
  BY DEF PlacesMatchTheirText
<1>3. SeenTextsHold
  BY DEF BackfillInit, SeenTextsHold
<1>4. NoRowAhead
  BY DEF BackfillInit, NoRowAhead
<1> QED BY <1>1, <1>2, <1>3, <1>4 DEF BackfillInv

(* No step leaves a place beside another text than its own. *)
LEMMA BackfillNextInv == BackfillInv /\ [BackfillNext]_backfillVars => BackfillInv'
<1> SUFFICES ASSUME BackfillInv, [BackfillNext]_backfillVars PROVE BackfillInv'
  OBVIOUS
<1> USE DEF BackfillInv
<1>t. /\ located \in [RowKey -> LocatedText] /\ aliasVersion \in AliasVersion
      /\ AliasVersion \subseteq Nat /\ RowKey = JobRow \cup ProfileRow
      /\ batch \in [LocationSweeper -> SUBSET SeenRow]
  BY DEF BackfillTypeOK, AliasVersion, RowKey
<1>1. ASSUME NEW r \in RowKey, NEW text \in LocationText, WriteText(r, text) PROVE BackfillInv'
  <2> PICK place \in Derived(text) :
        located' = [located EXCEPT ![r] = [text |-> text, place |-> place, version |-> aliasVersion]]
    BY <1>1 DEF WriteText
  <2>p. /\ place \in DerivedPlace
        /\ place \in {[text |-> text, version |-> aliasVersion], NoPlaceYet}
    BY DerivedIsPlace
  <2>u. UNCHANGED <<aliasVersion, batch>>
    BY <1>1 DEF WriteText
  <2>1. BackfillTypeOK'
    BY <1>1, <1>t, <2>p, BackfillAssumption DEF WriteText, BackfillTypeOK, LocatedText
  <2>2. PlacesMatchTheirText'
    BY <1>t, <2>p, <2>u DEF PlacesMatchTheirText, LocatedText
  <2>3. SeenTextsHold'
    <3> SUFFICES ASSUME NEW s \in LocationSweeper, NEW seen \in batch[s]
                 PROVE  /\ seen.version < aliasVersion
                        /\ located'[seen.row].version = seen.version =>
                             located'[seen.row].text = seen.text
      BY <2>u DEF SeenTextsHold
    <3>1. seen \in SeenRow /\ seen.version < aliasVersion
      BY <1>t DEF SeenTextsHold
    <3>2. CASE seen.row = r
      BY <1>t, <3>1, <3>2 DEF SeenRow
    <3>3. CASE seen.row # r
      BY <1>t, <3>1, <3>3 DEF SeenTextsHold, SeenRow
    <3> QED BY <3>2, <3>3
  <2>4. NoRowAhead'
    BY <1>t, <2>u DEF NoRowAhead
  <2> QED BY <2>1, <2>2, <2>3, <2>4
<1>2. ASSUME Deploy PROVE BackfillInv'
  <2>1. BackfillTypeOK'
    BY <1>2, <1>t, BackfillAssumption DEF Deploy, BackfillTypeOK, AliasVersion
  <2>2. PlacesMatchTheirText'
    BY <1>2 DEF Deploy, PlacesMatchTheirText
  <2>3. SeenTextsHold'
    BY <1>2 DEF Deploy, SeenTextsHold
  <2>4. NoRowAhead'
    <3>1. \A r \in RowKey : located[r].version \in Nat
      BY <1>t DEF LocatedText
    <3> QED BY <1>2, <1>t, <3>1 DEF Deploy, NoRowAhead
  <2> QED BY <2>1, <2>2, <2>3, <2>4
<1>3. ASSUME NEW s \in LocationSweeper, ReadBatch(s) PROVE BackfillInv'
  <2>u. UNCHANGED <<located, aliasVersion>>
    BY <1>3 DEF ReadBatch
  <2>b. ASSUME NEW t \in LocationSweeper, NEW seen \in batch'[t], seen \notin batch[t]
        PROVE  \E r \in RowKey : /\ located[r].version # aliasVersion
                                 /\ seen = [row |-> r, text |-> located[r].text,
                                            version |-> located[r].version]
    <3>1. FirstOf(StaleRows(s)) \subseteq StaleRows(s)
      BY DEF FirstOf
    <3>2. StaleRows(s) \subseteq {r \in RowKey : located[r].version # aliasVersion}
      BY <1>t DEF StaleRows
    <3>3. batch' = [batch EXCEPT ![s] =
               {[row |-> r, text |-> located[r].text, version |-> located[r].version] :
                  r \in FirstOf(StaleRows(s))}]
      BY <1>3, <2>b DEF ReadBatch
    <3>4. t = s
      BY <2>b, <3>3 DEF BackfillTypeOK
    <3> QED BY <2>b, <3>1, <3>2, <3>3, <3>4 DEF BackfillTypeOK
  <2>1. BackfillTypeOK'
    <3>1. batch' \in [LocationSweeper -> SUBSET SeenRow]
      <4>1. \A t \in LocationSweeper : batch'[t] \subseteq SeenRow
        BY <1>t, <2>b DEF SeenRow, LocatedText
      <4> QED BY <1>3, <1>t, <4>1 DEF ReadBatch
    <3>2. phase' \in [LocationSweeper -> {"idle", "jobs", "profiles"}]
      BY <1>3 DEF ReadBatch, BackfillTypeOK
    <3> QED BY <1>3, <2>u, <3>1, <3>2 DEF ReadBatch, BackfillTypeOK
  <2>2. PlacesMatchTheirText'
    BY <2>u DEF PlacesMatchTheirText
  <2>3. SeenTextsHold'
    BY <1>t, <2>u, <2>b DEF SeenTextsHold, NoRowAhead, LocatedText
  <2>4. NoRowAhead'
    BY <2>u DEF NoRowAhead
  <2> QED BY <2>1, <2>2, <2>3, <2>4
<1>4. ASSUME NEW s \in LocationSweeper, WriteRow(s) PROVE BackfillInv'
  <2> PICK seen \in batch[s] :
        \E place \in Derived(seen.text) :
          located' = IF Unchanged(seen)
                     THEN [located EXCEPT ![seen.row] = Renewed(@, place)] ELSE located
    BY <1>4 DEF WriteRow
  <2> PICK place \in Derived(seen.text) :
        located' = IF Unchanged(seen)
                   THEN [located EXCEPT ![seen.row] = Renewed(@, place)] ELSE located
    OBVIOUS
  <2>s. seen \in SeenRow
    BY <1>t
  <2>p. /\ place \in DerivedPlace
        /\ place \in {[text |-> seen.text, version |-> aliasVersion], NoPlaceYet}
    BY <2>s, DerivedIsPlace DEF SeenRow
  <2>u. /\ UNCHANGED <<aliasVersion, phase, textChanges, sweepDeaths>>
        /\ \A t \in LocationSweeper : batch'[t] \subseteq batch[t]
    BY <1>4 DEF WriteRow, BackfillTypeOK
  <2>r. \A r \in RowKey :
          /\ located'[r].text = located[r].text
          /\ \/ located'[r] = located[r]
             \/ /\ r = seen.row /\ located[r].version = seen.version
                /\ located'[r].place = place /\ located'[r].version = aliasVersion
    BY <1>t, <2>s DEF Unchanged, Renewed, LocatedText, SeenRow
  <2>1. BackfillTypeOK'
    <3>1. located' \in [RowKey -> LocatedText]
      BY <1>t, <2>s, <2>p DEF Renewed, LocatedText, SeenRow
    <3> QED BY <1>4, <2>u, <3>1, <1>t DEF BackfillTypeOK, WriteRow
  <2>2. PlacesMatchTheirText'
    <3> SUFFICES ASSUME NEW r \in RowKey
                 PROVE  located'[r].place \in
                          {[text |-> located'[r].text, version |-> located'[r].version], NoPlaceYet}
      BY DEF PlacesMatchTheirText
    <3>1. CASE located'[r] = located[r]
      BY <3>1 DEF PlacesMatchTheirText
    <3>2. CASE /\ r = seen.row /\ located[r].version = seen.version
               /\ located'[r].place = place /\ located'[r].version = aliasVersion
      <4>1. located[r].text = seen.text
        BY <3>2 DEF SeenTextsHold
      <4> QED BY <2>p, <2>r, <3>2, <4>1
    <3> QED BY <2>r, <3>1, <3>2
  <2>3. SeenTextsHold'
    <3> SUFFICES ASSUME NEW t \in LocationSweeper, NEW other \in batch[t]
                 PROVE  /\ other.version < aliasVersion
                        /\ located'[other.row].version = other.version =>
                             located'[other.row].text = other.text
      BY <2>u DEF SeenTextsHold
    <3>1. /\ other.row \in RowKey /\ other.version \in Nat
          /\ other.version < aliasVersion
          /\ located[other.row].version = other.version => located[other.row].text = other.text
      <4>1. other \in SeenRow
        BY <1>t
      <4>2. other.row \in RowKey /\ other.version \in Nat
        BY <1>t, <4>1 DEF SeenRow
      <4> QED BY <4>2 DEF SeenTextsHold
    <3>2. aliasVersion \in Nat
      BY <1>t
    <3>3. CASE located'[other.row] = located[other.row]
      BY <3>1, <3>3
    <3>4. CASE located'[other.row].version = aliasVersion
      BY <3>1, <3>2, <3>4
    <3> QED BY <2>r, <3>1, <3>3, <3>4
  <2>4. NoRowAhead'
    BY <1>t, <2>r, <2>u DEF NoRowAhead
  <2> QED BY <2>1, <2>2, <2>3, <2>4
<1>5. ASSUME NEW s \in LocationSweeper, StartBackfill(s) \/ BackfillDies(s) PROVE BackfillInv'
  <2>u. /\ UNCHANGED <<located, aliasVersion, textChanges>>
        /\ \A t \in LocationSweeper : batch'[t] \subseteq batch[t]
    BY <1>5 DEF StartBackfill, BackfillDies, BackfillTypeOK
  <2>1. BackfillTypeOK'
    BY <1>5, <1>t, <2>u, BackfillAssumption DEF StartBackfill, BackfillDies, BackfillTypeOK
  <2>2. PlacesMatchTheirText' /\ SeenTextsHold' /\ NoRowAhead'
    BY <2>u DEF PlacesMatchTheirText, SeenTextsHold, NoRowAhead
  <2> QED BY <2>1, <2>2
<1>6. CASE UNCHANGED backfillVars
  BY <1>6 DEF backfillVars, BackfillTypeOK, PlacesMatchTheirText, SeenTextsHold, NoRowAhead
<1> QED BY <1>1, <1>2, <1>3, <1>4, <1>5, <1>6 DEF BackfillNext, BackfillStep

(* The fields of the rows and of the sweeps stay in their sets. *)
THEOREM BackfillTyped == BackfillSpec => []BackfillTypeOK
<1>1. BackfillInv => BackfillTypeOK
  BY DEF BackfillInv
<1> QED BY BackfillInitInv, BackfillNextInv, <1>1, PTL DEF BackfillSpec

(* A stored place is always the one its version derives from the text      *)
(* beside it, whoever wrote either and however the sweeps overlap.         *)
THEOREM BackfillKeepsPlaces == BackfillSpec => []PlacesMatchTheirText
<1>1. BackfillInv => PlacesMatchTheirText
  BY DEF BackfillInv
<1> QED BY BackfillInitInv, BackfillNextInv, <1>1, PTL DEF BackfillSpec

(***************************************************************************)
(* Places.  A name alone is looked up as a country, then as a region, then *)
(* as a city; each look-up has lost the names another claim makes          *)
(* ambiguous.                                                              *)
(***************************************************************************)
\* Of finitely many cities, one has the largest population.
LEMMA LargestIsOne ==
  ASSUME NEW cities \in SUBSET CityRow, IsFiniteSet(cities), cities # {}
  PROVE  Largest(cities) \in cities
<1> DEFINE people == [c \in CityRow |-> c.people]
           numbers == {people[c] : c \in cities}
<1>1. \A c \in CityRow : people[c] \in Nat /\ people[c] = c.people
  BY GazetteerAssumption DEF CityRow
<1> HIDE DEF people
<1>2. numbers \subseteq Nat /\ numbers # {} /\ IsFiniteSet(numbers)
  BY <1>1, ImageIsFinite
<1>3. PICK n \in numbers : \A m \in numbers : m <= n
  <2> HIDE DEF numbers
  <2> QED BY <1>2, LargestOf
<1>4. \E c \in cities : \A d \in cities : d.people <= c.people
  BY <1>1, <1>3
<1> QED BY <1>4 DEF Largest

\* A name is no code, and the other way round.
LEMMA ClaimsOfTokens ==
  ASSUME NEW rows \in Dataset, NEW token
  PROVE  /\ RegionsAbbreviated(rows, token) # {} =>
              RegionsNamed(rows, token) = {} /\ CitiesNamed(rows, token) = {}
         /\ IsFiniteSet(RegionsNamed(rows, token))
<1>1. RegionsAbbreviated(rows, token) # {} => token \in PlaceCode
  BY DEF RegionsAbbreviated, Abbreviates
<1>2. RegionsNamed(rows, token) # {} => token \in PlaceName
  BY DEF RegionsNamed, Dataset, RegionRow
<1>3. CitiesNamed(rows, token) # {} => token \in PlaceName
  BY DEF CitiesNamed, CityAliases, Dataset, CityRow
<1>4. IsFiniteSet(RegionsNamed(rows, token))
  <2>1. RegionsNamed(rows, token) \subseteq rows.regions /\ IsFiniteSet(rows.regions)
    BY DEF RegionsNamed, Dataset
  <2> QED BY <2>1, FS_Subset
<1> QED BY <1>1, <1>2, <1>3, <1>4, GazetteerAssumption

LEMMA BareResolution ==
  ASSUME NEW rows, NEW token
  PROVE  Resolve(rows, BareText(token)) = ResolveBare(rows, token, NoLand, FALSE)
<1> DEFINE text == BareText(token)
<1>1. CountryByPrefix(NoCode) = {}
  BY GazetteerAssumption DEF CountryByPrefix
<1>2. ~StrayPrefix(text) /\ Words(text, text.tokens) = <<token>>
  BY DEF BareText, StrayPrefix, Words
<1>3. Len(<<token>>) = 1 /\ <<token>>[1] = token /\ <<token>> # <<>>
  OBVIOUS
<1>4. ~text.dashed /\ text.noise = 0 /\ text.prefix = NoCode
  BY DEF BareText
<1> DEFINE beside == text.noise # 0
<1>5. beside = FALSE
  BY <1>4
<1> HIDE DEF text
<1>6. Resolve(rows, text) = ResolveTokens(rows, <<token>>, NoLand, beside)
  BY <1>1, <1>2, <1>3, <1>4 DEF Resolve
<1> HIDE DEF beside
<1>7. Resolve(rows, text) = ResolveBare(rows, token, NoLand, beside)
  BY <1>3, <1>6 DEF ResolveTokens
<1> QED BY <1>5, <1>7, Zenon DEF text

\* What the conflicts between claims leave of a name that is not ambiguous.
LEMMA UnambiguousClaims ==
  ASSUME NEW rows \in Dataset, NEW token, ~Ambiguous(rows, token)
  PROVE  /\ \A l \in CountriesNamed(rows, token) : CountriesNamed(rows, token) = {l}
         /\ Cardinality(RegionsNamed(rows, token)) <= 1
         /\ RegionsNamed(rows, token) # {} => Cardinality(RegionsNamed(rows, token)) = 1
<1>1. CountriesNamed(rows, token) \subseteq Land /\ IsFiniteSet(CountriesNamed(rows, token))
  BY GazetteerAssumption, FS_Subset DEF CountriesNamed
<1>2. IsFiniteSet(RegionsNamed(rows, token))
  BY ClaimsOfTokens
<1>3. /\ Cardinality(CountriesNamed(rows, token)) \in Nat /\ Cardinality(RegionsNamed(rows, token)) \in Nat
      /\ ~(Cardinality(CountriesNamed(rows, token)) > 1) /\ ~(Cardinality(RegionsNamed(rows, token)) > 1)
  BY <1>1, <1>2, FS_CardinalityType DEF Ambiguous
<1>4. ASSUME NEW l \in CountriesNamed(rows, token)
      PROVE  CountriesNamed(rows, token) = {l}
  <2>1. Cardinality(CountriesNamed(rows, token)) # 0
    BY <1>1, FS_EmptySet
  <2>2. Cardinality(CountriesNamed(rows, token)) = 1
    BY <1>3, <2>1
  <2>3. \E x : CountriesNamed(rows, token) = {x}
    BY <1>1, <2>2, FS_Singleton
  <2> QED BY <2>3
<1>5. RegionsNamed(rows, token) # {} => Cardinality(RegionsNamed(rows, token)) # 0
  BY <1>2, FS_EmptySet
<1> QED BY <1>3, <1>4, <1>5

(* No name that two kinds of place claim, or two countries or two regions, *)
(* is resolved on its own, but for a name of a region and a city, which is *)
(* the city; of two cities of a name the larger is taken.                  *)
THEOREM NamesAreNotGuessed == \A rows \in Dataset : NoReadingIsGuessed(rows)
<1> SUFFICES ASSUME NEW rows \in Dataset, NEW token \in PlaceToken,
                    Resolve(rows, BareText(token)).resolved
             PROVE  LET place == Resolve(rows, BareText(token)) IN
                    IF place.city # NoCity
                    THEN CountriesNamed(rows, token) = {} /\ Cardinality(RegionsNamed(rows, token)) <= 1
                    ELSE IF place.region # NoCode
                    THEN /\ CountriesNamed(rows, token) = {} /\ CitiesNamed(rows, token) = {}
                         /\ Cardinality(RegionsNamed(rows, token)) = 1
                    ELSE /\ CountriesNamed(rows, token) = {place.land}
                         /\ RegionsAbbreviated(rows, token) = {}
                         /\ \A r \in RegionsNamed(rows, token) : r.land = place.land
  BY DEF NoReadingIsGuessed
<1> DEFINE place == Resolve(rows, BareText(token))
           lands == CountryByAlias(rows, token)
           regions == RegionByName(rows, token)
           cities == CitiesNamed(rows, token)
<1>0. /\ place = ResolveBare(rows, token, NoLand, FALSE) /\ place.resolved
      /\ InScope(CitiesNamed(rows, token), NoLand) = cities
  BY BareResolution DEF InScope
<1>1. ~Ambiguous(rows, token)
  BY <1>0 DEF ResolveBare, Unresolved
<1>2. /\ \A l \in CountriesNamed(rows, token) : CountriesNamed(rows, token) = {l}
      /\ Cardinality(RegionsNamed(rows, token)) <= 1
      /\ RegionsNamed(rows, token) # {} => Cardinality(RegionsNamed(rows, token)) = 1
  BY <1>1, UnambiguousClaims
<1>3. CASE lands # {}
  <2>1. place = Located(Only(lands), NoCode, NoCity)
    BY <1>0, <1>1, <1>3 DEF ResolveBare, Unresolved
  <2>2. lands = CountriesNamed(rows, token) /\ RegionsAbbreviated(rows, token) = {}
    BY <1>3 DEF CountryByAlias
  <2>3. Only(lands) \in lands
    BY <1>3 DEF Only
  <2>4. CountriesNamed(rows, token) = {place.land} /\ place.city = NoCity /\ place.region = NoCode
    BY <1>2, <2>1, <2>2, <2>3 DEF Located
  <2>5. \A r \in RegionsNamed(rows, token) : r.land = place.land
    BY <1>1, <2>4 DEF Ambiguous, CrossAmbiguous, Demoted
  <2> QED BY <2>2, <2>4, <2>5
<1>4. CASE lands = {} /\ regions # {}
  <2>1. regions = RegionsNamed(rows, token) /\ ~Demoted(rows, token)
    BY <1>4 DEF RegionByName
  <2>2. CountriesNamed(rows, token) = {}
    BY <1>1, <1>4, <2>1, ClaimsOfTokens DEF CountryByAlias
  <2>3. CitiesNamed(rows, token) = {}
    BY <1>4, <2>1, <2>2 DEF Demoted
  <2>4. place = InRegion(Only(regions)) /\ Only(regions) \in regions
    BY <1>0, <1>1, <1>4 DEF ResolveBare, Unresolved, Only
  <2>5. Only(regions) \in RegionRow
    BY <2>1, <2>4 DEF RegionsNamed, Dataset
  <2>6. Canonical(Only(regions).land, Only(regions).raw) # NoCode
    BY <2>5, GazetteerAssumption DEF RegionRow, Canonical
  <2>7. place.city = NoCity /\ place.region # NoCode
    BY <2>4, <2>6 DEF InRegion, Located
  <2> QED BY <1>2, <1>4, <2>1, <2>2, <2>3, <2>7
<1>5. CASE lands = {} /\ regions = {}
  <2>1. place = IF cities = {} THEN Unresolved
                ELSE Located(Largest(cities).land, CityRegion(rows, Largest(cities)), Largest(cities))
    BY <1>0, <1>1, <1>5 DEF ResolveBare, Unresolved
  <2>2. cities # {}
    <3>1. Unresolved.resolved = FALSE
      BY DEF Unresolved
    <3>2. cities = {} => place = Unresolved
      BY <2>1
    <3> HIDE DEF place, cities
    <3> QED BY <1>0, <3>1, <3>2
  <2>3. CountriesNamed(rows, token) = {}
    BY <1>1, <1>5, <2>2, ClaimsOfTokens DEF CountryByAlias
  <2>4. Largest(cities) \in CityRow
    <3>1. cities \in SUBSET rows.cities /\ rows.cities \subseteq CityRow
      BY DEF CitiesNamed, Dataset
    <3>2. IsFiniteSet(cities)
      BY <3>1, FS_Subset DEF Dataset
    <3>3. Largest(cities) \in cities
      BY <2>2, <3>1, <3>2, LargestIsOne
    <3> QED BY <3>1, <3>3
  <2>5. place.city # NoCity
    BY <2>1, <2>2, <2>4, ResolutionAssumption DEF Located
  <2> QED BY <1>2, <2>3, <2>5
<1> QED BY <1>3, <1>4, <1>5

\* Of finitely many regions, one lies in the country with the most people.
LEMMA MostPeopledIsOne ==
  ASSUME NEW rows \in Dataset, NEW regions \in SUBSET rows.regions, regions # {}
  PROVE  MostPeopled(rows, regions) \in regions
<1> DEFINE people == [r \in RegionRow |-> KnownPeople(rows, r.land)]
           numbers == {people[r] : r \in regions}
<1>0. regions \subseteq RegionRow /\ IsFiniteSet(regions)
  BY FS_Subset DEF Dataset
<1>1. \A r \in RegionRow : people[r] \in Nat /\ people[r] = KnownPeople(rows, r.land)
  BY GazetteerAssumption DEF RegionRow, KnownPeople
<1> HIDE DEF people
<1>2. numbers \subseteq Nat /\ numbers # {} /\ IsFiniteSet(numbers)
  BY <1>0, <1>1, ImageIsFinite
<1>3. PICK n \in numbers : \A m \in numbers : m <= n
  <2> HIDE DEF numbers
  <2> QED BY <1>2, LargestOf
<1>4. \E r \in regions : \A s \in regions : KnownPeople(rows, s.land) <= KnownPeople(rows, r.land)
  BY <1>0, <1>1, <1>3
<1> QED BY <1>4 DEF MostPeopled

\* A city that is resolved to lies in the place it is resolved to.
CityLiesThere(rows, place) ==
  place.city # NoCity =>
    place.city.land = place.land /\ place.region \in {NoCode, CityRegion(rows, place.city)}

LEMMA BareCityLiesThere ==
  ASSUME NEW rows, NEW token, NEW scope, NEW noise
  PROVE  CityLiesThere(rows, ResolveBare(rows, token, scope, noise))
  BY DEF ResolveBare, CityLiesThere, Located, InRegion, Unresolved

LEMMA TailCityLiesThere ==
  ASSUME NEW rows \in Dataset, NEW head, NEW tail
  PROVE  CityLiesThere(rows, ResolveTail(rows, head, tail))
<1>1. ASSUME NEW land, NEW region, NEW token, CityWithin(rows, token, land, region) # NoCity
      PROVE  LET c == CityWithin(rows, token, land, region) IN
             c.land = land /\ region \in {NoCode, CityRegion(rows, c)}
  <2> DEFINE found == {c \in CitiesNamed(rows, token) :
                         c.land = land /\ region \in {NoCode, CityRegion(rows, c)}}
  <2>1. Cardinality(found) = 1 /\ CityWithin(rows, token, land, region) = Only(found)
    BY <1>1 DEF CityWithin
  <2>2. IsFiniteSet(found)
    <3>1. found \in SUBSET rows.cities /\ IsFiniteSet(rows.cities)
      BY DEF CitiesNamed, Dataset
    <3> QED BY <3>1, FS_Subset
  <2>3. found # {}
    BY <2>1, <2>2, FS_EmptySet
  <2>4. Only(found) \in found
    BY <2>3 DEF Only
  <2> QED BY <2>1, <2>4
<1>2. ASSUME NEW land, NEW region, NEW token
      PROVE  CityLiesThere(rows, Located(land, region, CityWithin(rows, token, land, region)))
  BY <1>1 DEF CityLiesThere, Located
<1>3. CityLiesThere(rows, Unresolved)
  BY DEF CityLiesThere, Unresolved
<1> QED BY <1>2, <1>3 DEF ResolveTail

\* The token that says where, and the one that may say more of it, are kept.
TailKept(rows, place, where, near) ==
  IF RegionsAbbreviated(rows, where) # {}
  THEN \E r \in RegionsAbbreviated(rows, where) : InRegion(r) = [place EXCEPT !.city = NoCity]
  ELSE IF CountriesNamed(rows, where) = {}
  THEN \E r \in RegionsNamed(rows, where) : InRegion(r) = [place EXCEPT !.city = NoCity]
  ELSE LET inside == {r \in RegionByAny(rows, near) : r.land = place.land} IN
       /\ place.land \in CountriesNamed(rows, where)
       /\ inside # {} => \E r \in inside : InRegion(r).region = place.region

LEMMA TailHolds ==
  ASSUME NEW rows \in Dataset, NEW near, NEW last, ResolveTail(rows, <<near>>, last).resolved
  PROVE  TailKept(rows, ResolveTail(rows, <<near>>, last), last, near)
<1> DEFINE lands == CountryByAlias(rows, last)
           regions == RegionByAny(rows, last)
           most == MostPeopled(rows, regions)
           known == IF lands # {} THEN Located(Only(lands), NoCode, NoCity) ELSE InRegion(most)
           scoped == {r \in RegionByAny(rows, near) : r.land = known.land}
           region == IF known.region = NoCode /\ scoped # {} THEN InRegion(Only(scoped)).region ELSE known.region
           city == CityWithin(rows, near, known.land, region)
           place == ResolveTail(rows, <<near>>, last)
<1>0. <<near>>[Len(<<near>>)] = near /\ <<near>>[1] = near
  OBVIOUS
<1>1. ~ (lands = {} /\ regions = {}) /\ place = Located(known.land, region, city)
  <2>1. Unresolved.resolved = FALSE
    BY DEF Unresolved
  <2>2. place = IF lands = {} /\ regions = {} THEN Unresolved ELSE Located(known.land, region, city)
    BY <1>0 DEF ResolveTail
  <2> HIDE DEF place, lands, regions, known, region, city
  <2> QED BY <2>1, <2>2 DEF place
<1>2. regions \subseteq rows.regions
  BY DEF RegionByAny, RegionsAbbreviated, RegionsNamed
<1>3. lands = {} => most \in regions /\ most \in RegionRow
  BY <1>1, <1>2, MostPeopledIsOne DEF Dataset
<1>4. ASSUME lands = {}
      PROVE  [place EXCEPT !.city = NoCity] = InRegion(most)
  <2>1. known = InRegion(most)
    BY <1>4
  <2>2. known.region # NoCode
    <3>1. Canonical(most.land, most.raw) # NoCode
      BY <1>3, <1>4, GazetteerAssumption DEF RegionRow, Canonical
    <3> QED BY <2>1, <3>1 DEF InRegion, Located
  <2>3. region = known.region
    BY <2>2
  <2> HIDE DEF known, region, most, city
  <2>4. place = Located(known.land, known.region, city)
    BY <1>1, <2>3
  <2>5. PICK yes : yes = TRUE
    OBVIOUS
  <2>6. InRegion(most) = [resolved |-> yes, land |-> known.land, region |-> known.region, city |-> NoCity]
    BY <2>1, <2>5, Zenon DEF Located, InRegion
  <2>7. place = [resolved |-> yes, land |-> known.land, region |-> known.region, city |-> city]
    BY <2>4, <2>5, Zenon DEF Located
  <2> HIDE DEF place
  <2> QED BY <2>6, <2>7, SMT
<1>5. CASE RegionsAbbreviated(rows, last) # {}
  <2>1. lands = {} /\ RegionsNamed(rows, last) = {}
    BY <1>5, ClaimsOfTokens DEF CountryByAlias
  <2>2. most \in RegionsAbbreviated(rows, last)
    BY <1>3, <2>1 DEF RegionByAny
  <2> HIDE DEF place, most
  <2> QED BY <1>4, <1>5, <2>1, <2>2 DEF TailKept, place
<1>6. CASE RegionsAbbreviated(rows, last) = {}
  <2>1. ~Ambiguous(rows, last)
    BY <1>1, <1>6 DEF CountryByAlias, RegionByAny
  <2>2. lands = CountriesNamed(rows, last) /\ regions = RegionsNamed(rows, last)
    BY <1>6, <2>1 DEF CountryByAlias, RegionByAny
  <2>3. CASE lands = {}
    <3>1. CountriesNamed(rows, last) = {} /\ most \in RegionsNamed(rows, last)
      BY <1>3, <2>2, <2>3
    <3> HIDE DEF place, most
    <3> QED BY <1>4, <1>6, <2>3, <3>1 DEF TailKept, place
  <2>4. CASE lands # {}
    <3>1. known.land = Only(lands) /\ known.region = NoCode /\ Only(lands) \in lands
      BY <2>4 DEF Located, Only
    <3>2. place.land = known.land /\ place.region = region
      <4> HIDE DEF place, known, region, city
      <4> QED BY <1>1 DEF Located
    <3>3. scoped # {} => Only(scoped) \in scoped /\ region = InRegion(Only(scoped)).region
      BY <3>1 DEF Only
    <3>4. place.land \in CountriesNamed(rows, last)
      BY <2>2, <3>1, <3>2
    <3> DEFINE inside == {r \in RegionByAny(rows, near) : r.land = place.land}
    <3>5. inside = scoped
      <4> HIDE DEF place, known
      <4> QED BY <3>2
    <3>6. inside # {} => \E r \in inside : InRegion(r).region = place.region
      <4> HIDE DEF inside, scoped, region, place
      <4> QED BY <3>2, <3>3, <3>5
    <3> HIDE DEF place
    <3> QED BY <1>6, <3>4, <3>6 DEF TailKept, place
  <2> QED BY <2>3, <2>4
<1> QED BY <1>5, <1>6

\* What pairs are made of.
LEMMA PairIs ==
  ASSUME NEW a, NEW b
  PROVE  /\ Len(<<a, b>>) = 2 /\ <<a, b>>[1] = a /\ <<a, b>>[2] = b /\ <<a, b>> # <<>>
         /\ Len(<<a>>) = 1 /\ <<a>>[1] = a
         /\ SubSeq(<<a, b>>, 1, 1) = <<a>>
         /\ Tail(<<a, b>>) = <<b>>
<1>1. /\ Len(<<a, b>>) = 2 /\ <<a, b>>[1] = a /\ <<a, b>>[2] = b /\ <<a, b>> # <<>>
      /\ Len(<<a>>) = 1 /\ <<a>>[1] = a
  OBVIOUS
<1> DEFINE S == {a, b}
<1>2. <<a, b>> \in Seq(S) /\ <<b>> \in Seq(S) /\ <<a>> \in Seq(S)
  OBVIOUS
<1>3. SubSeq(<<a, b>>, 1, 1) = <<a>>
  <2> DEFINE s == SubSeq(<<a, b>>, 1, 1)
  <2>1. s \in Seq(S) /\ Len(s) = 1 /\ s[1] = a
    BY <1>1, <1>2
  <2>2. s = <<a>>
    <3> HIDE DEF s, S
    <3> QED BY <1>1, <1>2, <2>1
  <2> QED BY <2>2
<1>4. Tail(<<a, b>>) = <<b>>
  <2> DEFINE s == Tail(<<a, b>>)
  <2>1. s \in Seq(S) /\ Len(s) = 1 /\ s[1] = b
    BY <1>1, <1>2
  <2> HIDE DEF s, S
  <2> QED BY <2>1, <1>2
<1> QED BY <1>1, <1>3, <1>4

LEMMA ResolveTwo ==
  ASSUME NEW rows, NEW a, NEW b, NEW scope, NEW noise
  PROVE  ResolveTokens(rows, <<a, b>>, scope, noise) = ResolveTail(rows, <<a>>, b)
<1> DEFINE s == <<a, b>>
<1>1. Len(s) = 2 /\ s[2] = b /\ SubSeq(s, 1, 1) = <<a>>
  BY PairIs
<1> HIDE DEF s
<1>2. Len(s) - 1 = 1 /\ Len(s) # 1
  BY <1>1
<1>3. ResolveTokens(rows, s, scope, noise) = ResolveTail(rows, <<a>>, b)
  BY <1>1, <1>2, Zenon DEF ResolveTokens
<1> QED BY <1>3 DEF s

\* Words that are no name say nothing.
LEMMA UnlistedClaims ==
  ASSUME NEW rows \in Dataset
  PROVE  /\ CountryByAlias(rows, Unlisted) = {} /\ RegionByAny(rows, Unlisted) = {}
         /\ RegionByName(rows, Unlisted) = {} /\ CitiesNamed(rows, Unlisted) = {}
         /\ RegionsAbbreviated(rows, Unlisted) = {}
<1>1. Unlisted \notin PlaceName /\ Unlisted \notin PlaceCode
  BY ResolutionAssumption
<1>2. RegionsAbbreviated(rows, Unlisted) = {}
  BY <1>1 DEF RegionsAbbreviated, Abbreviates
<1>3. RegionsNamed(rows, Unlisted) = {}
  BY <1>1 DEF RegionsNamed, Dataset, RegionRow
<1>4. CitiesNamed(rows, Unlisted) = {}
  BY <1>1 DEF CitiesNamed, CityAliases, Dataset, CityRow
<1>5. CountriesNamed(rows, Unlisted) = {}
  BY <1>1, GazetteerAssumption DEF CountriesNamed, CountryAliases, Dataset
<1> QED BY <1>2, <1>3, <1>4, <1>5 DEF CountryByAlias, RegionByAny, RegionByName

LEMMA UnlistedIsUnresolved ==
  ASSUME NEW rows \in Dataset, NEW scope, NEW noise
  PROVE  ResolveBare(rows, Unlisted, scope, noise) = Unresolved
BY UnlistedClaims DEF ResolveBare, InScope

\* A country that stands alone after the others.
LEMMA BareCountryHolds ==
  ASSUME NEW rows \in Dataset, NEW token, CountryByAlias(rows, token) # {},
         ResolveBare(rows, token, NoLand, FALSE).resolved
  PROVE  TailKept(rows, ResolveBare(rows, token, NoLand, FALSE), token, Unlisted)
<1> DEFINE place == ResolveBare(rows, token, NoLand, FALSE)
           lands == CountryByAlias(rows, token)
<1>1. lands = CountriesNamed(rows, token) /\ RegionsAbbreviated(rows, token) = {}
  BY DEF CountryByAlias
<1>2. place # Unresolved
  <2>1. Unresolved.resolved = FALSE /\ place.resolved
    BY DEF Unresolved
  <2> HIDE DEF place
  <2> QED BY <2>1
<1>3. place = Located(Only(lands), NoCode, NoCity)
  BY <1>2 DEF ResolveBare
<1>4. Only(lands) \in lands
  BY DEF Only
<1> HIDE DEF place, lands
<1>5. place.land = Only(lands)
  BY <1>3 DEF Located
<1>6. place.land \in CountriesNamed(rows, token)
  BY <1>1, <1>4, <1>5
<1> QED BY <1>1, <1>6, UnlistedClaims DEF TailKept, place

\* A token after a country's prefix is looked up in that country, unless it may
\* be a region's abbreviation.
LEMMA BareInScope ==
  ASSUME NEW rows \in Dataset, NEW token, NEW scope \in Land, NEW noise, token \in PlaceName \/ ~noise,
         ResolveBare(rows, token, scope, noise).resolved
  PROVE  ResolveBare(rows, token, scope, noise).land = scope
<1> DEFINE place == ResolveBare(rows, token, scope, noise)
           lands == CountryByAlias(rows, token)
           regions == RegionByName(rows, token)
           cities == InScope(CitiesNamed(rows, token), scope)
<1>1. scope # NoLand /\ (IF noise THEN RegionsAbbreviated(rows, token) ELSE {}) = {}
  BY ResolutionAssumption, GazetteerAssumption DEF RegionsAbbreviated, Abbreviates
<1>2. ~Ambiguous(rows, token) /\ place # Unresolved
  BY DEF ResolveBare, Unresolved
<1>3. CASE lands # {}
  <2>1. scope \in lands /\ place = Located(Only(lands), NoCode, NoCity)
    BY <1>1, <1>2, <1>3 DEF ResolveBare
  <2>2. lands = {scope}
    BY <1>2, <2>1, UnambiguousClaims DEF CountryByAlias
  <2> QED BY <2>1, <2>2 DEF Only, Located
<1>4. CASE lands = {} /\ regions # {}
  <2>1. scope = Only(regions).land /\ place = InRegion(Only(regions))
    BY <1>1, <1>2, <1>4 DEF ResolveBare
  <2> QED BY <2>1 DEF InRegion, Located
<1>5. CASE lands = {} /\ regions = {}
  <2>1. /\ cities # {}
        /\ place = Located(Largest(cities).land, CityRegion(rows, Largest(cities)), Largest(cities))
    BY <1>1, <1>2, <1>5 DEF ResolveBare
  <2>2. cities \in SUBSET rows.cities /\ \A c \in cities : c.land = scope
    BY <1>1 DEF InScope, CitiesNamed
  <2>3. Largest(cities) \in cities
    <3>1. IsFiniteSet(cities) /\ cities \in SUBSET CityRow
      BY <2>2, FS_Subset DEF Dataset
    <3> QED BY <2>1, <3>1, LargestIsOne
  <2> QED BY <2>1, <2>2, <2>3 DEF Located
<1> QED BY <1>3, <1>4, <1>5

LEMMA FormOfText ==
  ASSUME NEW text \in PlaceText
  PROVE  /\ text.tokens \in Seq(PlaceToken) /\ Len(text.tokens) \in 0 .. 2 /\ text.noise \in 0 .. 2
         /\ text.dashed => /\ text.prefix = NoCode
                           /\ \E a \in PlaceName, b \in PlaceToken : text.tokens = <<a, b>>
<1>1. CASE text \in [prefix : PlaceCode \cup {NoCode}, noise : 0 .. 2, dashed : {FALSE},
                     tokens : UNION {[1 .. m -> PlaceToken] : m \in 0 .. 2}]
  <2>1. text.tokens \in UNION {[1 .. m -> PlaceToken] : m \in 0 .. 2} /\ ~text.dashed /\ text.noise \in 0 .. 2
    BY <1>1
  <2>2. PICK m \in 0 .. 2 : text.tokens \in [1 .. m -> PlaceToken]
    BY <2>1
  <2>3. text.tokens \in Seq(PlaceToken) /\ Len(text.tokens) = m
    BY <2>2
  <2> QED BY <2>1, <2>3
<1>2. CASE text \in [prefix : {NoCode}, noise : 0 .. 2, dashed : {TRUE}, tokens : PlaceName \X PlaceToken]
  <2>1. text.tokens \in PlaceName \X PlaceToken /\ text.prefix = NoCode /\ text.noise \in 0 .. 2
    BY <1>2
  <2>2. PICK a \in PlaceName, b \in PlaceToken : text.tokens = <<a, b>>
    BY <2>1
  <2>3. a \in PlaceToken /\ b \in PlaceToken
    BY DEF PlaceToken
  <2>4. <<a, b>> \in Seq(PlaceToken) /\ Len(<<a, b>>) = 2
    BY <2>3
  <2> QED BY <2>1, <2>2, <2>4
<1> QED BY <1>1, <1>2 DEF PlaceText

\* Two tokens between commas: the second says where.
LEMMA CommasHold ==
  ASSUME NEW rows \in Dataset, NEW text \in PlaceText, Resolve(rows, text).resolved,
         Len(text.tokens) = 2, ~text.dashed
  PROVE  TailKept(rows, Resolve(rows, text), Where(rows, text), Inside(rows, text))
<1> DEFINE words == Words(text, text.tokens)
           scope == IF CountryByPrefix(text.prefix) = {} THEN NoLand ELSE Only(CountryByPrefix(text.prefix))
           beside == text.noise # 0
           near == Inside(rows, text)
           last == text.tokens[2]
           place == Resolve(rows, text)
<1>1. text.tokens = <<text.tokens[1], last>>
  BY FormOfText
<1>2. Where(rows, text) = last
  BY DEF Where, Reversed
<1>3. near = IF StrayPrefix(text) THEN Unlisted ELSE text.tokens[1]
  BY DEF Inside, Reversed
<1>4. words = <<near, last>>
  <2> DEFINE head == text.tokens[1]
  <2> HIDE DEF last, head
  <2>1. text.tokens = <<head, last>>
    BY <1>1 DEF head, last
  <2>2. Tail(text.tokens) = <<last>> /\ Len(text.tokens) = 2
    BY <2>1, PairIs
  <2>3. <<Unlisted>> \o <<last>> = <<Unlisted, last>>
    <3> DEFINE s == <<Unlisted>> \o <<last>>
               S == {Unlisted, last}
    <3>1. /\ <<Unlisted>> \in Seq(S) /\ <<last>> \in Seq(S) /\ <<Unlisted, last>> \in Seq(S)
          /\ Len(<<Unlisted>>) = 1 /\ Len(<<last>>) = 1
      OBVIOUS
    <3>2. s \in Seq(S) /\ Len(s) = 2 /\ s[1] = Unlisted /\ s[2] = last
      BY <3>1
    <3>3. s = <<Unlisted, last>>
      <4> HIDE DEF s, S
      <4> QED BY <3>1, <3>2
    <3> QED BY <3>3
  <2>4. near = IF StrayPrefix(text) THEN Unlisted ELSE head
    BY <1>3 DEF head
  <2> HIDE DEF near
  <2> QED BY <2>1, <2>2, <2>3, <2>4 DEF Words
<1> HIDE DEF words, scope, beside, near, last
<1>5. words # <<>>
  BY <1>4, PairIs
<1>6. place = ResolveTokens(rows, words, scope, beside)
  BY <1>5 DEF Resolve, words, scope, beside
<1>7. place = ResolveTail(rows, <<near>>, last)
  BY <1>4, <1>6, ResolveTwo
<1> HIDE DEF place
<1>8. TailKept(rows, place, last, near)
  BY <1>7, TailHolds DEF place
<1> QED BY <1>2, <1>8 DEF place, near

\* Two tokens between dashes: a country that comes first says where.
LEMMA DashesHold ==
  ASSUME NEW rows \in Dataset, NEW text \in PlaceText, Resolve(rows, text).resolved, text.dashed
  PROVE  TailKept(rows, Resolve(rows, text), Where(rows, text), Inside(rows, text))
<1>0. /\ text.prefix = NoCode /\ text.noise \in 0 .. 2
      /\ \E a \in PlaceName, b \in PlaceToken : text.tokens = <<a, b>>
  BY FormOfText
<1>1. PICK a \in PlaceName, b \in PlaceToken : text.tokens = <<a, b>>
  BY <1>0
<1> DEFINE scope == IF CountryByPrefix(text.prefix) = {} THEN NoLand ELSE Only(CountryByPrefix(text.prefix))
           beside == text.noise # 0
           place == Resolve(rows, text)
           first == IF text.noise = 1 THEN Unlisted ELSE a
           second == IF text.noise = 2 THEN Unlisted ELSE b
           written == <<first, second>>
           reversed == Reversed(rows, text)
<1>2. ~StrayPrefix(text)
  BY <1>0 DEF StrayPrefix
<1>3. Words(text, text.tokens) = <<a, b>> /\ Words(text, AsWritten(text)) = written
  <2>1. AsWritten(text) = written
    <3>1. DOMAIN text.tokens = {1, 2}
      BY <1>1
    <3>2. AsWritten(text) = [i \in {1, 2} |-> IF i = text.noise THEN Unlisted ELSE text.tokens[i]]
      BY <3>1 DEF AsWritten
    <3>3. /\ \A i \in {1, 2} : AsWritten(text)[i] = written[i]
          /\ DOMAIN AsWritten(text) = {1, 2} /\ AsWritten(text) = [i \in {1, 2} |-> AsWritten(text)[i]]
      BY <1>1, <3>2
    <3>4. DOMAIN written = {1, 2} /\ written = [i \in {1, 2} |-> written[i]]
      OBVIOUS
    <3> HIDE DEF written
    <3> QED BY <3>3, <3>4
  <2> QED BY <1>1, <1>2, <2>1 DEF Words
<1>4. reversed <=> text.noise # 1 /\ CountryByAlias(rows, a) # {}
  BY <1>1 DEF Reversed
<1>5. /\ Where(rows, text) = IF reversed THEN a ELSE b
      /\ Inside(rows, text) = IF reversed THEN second ELSE Unlisted
  <2>1. text.tokens[1] = a /\ text.tokens[2] = b
    BY <1>1
  <2> HIDE DEF reversed
  <2> QED BY <2>1 DEF Where, Inside, reversed
<1> HIDE DEF scope, beside
<1>6. place = IF CountryFirst(rows, written) # {}
              THEN ResolveTokens(rows, FromCountry(rows, written), NoLand, FALSE)
              ELSE ResolveTokens(rows, Blanked(<<a, b>>), scope, beside)
  <2> HIDE DEF written
  <2>1. <<a, b>> # <<>>
    OBVIOUS
  <2> QED BY <1>3, <2>1, Zenon DEF Resolve, scope, beside
<1>7. CountryFirst(rows, written) =
        {i \in {1, 2} : written[i] \in PlaceName /\ CountryByAlias(rows, written[i]) # {}}
  BY DEF CountryFirst
<1>8. Unlisted \notin PlaceName /\ RegionByAny(rows, Unlisted) = {}
  BY ResolutionAssumption, UnlistedClaims
<1>9. CASE reversed
  <2>1. 1 \in CountryFirst(rows, written) /\ first = a
    BY <1>4, <1>7, <1>9
  <2>2. (CHOOSE i \in CountryFirst(rows, written) : \A j \in CountryFirst(rows, written) : i <= j) = 1
    <3>1. CountryFirst(rows, written) \subseteq {1, 2}
      BY <1>7
    <3> QED BY <2>1, <3>1
  <2>3. FromCountry(rows, written) = <<second, a>>
    <3>1. FromCountry(rows, written) = [i \in 1 .. 2 |-> written[3 - i]]
      <4> DEFINE lead == CHOOSE i \in CountryFirst(rows, written) :
                           \A j \in CountryFirst(rows, written) : i <= j
      <4>1. Len(written) = 2
        BY PairIs
      <4> HIDE DEF written
      <4>2. FromCountry(rows, written) =
              [i \in 1 .. (Len(written) + 1 - lead) |-> written[Len(written) + 1 - i]]
        BY Zenon DEF FromCountry, lead
      <4>3. lead = 1
        BY <2>2 DEF lead
      <4> HIDE DEF lead
      <4> QED BY <4>1, <4>2, <4>3
    <3>2. written[1] = a /\ written[2] = second
      BY <2>1
    <3> HIDE DEF written, second, first
    <3>3. \A i \in 1 .. 2 : written[3 - i] = <<second, a>>[i]
      BY <3>2
    <3> QED BY <3>1, <3>3
  <2> DEFINE turned == <<second, a>>
  <2> HIDE DEF turned, second, written, reversed
  <2>4. place = ResolveTokens(rows, turned, NoLand, FALSE)
    BY <1>6, <2>1, <2>3 DEF turned
  <2>5. place = ResolveTail(rows, <<second>>, a)
    BY <2>4, ResolveTwo DEF turned
  <2> HIDE DEF place
  <2>6. TailKept(rows, place, a, second)
    BY <2>5, TailHolds DEF place
  <2> QED BY <1>5, <1>9, <2>6 DEF place
<1>10. CASE ~reversed /\ CountryFirst(rows, written) # {}
  <2>1. CountryFirst(rows, written) = {2} /\ second = b /\ CountryByAlias(rows, b) # {}
    BY <1>4, <1>7, <1>8, <1>10
  <2>2. (CHOOSE i \in CountryFirst(rows, written) : \A j \in CountryFirst(rows, written) : i <= j) = 2
    BY <2>1
  <2>3. FromCountry(rows, written) = <<b>>
    <3>1. FromCountry(rows, written) = [i \in 1 .. 1 |-> written[3 - i]]
      <4> DEFINE lead == CHOOSE i \in CountryFirst(rows, written) :
                           \A j \in CountryFirst(rows, written) : i <= j
      <4>1. Len(written) = 2
        BY PairIs
      <4> HIDE DEF written
      <4>2. FromCountry(rows, written) =
              [i \in 1 .. (Len(written) + 1 - lead) |-> written[Len(written) + 1 - i]]
        BY Zenon DEF FromCountry, lead
      <4>3. lead = 2
        BY <2>2 DEF lead
      <4> HIDE DEF lead
      <4> QED BY <4>1, <4>2, <4>3
    <3>2. written[2] = b
      BY <2>1
    <3> HIDE DEF written
    <3>3. \A i \in 1 .. 1 : written[3 - i] = <<b>>[i]
      BY <3>2
    <3> QED BY <3>1, <3>3
  <2>4. Len(<<b>>) = 1 /\ <<b>>[1] = b
    OBVIOUS
  <2> HIDE DEF written, second, reversed
  <2>5. place = ResolveBare(rows, b, NoLand, FALSE)
    <3>1. place = ResolveTokens(rows, <<b>>, NoLand, FALSE)
      BY <1>6, <1>10, <2>3
    <3> QED BY <2>4, <3>1 DEF ResolveTokens
  <2> HIDE DEF place
  <2>6. TailKept(rows, place, b, Unlisted)
    BY <2>1, <2>5, BareCountryHolds DEF place
  <2> QED BY <1>5, <1>10, <2>6 DEF place
<1>11. CASE ~reversed /\ CountryFirst(rows, written) = {}
  <2>1. place = ResolveTokens(rows, Blanked(<<a, b>>), scope, beside)
    BY <1>6, <1>11
  <2> HIDE DEF written, reversed
  <2>2. Blanked(<<a, b>>) = IF b \in PlaceCode THEN <<a, b>> ELSE <<Unlisted>>
    BY DEF Blanked
  <2>3. b \in PlaceCode
    <3> SUFFICES ASSUME b \notin PlaceCode PROVE FALSE
      OBVIOUS
    <3>1. Len(<<Unlisted>>) = 1 /\ <<Unlisted>>[1] = Unlisted
      OBVIOUS
    <3>2. place = ResolveBare(rows, Unlisted, scope, beside)
      BY <2>1, <2>2, <3>1 DEF ResolveTokens
    <3>3. place = Unresolved
      BY <3>2, UnlistedIsUnresolved
    <3> QED BY <3>3 DEF Unresolved
  <2>4. place = ResolveTokens(rows, <<a, b>>, scope, beside)
    BY <2>1, <2>2, <2>3
  <2> HIDE DEF place
  <2>5. place = ResolveTail(rows, <<a>>, b)
    BY <2>4, ResolveTwo
  <2>6. TailKept(rows, place, b, a)
    BY <2>5, TailHolds DEF place
  <2>7. TailKept(rows, place, b, Unlisted)
    BY <1>8, <2>6 DEF TailKept
  <2> QED BY <1>5, <1>11, <2>7 DEF place
<1> QED BY <1>9, <1>10, <1>11

\* After a country's prefix.
LEMMA PrefixHolds ==
  ASSUME NEW rows \in Dataset, NEW text \in PlaceText, Resolve(rows, text).resolved,
         Len(text.tokens) = 1, CountryByPrefix(text.prefix) # {},
         text.tokens[1] \in PlaceName \/ text.noise = 0
  PROVE  Resolve(rows, text).land \in CountryByPrefix(text.prefix)
<1> DEFINE words == Words(text, text.tokens)
           dashed == text.dashed \/ (StrayPrefix(text) /\ Len(text.tokens) = 1)
           scope == IF CountryByPrefix(text.prefix) = {} THEN NoLand ELSE Only(CountryByPrefix(text.prefix))
           beside == text.noise # 0
           token == text.tokens[1]
           place == Resolve(rows, text)
<1>1. /\ text.tokens \in Seq(PlaceToken)
      /\ text.dashed => \E a \in PlaceName, b \in PlaceToken : text.tokens = <<a, b>>
  BY FormOfText
<1>2. ~StrayPrefix(text) /\ words = text.tokens /\ ~dashed /\ words # <<>> /\ Len(words) = 1
  <2>1. ~StrayPrefix(text)
    BY DEF StrayPrefix
  <2>2. ~text.dashed
    BY <1>1, PairIs
  <2>3. text.tokens # <<>>
    BY <1>1
  <2> QED BY <2>1, <2>2, <2>3 DEF Words
<1>3. token \in PlaceName \/ ~beside
  OBVIOUS
<1> HIDE DEF words, dashed, beside
<1>4. place = ResolveTokens(rows, words, scope, beside)
  BY <1>2 DEF Resolve, words, dashed, beside
<1>5. place = ResolveBare(rows, token, scope, beside)
  BY <1>2, <1>4 DEF ResolveTokens
<1>6. scope \in CountryByPrefix(text.prefix) /\ scope \in Land
  BY DEF Only, CountryByPrefix
<1> HIDE DEF scope
<1>7. ResolveBare(rows, token, scope, beside).land = scope
  BY <1>3, <1>5, <1>6, BareInScope
<1> QED BY <1>5, <1>6, <1>7

(* What a text of one or two tokens says of the country and the region is  *)
(* kept, in every dataset: behind a prefix, between commas or dashes, and  *)
(* with a country that comes first; not for a code beside a word like      *)
(* "office".                                                               *)
THEOREM HintsAreKept == \A rows \in Dataset : HintsAreHonoured(rows)
<1> SUFFICES ASSUME NEW rows \in Dataset, NEW text \in PlaceText, Resolve(rows, text).resolved
             PROVE  LET place == Resolve(rows, text)
                        n == Len(text.tokens)
                        where == Where(rows, text)
                        inside == {r \in RegionByAny(rows, Inside(rows, text)) : r.land = place.land} IN
                    /\ CityLiesThere(rows, place)
                    /\ (n = 1 /\ CountryByPrefix(text.prefix) # {}
                          /\ (text.tokens[1] \in PlaceName \/ text.noise = 0)) =>
                         place.land \in CountryByPrefix(text.prefix)
                    /\ (n = 2 /\ RegionsAbbreviated(rows, where) # {}) =>
                         \E r \in RegionsAbbreviated(rows, where) : InRegion(r) = [place EXCEPT !.city = NoCity]
                    /\ (n = 2 /\ RegionsAbbreviated(rows, where) = {}) =>
                         IF CountriesNamed(rows, where) = {}
                         THEN \E r \in RegionsNamed(rows, where) : InRegion(r) = [place EXCEPT !.city = NoCity]
                         ELSE /\ place.land \in CountriesNamed(rows, where)
                              /\ inside # {} => \E r \in inside : InRegion(r).region = place.region
  BY DEF HintsAreHonoured, CityLiesThere
<1> DEFINE scope == IF CountryByPrefix(text.prefix) = {} THEN NoLand ELSE Only(CountryByPrefix(text.prefix))
           place == Resolve(rows, text)
<1>1. \A tokens, within, noise : CityLiesThere(rows, ResolveTokens(rows, tokens, within, noise))
  BY BareCityLiesThere, TailCityLiesThere DEF ResolveTokens
<1>2. CityLiesThere(rows, place)
  <2>1. CityLiesThere(rows, Located(scope, NoCode, NoCity))
    BY DEF CityLiesThere, Located
  <2> QED BY <1>1, <2>1, Zenon DEF Resolve
<1>3. Len(text.tokens) = 2 => TailKept(rows, place, Where(rows, text), Inside(rows, text))
  BY CommasHold, DashesHold
<1> HIDE DEF place
<1> QED BY <1>2, <1>3, PrefixHolds DEF TailKept, place
=============================================================================
