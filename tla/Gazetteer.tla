------------------------------ MODULE Gazetteer ------------------------------
(***************************************************************************)
(* The location dataset: what build_geodata makes of the countries,        *)
(* regions and cities of GeoNames, and what the engine's index holds.      *)
(*                                                                         *)
(* Names claimed by several places are the point of it.  A claim is either *)
(* refused (the name is ambiguous), demoted to the tail of an address, or  *)
(* left to the order of the look-ups.  Names and two-letter codes are      *)
(* tokens; a place is its row.                                             *)
(***************************************************************************)
EXTENDS Integers, FiniteSets

CONSTANTS
  Land, PlaceName, PlaceCode,
  Iso,          \* the country code of each land
  StatePostal,  \* US_STATE_POSTAL_CODES
  AreaNumber,   \* numeric admin1 codes
  PostalOf,     \* _REGION_POSTAL_CODE_OVERRIDES: of a land's numeric code
  People,       \* population of each land
  CitySize,     \* populations of cities
  NoCode

ASSUME GazetteerAssumption ==
  /\ IsFiniteSet(Land)
  /\ Iso \in [Land -> PlaceCode] /\ \A l, m \in Land : Iso[l] = Iso[m] => l = m
  /\ PostalOf \in [Land \X AreaNumber -> PlaceCode \cup {NoCode}]
  /\ People \in [Land -> Nat] /\ CitySize \subseteq Nat
  /\ NoCode \notin PlaceCode \cup AreaNumber /\ PlaceName \cap PlaceCode = {}

\* The three files, parsed.
RegionRow == [land : Land, raw : PlaceCode \cup AreaNumber, full : PlaceName]
CityRow == [land : Land, raw : PlaceCode \cup AreaNumber \cup {NoCode}, name : PlaceName,
            other : SUBSET PlaceName, people : CitySize]

Dataset ==
  {rows \in [names : [Land -> SUBSET PlaceName], regions : SUBSET RegionRow, cities : SUBSET CityRow] :
     IsFiniteSet(rows.regions) /\ IsFiniteSet(rows.cities)}

-----------------------------------------------------------------------------
(* Claims: what each row calls itself                                      *)

CountryAliases(rows, land) == {Iso[land]} \cup rows.names[land]

\* _canonical_region_code: a curated postal code, unless a country's code is the same.
Canonical(land, raw) ==
  IF raw \in AreaNumber /\ PostalOf[land, raw] \notin {NoCode} \cup {Iso[l] : l \in Land}
  THEN PostalOf[land, raw] ELSE raw

\* The registered abbreviation, if that is what the code is.
Abbreviates(region, token) == token \in PlaceCode /\ Canonical(region.land, region.raw) = token

\* Alternate names do not claim a country's name.
CityAliases(rows, city) ==
  {city.name} \cup {a \in city.other : \A l \in Land : a \notin CountryAliases(rows, l)}

\* The code a city is narrowed by, when its region is known.
CityRegion(rows, city) ==
  IF \E r \in rows.regions : r.land = city.land /\ r.raw = city.raw
  THEN Canonical(city.land, city.raw) ELSE NoCode

CountriesNamed(rows, token) == {l \in Land : token \in CountryAliases(rows, l)}
RegionsNamed(rows, token) == {r \in rows.regions : r.full = token}
RegionsAbbreviated(rows, token) == {r \in rows.regions : Abbreviates(r, token)}
CitiesNamed(rows, token) == {c \in rows.cities : token \in CityAliases(rows, c)}

-----------------------------------------------------------------------------
(* Conflicts between claims                                                *)

\* _classify_cross_type_ambiguity: a region leaves its bare name to a city, or
\* to the country it lies in.
Demoted(rows, token) ==
  LET lands == CountriesNamed(rows, token)
      regions == RegionsNamed(rows, token)
      cities == CitiesNamed(rows, token) IN
  /\ regions # {}
  /\ \/ lands = {} /\ cities # {}
     \/ lands # {} /\ cities = {} /\ {r.land : r \in regions} \subseteq lands

\* A country and a region, unless demoted.  (As Ambiguous a fault: two of a
\* kind are not told apart.)
CrossAmbiguous(rows, token) ==
  CountriesNamed(rows, token) # {} /\ RegionsNamed(rows, token) # {} /\ ~Demoted(rows, token)

\* _classify_same_type_ambiguity adds two of a kind; cities are left to the look-up.
Ambiguous(rows, token) ==
  \/ CrossAmbiguous(rows, token)
  \/ Cardinality(CountriesNamed(rows, token)) > 1
  \/ Cardinality(RegionsNamed(rows, token)) > 1

\* country_by_alias: without the codes that abbreviate a region.
CountryByAlias(rows, token) ==
  IF Ambiguous(rows, token) \/ RegionsAbbreviated(rows, token) # {} THEN {}
  ELSE CountriesNamed(rows, token)

\* country_by_prefix_code
CountryByPrefix(code) == IF code \in StatePostal THEN {} ELSE {l \in Land : Iso[l] = code}

\* region_full_by_alias
RegionByName(rows, token) ==
  IF Ambiguous(rows, token) \/ Demoted(rows, token) THEN {} ELSE RegionsNamed(rows, token)

\* region_any_by_alias
RegionByAny(rows, token) ==
  RegionsAbbreviated(rows, token)
    \cup IF Ambiguous(rows, token) THEN {} ELSE RegionsNamed(rows, token)

\* A country none of whose aliases survives has no population.
KnownPeople(rows, land) ==
  IF \E a \in CountryAliases(rows, land) : CountryByAlias(rows, a) # {} THEN People[land] ELSE 0

MostPeopled(rows, regions) ==
  CHOOSE r \in regions : \A s \in regions : KnownPeople(rows, s.land) <= KnownPeople(rows, r.land)
=============================================================================
