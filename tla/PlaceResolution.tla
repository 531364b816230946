--------------------------- MODULE PlaceResolution ---------------------------
(***************************************************************************)
(* How the engine resolves the location of a posting or a profile against  *)
(* the dataset.  A text is what is left of it once the spelling is cleaned *)
(* and the remote words are gone: an optional two-letter prefix, and       *)
(* tokens between commas (smallest place first) or dashes.                 *)
(***************************************************************************)
EXTENDS Gazetteer, Sequences

CONSTANTS
  GenericName,  \* _GENERIC_AREA_DESCRIPTORS
  NoLand, NoCity,
  Unlisted      \* several words that are no name of anything

ASSUME ResolutionAssumption ==
  NoCity \notin CityRow /\ NoLand \notin Land /\ Unlisted \notin PlaceName \cup PlaceCode

PlaceToken == PlaceName \cup PlaceCode

\* noise: the token a word like "office" or "hybrid" stands beside, or 0.
PlaceText ==
  {t \in [prefix : PlaceCode \cup {NoCode}, noise : 0 .. 2, dashed : {FALSE},
          tokens : UNION {[1 .. n -> PlaceToken] : n \in 0 .. 2}] : t.noise <= Len(t.tokens)}
  \cup [prefix : {NoCode}, noise : 0 .. 2, dashed : {TRUE}, tokens : PlaceName \X PlaceToken]

Unresolved == [resolved |-> FALSE, land |-> NoLand, region |-> NoCode, city |-> NoCity]
Located(land, region, city) ==
  [resolved |-> TRUE, land |-> land, region |-> region, city |-> city]

InRegion(region) == Located(region.land, Canonical(region.land, region.raw), NoCity)

Only(s) == CHOOSE e \in s : TRUE

InScope(found, scope) == IF scope = NoLand THEN found ELSE {c \in found : c.land = scope}

\* _best_city_candidate, where populations differ.
Largest(cities) == CHOOSE c \in cities : \A d \in cities : d.people <= c.people

\* _resolve_bare: country, then region, then city.
ResolveBare(rows, token, scope, noise) ==
  LET lands == CountryByAlias(rows, token)
      regions == RegionByName(rows, token)
      abbreviated == IF noise THEN RegionsAbbreviated(rows, token) ELSE {}
      cities == InScope(CitiesNamed(rows, token), scope)
  IN IF token \in GenericName \/ Ambiguous(rows, token) THEN Unresolved
     ELSE IF lands # {}
     THEN IF scope \in lands \cup {NoLand} THEN Located(Only(lands), NoCode, NoCity) ELSE Unresolved
     ELSE IF regions # {}
     THEN IF scope \in {NoLand, Only(regions).land} THEN InRegion(Only(regions)) ELSE Unresolved
     ELSE IF abbreviated # {} THEN InRegion(MostPeopled(rows, abbreviated))
     ELSE IF cities = {} THEN Unresolved
     ELSE LET c == Largest(cities) IN Located(c.land, CityRegion(rows, c), c)

\* Fault: any city of that name will do.
AnyNamesake(rows, token, land, region) ==
  IF Cardinality(CitiesNamed(rows, token)) = 1 THEN Only(CitiesNamed(rows, token)) ELSE NoCity

\* The one city of that name in the tail's country and region.
CityWithin(rows, token, land, region) ==
  LET found == {c \in CitiesNamed(rows, token) :
                  c.land = land /\ region \in {NoCode, CityRegion(rows, c)}} IN
  IF Cardinality(found) = 1 THEN Only(found) ELSE NoCity

\* _resolve_segments: the tail says where; without it nothing is resolved.
ResolveTail(rows, head, tail) ==
  LET lands == CountryByAlias(rows, tail)
      regions == RegionByAny(rows, tail)
      place == IF lands # {} THEN Located(Only(lands), NoCode, NoCity)
               ELSE InRegion(MostPeopled(rows, regions))
      scoped == {r \in RegionByAny(rows, head[Len(head)]) : r.land = place.land}
      region == IF place.region = NoCode /\ scoped # {}
                THEN InRegion(Only(scoped)).region ELSE place.region
  IN IF lands = {} /\ regions = {} THEN Unresolved
     ELSE Located(place.land, region, CityWithin(rows, head[1], place.land, region))

\* _reorder_country_first_dash: from the first country name on, reversed.
CountryFirst(rows, tokens) ==
  {i \in DOMAIN tokens : tokens[i] \in PlaceName /\ CountryByAlias(rows, tokens[i]) # {}}

FromCountry(rows, tokens) ==
  LET first == CHOOSE i \in CountryFirst(rows, tokens) :
                 \A j \in CountryFirst(rows, tokens) : i <= j
      n == Len(tokens) + 1 - first IN
  [i \in 1 .. n |-> tokens[Len(tokens) + 1 - i]]

\* Dashes that separate nothing known are blanks; a code at the end of several
\* words still counts as a tail.
Blanked(tokens) ==
  IF Len(tokens) > 1 /\ tokens[Len(tokens)] \in PlaceCode
  THEN <<IF Len(tokens) = 2 THEN tokens[1] ELSE Unlisted, tokens[Len(tokens)]>>
  ELSE IF Len(tokens) > 1 THEN <<Unlisted>> ELSE tokens

ResolveTokens(rows, tokens, scope, noise) ==
  IF Len(tokens) = 1 THEN ResolveBare(rows, tokens[1], scope, noise)
  ELSE ResolveTail(rows, SubSeq(tokens, 1, Len(tokens) - 1), tokens[Len(tokens)])

\* A prefix that is no country stays in the text, as one more word.
StrayPrefix(text) == text.prefix # NoCode /\ CountryByPrefix(text.prefix) = {}

Words(text, tokens) ==
  IF ~StrayPrefix(text) THEN tokens
  ELSE IF Len(tokens) <= 1 THEN <<text.prefix>> \o tokens
  ELSE <<Unlisted>> \o Tail(tokens)

\* Before words like "office" are taken out, which a country that comes first
\* is looked for.
AsWritten(text) == [i \in DOMAIN text.tokens |-> IF i = text.noise THEN Unlisted ELSE text.tokens[i]]

\* _normalize_location_once
Resolve(rows, text) ==
  LET words == Words(text, text.tokens)
      written == Words(text, AsWritten(text))
      dashed == text.dashed \/ (StrayPrefix(text) /\ Len(text.tokens) = 1)
      scope == IF CountryByPrefix(text.prefix) = {} THEN NoLand ELSE Only(CountryByPrefix(text.prefix))
  IN IF words = <<>> THEN Located(scope, NoCode, NoCity)
     ELSE IF dashed /\ CountryFirst(rows, written) # {}
     THEN ResolveTokens(rows, FromCountry(rows, written), NoLand, FALSE)
     ELSE ResolveTokens(rows, IF dashed THEN Blanked(words) ELSE words, scope, text.noise # 0)

-----------------------------------------------------------------------------
(* Properties                                                              *)

BareText(token) == [prefix |-> NoCode, noise |-> 0, dashed |-> FALSE, tokens |-> <<token>>]

(* A name alone is resolved only when it has one reading: a country whose  *)
(* name no other country and no region elsewhere has, a region whose name  *)
(* nothing else has, or a city whose name no country and at most one       *)
(* region has.                                                             *)
NoReadingIsGuessed(rows) ==
  \A token \in PlaceToken :
    LET place == Resolve(rows, BareText(token)) IN
    place.resolved =>
      IF place.city # NoCity
      THEN CountriesNamed(rows, token) = {} /\ Cardinality(RegionsNamed(rows, token)) <= 1
      ELSE IF place.region # NoCode
      THEN /\ CountriesNamed(rows, token) = {} /\ CitiesNamed(rows, token) = {}
           /\ Cardinality(RegionsNamed(rows, token)) = 1
      ELSE /\ CountriesNamed(rows, token) = {place.land} /\ RegionsAbbreviated(rows, token) = {}
           /\ \A r \in RegionsNamed(rows, token) : r.land = place.land

\* "Germany - Berlin": the country comes first.
Reversed(rows, text) ==
  text.dashed /\ text.noise # 1 /\ CountryByAlias(rows, text.tokens[1]) # {}

\* Of two tokens, the one that says where, and the one that lies there; one
\* that is not read as a token of its own lies nowhere.
Where(rows, text) == IF Reversed(rows, text) THEN text.tokens[1] ELSE text.tokens[2]

Inside(rows, text) ==
  IF ~text.dashed /\ ~StrayPrefix(text) THEN text.tokens[1]
  ELSE IF Reversed(rows, text) /\ text.noise # 2 THEN text.tokens[2] ELSE Unlisted

(* What a text of one or two tokens says of the country and the region is  *)
(* kept.  A city lies in the region and the country it is given.  After a  *)
(* country's prefix a token is looked up in that country only, unless it   *)
(* is a code beside a word like "office".  Of two tokens, one says where:  *)
(* a region's code or name resolves to a region of that code or name, and  *)
(* a country to that country, and to the region the other token names in   *)
(* it.                                                                     *)
HintsAreHonoured(rows) ==
  \A text \in PlaceText :
    LET place == Resolve(rows, text)
        n == Len(text.tokens)
        where == Where(rows, text)
        inside == {r \in RegionByAny(rows, Inside(rows, text)) : r.land = place.land} IN
    place.resolved =>
      /\ place.city # NoCity =>
           /\ place.city.land = place.land
           /\ place.region \in {NoCode, CityRegion(rows, place.city)}
      /\ n = 1 /\ CountryByPrefix(text.prefix) # {} /\ (text.tokens[1] \in PlaceName \/ text.noise = 0) =>
           place.land \in CountryByPrefix(text.prefix)
      /\ n = 2 /\ RegionsAbbreviated(rows, where) # {} =>
           \E r \in RegionsAbbreviated(rows, where) : InRegion(r) = [place EXCEPT !.city = NoCity]
      /\ n = 2 /\ RegionsAbbreviated(rows, where) = {} =>
           IF CountriesNamed(rows, where) = {}
           THEN \E r \in RegionsNamed(rows, where) : InRegion(r) = [place EXCEPT !.city = NoCity]
           ELSE /\ place.land \in CountriesNamed(rows, where)
                /\ inside # {} => \E r \in inside : InRegion(r).region = place.region
=============================================================================
