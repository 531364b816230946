------------------------------- MODULE MCPlaces --------------------------------
(***************************************************************************)
(* Location datasets for TLC: two lands, two regions and two cities, with  *)
(* every way their names can collide.                                      *)
(***************************************************************************)
EXTENDS PlaceResolution

CONSTANTS n1, n2, k1, k2, x, y

ASSUME InstanceAssumption == x \in PlaceName

\* The code of the second land is also a state's.
IsoValue == [n \in {n1, n2} |-> IF n = n1 THEN k1 ELSE k2]
PeopleValue == [n \in {n1, n2} |-> IF n = n1 THEN 2 ELSE 1]
PostalValue == [n \in {n1, n2} \X {1} |-> NoCode]

OneRowPerRegion(rows) ==
  \A a, b \in rows.regions : a.land = b.land /\ a.raw = b.raw => a = b

Datasets ==
  LET named == {r \in CityRow : /\ r.raw \notin {k1, 1} /\ r.other = {}
                                /\ r.people = IF r.land = n1 THEN 1 ELSE 2} IN
  {rows \in
     {[names |-> [n \in Land |-> IF n = n1 THEN {x} ELSE {name}], regions |-> {a, b}, cities |-> {c, d}] :
        name \in PlaceName, a \in {r \in RegionRow : r.land = n1}, b \in RegionRow,
        c \in {r \in named : r.land = n1}, d \in named} : OneRowPerRegion(rows)}
=============================================================================
