---------------------------- MODULE MCCreateOrder ----------------------------
(* Small instances of CreateOrder. *)
EXTENDS CreateOrder, TLC

CONSTANTS h29, h30, h200, h201, e30, e70, plasma, laser, bare

Rec(t, k, n, m) == [type |-> t, kind |-> k, strength |-> n, model |-> m]

\* Hulls at either bound of the strength and just beyond it, an engine that
\* requires just what the weaker one has and an engine that requires more, and a
\* shield and a weapon that do not go together.
Seeded ==
  (h29 :> Rec("HULL", "hull", 29, "other")) @@ (h30 :> Rec("HULL", "hull", 30, "other"))
    @@ (h200 :> Rec("HULL", "hull", 200, "other")) @@ (h201 :> Rec("HULL", "hull", 201, "other"))
    @@ (e30 :> Rec("ENGINE", "engine", 30, "A")) @@ (e70 :> Rec("ENGINE", "engine", 70, "A"))
    @@ (plasma :> Rec("SHIELD", "shield", 0, "plasma")) @@ (laser :> Rec("WEAPON", "weapon", 0, "laser"))

\* Parts in the wrong slot, twice, missing, or the nil uuid, in all mixtures.
MixedRequests ==
  {r \in [Slots -> DOMAIN Catalog \cup {Nil, Unknown, Absent}] :
     /\ r["hull"] \in {h29, h30, h200, h201, e70, Nil}
     /\ r["engine"] \in {e30, e70, Unknown}
     /\ r["shield"] \in {plasma, laser, Absent}
     /\ r["weapon"] \in {laser, Nil, Absent}}

\* A hull whose properties are the column's default, '{}'.
Bare == (bare :> Rec("HULL", "none", 0, "other")) @@ (e30 :> Rec("ENGINE", "engine", 30, "A"))

\* Whatever can be asked of the catalogue.
AllRequests ==
  LET ids == DOMAIN Catalog \cup {Nil, Unknown} IN
  {r \in [Slots -> ids \cup {Absent}] : r["hull"] # Absent /\ r["engine"] # Absent}
=============================================================================
