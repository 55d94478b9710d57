-------------------------- MODULE MCStationRegistry --------------------------
(* One station, two workers and two requests at a time, registered with one *)
(* capability at no location or in a work center, or with another in a      *)
(* storage aisle or at a code facility-layout does not know.                *)
EXTENDS StationRegistry

CONSTANTS s1, ann, bob, c1, c2

MCRegistrations == {[caps |-> {"pick"}, loc |-> "none"], [caps |-> {"pick"}, loc |-> "bench"],
                    [caps |-> {"pack"}, loc |-> "aisle"], [caps |-> {"pack"}, loc |-> "typo"]}
MCRoleOf == [bench |-> "WorkCenter", aisle |-> "Storage", typo |-> "unknown"]
=============================================================================
