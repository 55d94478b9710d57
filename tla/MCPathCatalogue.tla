--------------------------- MODULE MCPathCatalogue ---------------------------
(* Three paths over two partitions: pick, spelled in two ways, is declared,  *)
(* deactivated and declared again; a second partition declares pick-zone and *)
(* pack, and later moves pack's prefix to pick.                              *)
EXTENDS PathCatalogue, TLC

CONSTANT r1

Write(kind, path, prefix) == [kind |-> kind, path |-> path, prefix |-> prefix]
MCWrites ==
    <<Write("ProcessPathCreated", "PICK", <<"pick">>),
      Write("ProcessPathCreated", "ZONE", <<"pick", "zone">>),
      Write("ProcessPathDeactivated", "Pick", <<>>),
      Write("malformed", "PACK", <<>>),
      Write("ProcessPathCreated", "PICK", <<"pick">>),
      Write("ProcessPathCreated", "PACK", <<"pack">>),
      Write("ProcessPathUpdated", "PACK", <<"pick">>),
      Write("ProcessPathDeactivated", "ZONE", <<>>)>>
MCUpper(id) == IF id = "Pick" THEN "PICK" ELSE id
MCPartitionOf == [id \in {"Pick", "PICK"} |-> 1] @@ [id \in {"ZONE", "PACK"} |-> 2]
MCWorkIds == {<<"pick">>, <<"pick", "zone">>, <<"pick", "zone", "a">>, <<"pack">>, <<"sort">>}
=============================================================================
