---------------------------- MODULE MCDataService ----------------------------
(***************************************************************************)
(* Carousels for DataService.                                              *)
(***************************************************************************)
EXTENDS DataService

Grp(type, s, t, i, last, len) ==
  [groupType |-> type, service |-> s, transportId |-> t, segmentNumber |-> i,
   last |-> last, crcFlag |-> TRUE, len |-> len]

\* Object 1 with a header of its own, objects 2 and 3 in directory 9.
One == "d1" :>
  << Grp(3, "d1", 1, 0, TRUE, 1), Grp(4, "d1", 1, 0, FALSE, 1), Grp(4, "d1", 1, 1, TRUE, 1),
     Grp(6, "d1", 9, 0, FALSE, 1), Grp(6, "d1", 9, 1, TRUE, 1),
     Grp(4, "d1", 2, 0, TRUE, 1), Grp(4, "d1", 3, 0, TRUE, 3) >>

\* Two services, with two objects each.
TwoObjects(s, t, u) == << Grp(3, s, t, 0, TRUE, 1), Grp(4, s, t, 0, TRUE, 1),
                          Grp(3, s, u, 0, TRUE, 1), Grp(4, s, u, 0, TRUE, 1) >>
Two == "d1" :> TwoObjects("d1", 1, 2) @@ "d2" :> TwoObjects("d2", 3, 4)

OneGroups == ToSet(One["d1"])
TwoGroups == ToSet(Two["d1"]) \cup ToSet(Two["d2"])
Directory9 == [t \in {1, 2, 3, 9} |-> IF t = 9 THEN {2, 3} ELSE {}]
NoDirectories == [t \in 1..4 |-> {}]

ASSUME CarouselsAreWellFormed == WellFormed
=============================================================================
