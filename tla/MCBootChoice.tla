---------------------------- MODULE MCBootChoice ----------------------------
(***************************************************************************)
(* BootChoice with two pools, two data sets, one of them also spelt with   *)
(* its prefix, and a name with a space in it.                              *)
(***************************************************************************)
EXTENDS BootChoice

V(zfs, name) == [zfs |-> zfs, name |-> name]

MCName == {"", "a", "b", "my be", "my", "sda1"}
MCFirstWord == [n \in MCName |-> IF n = "my be" THEN "my" ELSE n]
MCBootonces == {V(FALSE, "a"), V(TRUE, "b"), V(FALSE, "my be")}
MCLines == {[mountfrom |-> Missing], [mountfrom |-> V(TRUE, "b")]}
MCLinuxRoots ==
  {<<>>, <<V(FALSE, ""), V(TRUE, "a"), V(FALSE, "sda1")>>}
=============================================================================
