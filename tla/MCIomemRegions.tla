--------------------------- MODULE MCIomemRegions ---------------------------
(***************************************************************************)
(* IomemRegions with five addresses and resource trees of up to four lines *)
(* and depth two.                                                          *)
(***************************************************************************)
EXTENDS IomemRegions

\* Nothing to avoid, one range, two ranges in order, two in the wrong order,
\* and a range from address 0 as get_kernel_reserved_regions returns.
MCAvoidLists == {<<>>, <<R(2, 3)>>, <<R(1, 1), R(3, 4)>>, <<R(4, 4), R(1, 1)>>, <<R(0, 3)>>}

\* A firmware map whose rows would leave the first two addresses out.
MCFirmwareMap == <<[start |-> 2, end |-> 4, desc |-> "ram", prefixed |-> TRUE]>>
============================================================================
