------------------------------ MODULE MCEfiMap ------------------------------
(***************************************************************************)
(* EfiMap with a table of three rows and a copy limit of five: maps of     *)
(* none, one, a torn one, three, four and six descriptors, of 48, 40, 96,  *)
(* 24 or no bytes; the table holds more of the 96 than can be copied.      *)
(***************************************************************************)
EXTENDS EfiMap

Params(systab, memmap, size, desc) == [systab |-> systab, memmap |-> memmap, size |-> size, desc |-> desc]

MCFirmware ==
  {Params(7, 4096, size, 48) : size \in {0, 48, 100, 192, 288}}
  \cup {Params(0, 4096, 120, 40), Params(7, 4096, 288, 96), Params(7, 4096, 96, 24), Params(7, 4096, 96, 0),
        Params(7, 0, 96, 48), Params(0, 0, 96, 48), Params(7, 4096, 20, 48)}

MCSysfsMaps == {<<>>, <<TRUE>>, <<FALSE>>, <<FALSE, TRUE>>, <<TRUE, FALSE, TRUE, TRUE>>,
                <<TRUE, TRUE, TRUE, TRUE, TRUE>>}
MCRuntimeMaps == {<<>>, <<TRUE>>, <<TRUE, FALSE>>, <<TRUE, TRUE, TRUE, FALSE>>}

Ko(name, type, dynamic, elfhdr, shdr) ==
  [name |-> name, type |-> type, dynamic |-> dynamic, elfhdr |-> elfhdr, shdr |-> shdr]

Shape(name, args, smap, elfhdr, shdr, has, modules) ==
  [name |-> name, args |-> args, smap |-> smap, elfhdr |-> elfhdr, shdr |-> shdr, has |-> has,
   modules |-> modules]

\* Names of every length modulo 8, from the bare kernel to every record there is.
MCShapes ==
  { Shape(7, 0, 0, 0, 0, {}, <<>>),
    Shape(8, 3, 1, 64, 128, {"envp", "howto", "symtab"}, <<Ko(4, 14, FALSE, 64, 192)>>),
    Shape(12, 6, 2, 64, 64, {"envp", "howto", "dynamic", "symtab", "font", "fb"},
          <<Ko(9, 10, TRUE, 0, 0), Ko(6, 8, FALSE, 0, 0)>>) }
=============================================================================
