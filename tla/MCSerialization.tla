--------------------------- MODULE MCSerialization ---------------------------
(* Plugins that may save, load or do neither: one writes two records, one   *)
(* has no opcode base.                                                      *)
EXTENDS Serialization, TLC

CONSTANTS a, b, c

MCRegisters == {<<a, "save">>, <<a, "load">>, <<b, "save">>, <<b, "load">>, <<c, "save">>}
MCMaxRecords == [o \in Owners |-> IF o = a THEN 2 ELSE IF o = NVSE THEN 0 ELSE 1]
MCSymmetry == Permutations(Paths)

=============================================================================
