---------------------------- MODULE MCProduction ----------------------------
(* The pipeline of MCExecutor is run; every pipeline of three steps with    *)
(* `needs:` lists of length up to two over the steps and a name that is no  *)
(* step is loaded.  One order of the keys is enough: the lists range over   *)
(* every pipeline.                                                          *)
EXTENDS Production, MCExecutor

CONSTANTS a, b, c, other, n1, n2

ShortLists == UNION {[1 .. n -> {a, b, c, other}] : n \in 0 .. 2}
AnyOrder   == <<a, b, c>>
=============================================================================
