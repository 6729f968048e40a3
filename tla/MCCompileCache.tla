--------------------------- MODULE MCCompileCache ----------------------------
(* A cache of three entries over four keys: it fills, evicts and refills.   *)
EXTENDS CompileCacheProofs
==============================================================================
