-------------------------- MODULE MCCachedQueries --------------------------
(* Small instances of CachedQueries.                                       *)
EXTENDS CachedQueries

CONSTANTS k1, k2

\* An operator changes both keys at once: no question is about both.
BothKeys == {<<k1, k1>>, <<k2, k2>>}
============================================================================
