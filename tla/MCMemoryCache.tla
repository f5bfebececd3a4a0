--------------------------- MODULE MCMemoryCache ---------------------------
(***************************************************************************)
(* Model-checking instances of MemoryCache.                                *)
(***************************************************************************)
EXTENDS MemoryCache

CONSTANTS k1, k2, k3, o1, o2

\* k1 is replaced by a larger or an equal entry, o1 is added again under its key
\* and under two keys, and an object of size 2 meets up to two entries of size 1.
MCAdditions ==
  {<<k1, o1, 0>>, <<k1, o1, 1>>, <<k1, o2, 2>>, <<k2, o1, 1>>, <<k3, o2, 2>>}

\* A configuration file cannot hold a negative number.
MCLowWaters == {-1, 0}
=============================================================================
