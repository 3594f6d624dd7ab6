------------------------------ MODULE MCLruCache ------------------------------
(***************************************************************************)
(* Small instances of LruCache.                                            *)
(***************************************************************************)
EXTENDS LruCache

\* ShrinkCache may leave a cache without a slot, from which it does not recover
\* before it is limited anew; what a floor of one frame does is LruGrowth's part.
MCLimits == {<<0, 0>>}

MCNoLimits == {}
===============================================================================
