-------------------------- MODULE MCCacheRegistry --------------------------
\* A query and a transition, whose result is a view, in three runs: a result is written,
\* overwritten half way and looked up; a text is changed and changed back, or changed again,
\* and the table of the text in between thrown away.
EXTENDS CacheRegistry, TLC

Symmetry == Permutations(Ids \ MovedIds)
=============================================================================
