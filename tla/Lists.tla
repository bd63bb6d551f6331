--------------------------------- MODULE Lists ---------------------------------
(* Helpers on lists that the community modules do not have in a form that can be *)
(* proved about.                                                                  *)
EXTENDS Sequences, SequencesExt

MapSeq(Op(_), s) == [i \in DOMAIN s |-> Op(s[i])]
\* The elements of a list that are in a set.
Keep(s, S) == FlattenSeq(MapSeq(LAMBDA x : IF x \in S THEN <<x>> ELSE <<>>, s))
================================================================================
