-------------------------------- MODULE Lists --------------------------------
(***************************************************************************)
(* The part of a list that passes a test, in its order: Vec::retain and    *)
(* the filter of an iterator.                                              *)
(***************************************************************************)
EXTENDS Integers, SequencesExt

Retain(list, kept) ==
  FoldLeft(LAMBDA part, e : IF e \in kept THEN Append(part, e) ELSE part, <<>>, list)
=============================================================================
