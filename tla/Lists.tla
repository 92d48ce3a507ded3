-------------------------------- MODULE Lists --------------------------------
(***************************************************************************)
(* Two operators on lists that several components share: what Vec::retain  *)
(* keeps of a list, and a set laid out in the order of a sort.  Both are   *)
(* written so that facts about them can be proved (ListFacts).             *)
(***************************************************************************)
EXTENDS Naturals, Sequences, FiniteSets

\* The elements of list that lie in S, in their order.
Retain(list, S) ==
  LET kept[i \in 0..Len(list)] ==
        IF i = 0 THEN << >>
        ELSE IF list[i] \in S THEN Append(kept[i - 1], list[i]) ELSE kept[i - 1]
  IN  kept[Len(list)]

\* The elements of S, each once, every one Before those that follow it.
InOrder(S, Before(_, _)) ==
  CHOOSE list \in [1..Cardinality(S) -> S] :
    \A i, j \in DOMAIN list : i < j => Before(list[i], list[j])
=============================================================================
