------------------------------ MODULE MC_Selector ------------------------------
(* Two records, in opposite orders, of which one matches a search.          *)
EXTENDS Selector

CONSTANTS rec1, rec2, k1, other, ALL, c1, e1, e2

MCARTIST == rec1 :> 1 @@ rec2 :> 2
MCBPM == rec1 :> 2 @@ rec2 :> 1
MCCrates == <<ALL, c1>>
MCOutputs == {<<rec2, rec1>>}
MCFirst == c1 :> e1
MCMatching == [k \in Keys |-> {rec1}]
================================================================================
