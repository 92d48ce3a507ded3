------------------------ MODULE MCMutationObservers ------------------------
(* A document 0 > 1 > 2 > text 4.  Element 3 is beside 2 and fragment 5 is a   *)
(* shadow root to be, or 3 is in the contents 5 of the template 2.  A fresh    *)
(* element 7 and text 6 are what a text or a parsed fragment brings in.        *)
EXTENDS MutationObservers

CONSTANTS A, B

MCKind == <<"element", "element", "element", "text", "fragment", "text", "element">>
            @@ (0 :> "document")
Kids(beside, inside) ==
    [n \in 0..7 |-> CASE n = 0 -> <<1>> [] n = 1 -> <<2>> \o beside [] n = 2 -> <<4>>
                      [] n = 5 -> inside [] OTHER -> <<>>]
MCFirstTrees ==
    {NewTree(Kids(<<3>>, <<>>), [f \in {} |-> [node |-> 0, by |-> "shadow"]], {5, 6, 7}),
     NewTree(Kids(<<>>, <<3>>), 5 :> [node |-> 2, by |-> "template"], {6, 7})}
MCFirstObservers == {<<>>, <<A, B>>}
MCParsed == <<7, 6>>
=============================================================================
