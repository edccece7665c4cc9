--------------------------- MODULE MCMetadataScan ---------------------------
(* Instances of MetadataScan: the whole image, or one or two roots in it;   *)
(* "." entries that are right, or one of them wrong.                        *)
EXTENDS MetadataScan

CONSTANTS a, b, d2

MCRootLists == {<<<<>>>>, <<<<a>>>>, <<<<a>>, <<b>>>>, <<<<a, a>>, <<b>>>>, <<<<a>>, <<a, b>>>>}

Right == [d \in Dirs |-> d]
MCDots == {Right, [Right EXCEPT ![Top] = d2], [Right EXCEPT ![d2] = Top]}

=============================================================================
