---------------------------- MODULE MCIkdTree ----------------------------
(* Instances of IkdTree for TLC: a path of three levels, a point in each.   *)
EXTENDS IkdTree

CONSTANTS p0, p1, p2

MCHome == [p \in Point |-> CASE p = p0 -> 0 [] p = p1 -> 1 [] p = p2 -> 2]
MCBoxes == {{p1, p2}, {p0, p1, p2}}
MCCells == {{p2}}

\* The smallest instance whose subtrees are never empty.
NoBoxes == {}
CellOfp1 == {{p1}}
=============================================================================
