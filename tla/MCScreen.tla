-------------------------------- MODULE MCScreen --------------------------------
EXTENDS Screen

MCCharWidth == [f \in {2, 3} |-> f - 1]
MCPicture == {[width |-> 2, height |-> 3], [width |-> 9, height |-> 4]}
================================================================================
