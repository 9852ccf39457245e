------------------------------- MODULE MCPut -------------------------------
(* Small instances of dzfile-put for TLC.                                  *)
EXTENDS PutTool

CONSTANTS p1, p2, b1, b2

MCSources == {<<>>, <<b1, b1, b1, b1, b1>>, <<b2, b2, b2>>}
MCOld     == {<<>>, <<b2, b2, b2, b2, b2, b2>>}
=============================================================================
