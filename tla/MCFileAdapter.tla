--------------------------- MODULE MCFileAdapter ---------------------------
(***************************************************************************)
(* Instances of FileAdapter for TLC: several streams and Closes.  What the *)
(* lines of the file do is the matter of MCPipeline.                       *)
(***************************************************************************)
EXTENDS FileAdapter

CONSTANT A

MCTopics   == {A}
MCFiles    == {<<A>>}
MCRequests == {{}}
=============================================================================
