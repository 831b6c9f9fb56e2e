----------------------------- MODULE MCPipeline -----------------------------
(***************************************************************************)
(* Instances of Pipeline for TLC.                                         *)
(***************************************************************************)
EXTENDS Pipeline

CONSTANTS A, B

MCTopics   == {A, B}
MCRequests == {{A}}

\* Every file of at most two lines of A and errors, a file of each of the
\* other kinds of lines, and files that fill or overflow the error buffers.
MCFiles ==
  UNION {[1..n -> {A, Bad, TooLong}] : n \in 0..2}
  \cup {<<B, A>>, <<Blank, A>>, <<A, A, A>>, <<Bad, A, Bad>>, <<Bad, Bad, Bad>>}
=============================================================================
