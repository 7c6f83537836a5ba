----------------------------- MODULE MCEtlPipeline -----------------------------
(* Small instances of EtlPipeline.  Rows 1..5 form a file of two batches: an id  *)
(* repeated inside a batch (2, 3), one repeated across batches (1, 4) and a      *)
(* faulty row (5).  Rows 6 and 7 form a file whose first occurrence of an id has *)
(* blanks around it.  Row 8 is a file whose headers do not map.                  *)
EXTENDS EtlPipeline

MCRows == 1..8
MCIdOf == <<"A", "B", "B", "A", "C", "D", "D", "E">>
MCPadded == {6}
MCFaulty == {5}
MCSparse == {6, 7}
MCNamed == {1, 2}

MainFile == [batches |-> <<{1, 2, 3}, {4, 5}>>, headersOk |-> TRUE]
PaddedFile == [batches |-> <<{6}, {7}>>, headersOk |-> TRUE]
BadFile == [batches |-> <<{8}>>, headersOk |-> FALSE]

AllFiles == {MainFile, PaddedFile, BadFile}
OneFile == {MainFile}
=============================================================================
