---------------------------- MODULE MCQualityReport ----------------------------
(***************************************************************************)
(* A small instance of QualityReport: two ids, a column whose parse failures *)
(* are counted and one that is cast silently, a midnight and a noon date, six *)
(* kinds of line, files of up to five lines cut into batches of up to three,  *)
(* and a cap of two examples so that files exceed it.                        *)
(***************************************************************************)
EXTENDS QualityReport

CONSTANTS a, b, price, rating, midnight, noon

Line(id, restyled, cell, date) ==
  [id |-> id, restyled |-> restyled, date |-> date,
   cells |-> [c \in Columns |-> IF c = rating /\ id = a THEN "bad" ELSE cell]]

MCLines == {
  Line(a, FALSE, "ok", midnight), Line(a, TRUE, "bad", noon), Line(b, TRUE, "ok", midnight),
  Line(b, FALSE, "gap", NoDate), Line(NoId, TRUE, "ok", noon), Line(NoId, FALSE, "gap", midnight) }
MCIds == {a, b}
MCColumns == {price, rating}
MCParsed == {price}
MCDates == {midnight, noon}
MCMidnight == {midnight}
=============================================================================
