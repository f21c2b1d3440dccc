--------------------------- MODULE MCSeriesImport ---------------------------
(* Constants for model checking SeriesImport: the chapter folder "Area 88",  *)
(* two spellings of the series folder, and another series.                   *)
EXTENDS SeriesImport, TLC

CONSTANTS area88, area, areaBang, other, a1, a2, a3

MCNames == {area88, area, areaBang, other}
MCArrivals == {a1, a2, a3}
MCKey == [n \in MCNames |-> IF n = areaBang THEN area ELSE n]
MCAliasKey == [n \in MCNames |-> n]
MCCleaned == (a1 :> area88) @@ (a2 :> area) @@ (a3 :> areaBang)
MCBare == (a1 :> area) @@ (a2 :> area) @@ (a3 :> areaBang)
MCObserved == (a1 :> {area88}) @@ (a2 :> {area, other}) @@ (a3 :> {areaBang, area88})
MCKnownNow == [n \in MCNames |-> {}]
=============================================================================
