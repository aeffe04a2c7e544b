----------------------------- MODULE MCCommand ------------------------------
(***************************************************************************)
(* Instances of Command for TLC: two workers that book at most one outcome *)
(* each, a downloaded and a plain source, one server, plots of responses   *)
(* and of errors.                                                          *)
(***************************************************************************)
EXTENDS Command

CONSTANTS w1, w2

MCWorkers  == {w1, w2}
MCPlots    == <<"responses-barchart", "errorrate-lineplot">>
MCDrawn    == [p \in {"responses-barchart", "errorrate-lineplot"} |->
                IF p = "errorrate-lineplot" THEN {"ioerror"} ELSE {"negative"}]
MCWishes   == {{"csv"}, {"plots", "csv", "text"}}
MCShare    == 0..1
=============================================================================
