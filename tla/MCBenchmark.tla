---------------------------- MODULE MCBenchmark -----------------------------
(***************************************************************************)
(* Instances of Benchmark for TLC: two workers, a small set of replies     *)
(* that reaches every branch of record, and the run configurations of the  *)
(* cfg files.                                                              *)
(***************************************************************************)
EXTENDS Benchmark, TLC

CONSTANTS w1, w2

MCWorkers == {w1, w2}
MCRcodes == {NOERROR, NXDOMAIN, "SERVFAIL"}
MCQtypes == {"A", "AAAA"}
MCNames  == {"a.", "b."}
MCEde    == {"stale"}
MCErrs   == {"timeout", "503"}
MCHttpErrs == {"503"}

Plain ==
  [ err |-> NoErr, rcode |-> NOERROR, sameId |-> TRUE, answer |-> TRUE,
    tc |-> FALSE, ad |-> FALSE, ede |-> [c \in MCEde |-> 0],
    question |-> TRUE, cookie |-> "none", inRange |-> TRUE ]

Success    == [Plain EXCEPT !.ad = TRUE, !.cookie = "echo"]
WrongId    == [Plain EXCEPT !.sameId = FALSE]
NoData     == [Plain EXCEPT !.answer = FALSE, !.tc = TRUE, !.inRange = FALSE]
NxDomain   == [Plain EXCEPT !.rcode = NXDOMAIN, !.answer = FALSE, !.sameId = FALSE]
ServFail   == [Plain EXCEPT !.rcode = "SERVFAIL", !.cookie = "foreign", !.ede = [c \in MCEde |-> 1]]
NoQuestion == [ServFail EXCEPT !.question = FALSE]
Timeout    == [Plain EXCEPT !.err = "timeout"]
Http503    == [Plain EXCEPT !.err = "503"]

EveryKind == {Success, WrongId, NoData, NxDomain, ServFail, NoQuestion, Timeout, Http503}
Few       == {Success, Timeout}
AnswerOrNoQuestion == {Success, NoQuestion, Timeout}

OneQuestion  == <<"a.">>
NoQuestions  == << >>
OneType  == <<"A">>
TwoTypes == <<"A", "AAAA">>
=============================================================================
