------------------------------ MODULE MCMerge -------------------------------
(***************************************************************************)
(* Instances of MergedResults, Plots and Reporters for TLC.  Of the        *)
(* errors, "refused" and "refused again" are different but printed alike;  *)
(* of the response codes, "12" has no name and "3841" is not even listed.  *)
(***************************************************************************)
EXTENDS Plots, Reporters

MCWorkers == <<"first", "second">>
MCNamed  == {NOERROR, NXDOMAIN, "SERVFAIL"}
MCListed == MCNamed \union {"12"}
MCRcodes == MCListed \union {"3841"}
MCQtypes == {"A", "AAAA"}
MCNames  == {"a."}
MCEde    == {"stale"}
MCErrs   == {"timeout", "refused", "refused again", "reset", "503"}
MCHttpErrs == {"503"}
MCErrString == [e \in MCErrs |-> IF e = "refused again" THEN "refused" ELSE e]

Plain ==
  [ err |-> NoErr, rcode |-> NOERROR, sameId |-> TRUE, answer |-> TRUE,
    tc |-> FALSE, ad |-> FALSE, ede |-> [c \in MCEde |-> 0],
    question |-> TRUE, cookie |-> "none", inRange |-> TRUE ]

Secured  == [Plain EXCEPT !.ad = TRUE]
WrongId  == [Plain EXCEPT !.sameId = FALSE, !.tc = TRUE]
NoData   == [Plain EXCEPT !.answer = FALSE, !.inRange = FALSE]
ServFail == [Plain EXCEPT !.rcode = "SERVFAIL", !.ede = [c \in MCEde |-> 2]]
Code(c)  == [Plain EXCEPT !.rcode = c]
Failed(e) == [Plain EXCEPT !.err = e]

Entry(reply, at, took) ==
  [query |-> [name |-> "a.", qtype |-> "A"], reply |-> reply, at |-> at, took |-> took]

(* A second has two ticks and a millisecond 200 nanoseconds; the histogram *)
(* holds durations of up to 3500.                                          *)
MCEntries ==
  { Entry(Secured, 0, 110), Entry(Plain, 1, 260), Entry(WrongId, 1, 150),
    Entry(NoData, 3, 4000), Entry(ServFail, 0, 1990),
    Entry(Code("12"), 1, 2100), Entry(Code("3841"), 2, 2900),
    Entry(Failed("timeout"), 0, 30), Entry(Failed("refused"), 1, 30),
    Entry(Failed("refused again"), 2, 30), Entry(Failed("reset"), 3, 30),
    Entry(Failed("503"), 1, 30) }
=============================================================================
