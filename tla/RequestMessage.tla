--------------------------- MODULE RequestMessage ---------------------------
(***************************************************************************)
(* The DNS request of one query: createReqMsg and the functions that add   *)
(* EDNS options to it (pkg/dnsbench/benchmark.go:557-593, 676-746).  Of a  *)
(* message only the OPT records of its additional section are kept, of an  *)
(* option its code and the flag it comes from.                             *)
(*                                                                         *)
(* o is the Benchmark after init: the fields of the record are its fields. *)
(***************************************************************************)
EXTENDS Integers, Sequences

DefaultEdns0BufferSize == 1232
EDNS0SUBNET == 8
EDNS0COOKIE == 10

(* SetEdns0 of the dns package appends an OPT record, whatever is there.   *)
SetEdns0(m, size) == Append(m, [size |-> size, do |-> FALSE, options |-> << >>])

(* Mutant: the message is given an OPT record without a look for one.      *)
AlwaysAnotherOpt(m) == SetEdns0(m, DefaultEdns0BufferSize)

(* The OPT record a function writes to: the one there is, or a new one.    *)
WithEdns0(m) == IF m = << >> THEN SetEdns0(m, DefaultEdns0BufferSize) ELSE m

AddOption(m, code, from) ==
  LET e == WithEdns0(m) IN
  [e EXCEPT ![Len(e)].options = Append(@, [code |-> code, from |-> from])]

SetDo(m) == LET e == WithEdns0(m) IN [e EXCEPT ![Len(e)].do = TRUE]

CreateReqMsg(o) ==
  LET sized  == IF o.edns0 > 0 THEN SetEdns0(<< >>, o.edns0) ELSE << >>
      custom == IF o.ednsopt.given
                THEN AddOption(sized, o.ednsopt.code, "ednsopt") ELSE sized
      subnet == IF o.ecs # "" THEN AddOption(custom, EDNS0SUBNET, "ecs") ELSE custom
      cookie == IF o.cookie THEN AddOption(subnet, EDNS0COOKIE, "cookie") ELSE subnet
  IN  IF o.dnssec THEN SetDo(cookie) ELSE cookie

(* Where building the message panics: data without a colon before it, and  *)
(* a subnet that does not parse.                                           *)
PanicsCreating(o) ==
  \/ o.ednsopt.given /\ o.ednsopt.parts < 2
  \/ o.ecs = "invalid"

OptionsOf(m) == IF m = << >> THEN << >> ELSE m[Len(m)].options
Numbered(m, code) == {k \in DOMAIN OptionsOf(m) : OptionsOf(m)[k].code = code}
=============================================================================
