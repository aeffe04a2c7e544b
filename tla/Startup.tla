------------------------------ MODULE Startup -------------------------------
(***************************************************************************)
(* What is read before a run: the arguments of the command (preprocessArgs *)
(* of cmd/root.go) and the configuration of the system's resolver          *)
(* (pkg/dnsbench/system_nameserver_unix.go).  An argument is a text, a     *)
(* line of resolv.conf the sequence of its parts between single spaces,    *)
(* and such a part the sequence of its words between single tabs: that of  *)
(* the empty line, and what is between two spaces, is the empty word.      *)
(***************************************************************************)
EXTENDS RequestMessage, SequencesExt

CONSTANTS
  Numbers,   \* the arguments that are a uint16, with their values
  Words,     \* other arguments that do not begin with a dash
  Prefixed   \* the words that begin with "nameserver"

Edns0 == "--edns0"

(* The flag with the default attached as its value.                        *)
Attached == "--edns0=1232"

ASSUME StartupAssumption ==
  /\ {Edns0, Attached} \intersect (DOMAIN Numbers \union Words) = {}
  /\ "nameserver" \in Prefixed

(***************************************************************************)
(* preprocessArgs: a bare --edns0 is given the default as its value.       *)
(***************************************************************************)
(* Mutant: whatever does not begin with a dash is taken for a value.       *)
AnyWord(args, k) == k + 1 \in DOMAIN args /\ args[k + 1] \in DOMAIN Numbers \union Words

NextIsValue(args, k) == k + 1 \in DOMAIN args /\ args[k + 1] \in DOMAIN Numbers

PreprocessArgs(args) ==
  [k \in DOMAIN args |->
     IF args[k] = Edns0 /\ ~NextIsValue(args, k) THEN Attached ELSE args[k]]

(* kingpin: --edns0 takes the argument after it, which has to be a uint16. *)
(* The rest are other flags and the queries.                               *)
Take(p, arg) ==
  CASE p.expects                 -> [p EXCEPT !.expects = FALSE,
                                              !.bad = arg \notin DOMAIN Numbers,
                                              !.edns0 = IF @ = 0 /\ arg \in DOMAIN Numbers
                                                        THEN Numbers[arg] ELSE @]
    [] ~p.expects /\ arg = Edns0 -> [p EXCEPT !.expects = TRUE]
    [] ~p.expects /\ arg = Attached
                                 -> [p EXCEPT !.edns0 = DefaultEdns0BufferSize]
    [] OTHER                     -> [p EXCEPT !.rest = Append(@, arg)]

Parse(args) ==
  FoldLeft(Take, [expects |-> FALSE, bad |-> FALSE, edns0 |-> 0, rest |-> << >>], args)

(***************************************************************************)
(* DefaultNameServer: the first line of exactly two parts that begins with *)
(* "nameserver"; the local host if there is none, or no file.              *)
(***************************************************************************)
LocalHost == "127.0.0.1"

(* What is between two spaces, or after the last one.                      *)
NoWord == ""

(* What stands for every part that has a tab in it.                        *)
Tabbed == "words with a tab between them"

Text(part) == IF Len(part) = 1 THEN part[1] ELSE Tabbed

IsNameServer(line) == Len(line) = 2 /\ line[1][1] \in Prefixed

DefaultNameServer(lines) ==
  LET found == {k \in DOMAIN lines : IsNameServer(lines[k])}
  IN  IF found = {} THEN LocalHost ELSE Text(lines[Min(found)][2])

(***************************************************************************)
(* What the resolver of the system makes of the same file (resolv.conf(5), *)
(* external): the keyword starts the line, any white space follows it, the *)
(* next word is the address, whatever comes after that.                    *)
(***************************************************************************)
(* The words after the first, of which the first is the address.           *)
WordsAfter(line) ==
  ({line[1][j] : j \in 2..Len(line[1])} \union UNION {Range(line[i]) : i \in 2..Len(line)})
    \ {NoWord}

(* The address of the system's first server is one of these.               *)
SystemNameServers(lines) ==
  LET named == {k \in DOMAIN lines : lines[k][1][1] = "nameserver" /\ WordsAfter(lines[k]) # {}}
  IN  IF named = {} THEN {LocalHost} ELSE WordsAfter(lines[Min(named)])

(* Every line about a server is the keyword, a space and the address.      *)
WellSpaced(lines) ==
  \A k \in DOMAIN lines :
    lines[k][1][1] \in Prefixed =>
      /\ lines[k][1] = <<"nameserver">> /\ Len(lines[k]) = 2
      /\ Len(lines[k][2]) = 1 /\ lines[k][2][1] # NoWord
=============================================================================
