------------------------------ MODULE Settings ------------------------------
(***************************************************************************)
(* What Benchmark.Run makes of its settings before it starts: init and     *)
(* what follows from it for the transport, the requests and the delays     *)
(* (pkg/dnsbench/benchmark.go:229-340, 557-593, 611-674, 768-924).  A      *)
(* Benchmark is a struct that init changes in place, and that its owner    *)
(* may run more than once.                                                 *)
(*                                                                         *)
(* Texts are records of the parts that init tells apart.                   *)
(***************************************************************************)
EXTENDS RequestMessage, Startup, FiniteSets

CONSTANTS
  Starts,     \* settings with which a Benchmark may be run, each with the lines
              \* of /etc/resolv.conf and, if --edns0 comes from them, arguments
  MaxRuns     \* bound of the model: how often the Benchmark is run

DelayForms == {"", "malformed", "single", "interval"}

(* What stands for every text, such as [[::1]] and [[::1]]:53, that no      *)
(* longer splits into a host and a port.                                   *)
Garbled == "[[::1]]"

NoServer == [scheme |-> "", host |-> "", port |-> 0, path |-> ""]

Benchmarks ==
  [ server : [ scheme : {"", "http", "https", "quic"}, host : STRING,
               port : Nat,                          \* 0: there is none
               path : STRING ],
    tcp : BOOLEAN, dot : BOOLEAN, qperConn : Nat, dohMethod : {"", "get", "post"},
    dohProtocol : {"", "1.1", "2", "3"}, separate : BOOLEAN, useDoH : BOOLEAN, useQuic : BOOLEAN,
    count : Nat, duration : Nat, types : Seq(STRING), concurrency : Nat,
    edns0 : Nat, dnssec : BOOLEAN, cookie : BOOLEAN,
    ednsopt : [ given : BOOLEAN, parts : Nat, hex : BOOLEAN, decimal : BOOLEAN,
                code : Nat ],
    ecs : {"", "valid", "invalid"},
    delay : [ form : DelayForms, start : Nat, end : Nat ],
    delayStart : Nat, delayEnd : Nat ]

(* An owner starts with what none of his runs has changed yet.  An address *)
(* with colons has a port only if it is in brackets.  The parser refuses a *)
(* flag that is given twice, with its value attached or not.               *)
ASSUME SettingsAssumption ==
  /\ MaxRuns \in Nat
  /\ \A s \in Starts : LET o == s.settings IN
       /\ o \in Benchmarks
       /\ o.delayStart = 0 /\ o.delayEnd = 0 /\ ~o.useDoH /\ ~o.useQuic
       /\ o.server.scheme \in {"http", "https", "quic"} => o.server.host # ""
       /\ o.server.host \in {"::1", Garbled} => o.server.port = 0
       /\ s.args \in Seq(Range(s.args))
       /\ \A j, k \in DOMAIN s.args : {s.args[j], s.args[k]} \subseteq {Edns0, Attached} => j = k
       /\ s.resolv \in Seq(Seq(Seq(STRING)))

VARIABLES
  begun,  \* history: what it began with
  given,  \* history: the settings the owner gave
  b,      \* the Benchmark
  phase,  \* "idle", "running" or "refused": what the latest Run came to
  runs    \* history: how often Run was called

vars == <<begun, given, b, phase, runs>>

Init ==
  /\ begun \in Starts
  /\ given = IF begun.args = << >> THEN begun.settings
             ELSE [begun.settings EXCEPT !.edns0 = Parse(PreprocessArgs(begun.args)).edns0]
  /\ b = given
  /\ phase = "idle" /\ runs = 0

(***************************************************************************)
(* init.                                                                   *)
(***************************************************************************)
Default(x, zero, value) == IF x = zero THEN value ELSE x

IsHttp(server) == server.scheme \in {"http", "https"}

(* net.JoinHostPort puts everything with a colon in it into brackets, also *)
(* what is in brackets already.  "::1" stands for such addresses.          *)
JoinHost(host) ==
  CASE host = "::1"               -> "[::1]"
    [] host \in {"[::1]", Garbled} -> Garbled
    [] OTHER                      -> host

DefaultPort(o) == IF o.dot \/ o.useQuic THEN 853 ELSE 53

(* net.SplitHostPort finds a port.                                         *)
HasPort(server) == server.port # 0 /\ server.host # Garbled

(* Mutant: a port is added to the server of every run.                     *)
AddPort(o) ==
  IF o.useDoH THEN o
  ELSE [o EXCEPT !.server.port = DefaultPort(o), !.server.host = JoinHost(@)]

AddPortIfMissing(o) ==
  IF o.useDoH \/ HasPort(o.server) THEN o
  ELSE [o EXCEPT !.server.port = DefaultPort(o), !.server.host = JoinHost(@)]

(* Without a server the one of the system is used, which has no port.      *)
WithServer(o) ==
  IF o.server = NoServer THEN [o EXCEPT !.server.host = DefaultNameServer(begun.resolv)]
  ELSE o

WithProtocol(o) ==
  [o EXCEPT !.useDoH = IsHttp(o.server),
            !.useQuic = o.server.scheme = "quic",
            !.server.path = IF IsHttp(o.server) THEN Default(@, "", "/dns-query") ELSE @,
            !.server.scheme = IF @ = "quic" THEN "" ELSE @]

(* Mutant: a run without --number has no default for it.                   *)
CountAsGiven(o) == o.count

CountOf(o) == IF o.count = 0 /\ o.duration = 0 THEN 1 ELSE o.count

(* What init has done to the Benchmark by the time it first looks for an   *)
(* error.                                                                  *)
Normalised(o) ==
  LET p == AddPortIfMissing(WithProtocol(WithServer(o)))
  IN  [p EXCEPT !.types = Default(@, << >>, <<"A">>),
                !.concurrency = Default(@, 0, 1),
                !.count = CountOf(o)]

BadEdnsOpt(o) ==
  o.ednsopt.given /\ (o.ednsopt.parts # 2 \/ ~o.ednsopt.hex \/ ~o.ednsopt.decimal)

TwoSubnets(o) == o.ednsopt.given /\ o.ecs # "" /\ o.ednsopt.code = EDNS0SUBNET

Refused(o) ==
  \/ o.duration > 0 /\ o.count > 0
  \/ o.edns0 # 0 /\ o.edns0 \notin 512..4096
  \/ BadEdnsOpt(o)
  \/ TwoSubnets(o)
  \/ o.ecs = "invalid"

(* Mutant: the ends of an interval may be equal.                           *)
EmptyAllowed(o) ==
  o.delay.form = "malformed" \/ (o.delayEnd > 0 /\ o.delayEnd < o.delayStart)

(* A check of the fields that parseRequestDelay has just set.              *)
BadDelay(o) ==
  \/ o.delay.form = "malformed"
  \/ o.delayEnd > 0 /\ o.delayStart > 0 /\ o.delayEnd <= o.delayStart

WithDelay(o) ==
  [o EXCEPT !.delayStart = IF o.delay.form \in {"single", "interval"} THEN o.delay.start ELSE @,
            !.delayEnd   = IF o.delay.form = "interval" THEN o.delay.end ELSE @]

CallRun ==
  /\ phase # "running" /\ runs < MaxRuns
  /\ runs' = runs + 1
  /\ UNCHANGED <<begun, given>>

RunStarts ==
  /\ CallRun
  /\ b' = WithDelay(Normalised(b))
  /\ ~Refused(b') /\ ~BadDelay(b')
  /\ phase' = "running"

(* An error leaves what init has changed so far as it is.                  *)
RunRefused ==
  /\ CallRun
  /\ \/ Refused(Normalised(b)) /\ b' = Normalised(b)
     \/ ~Refused(Normalised(b)) /\ b' = WithDelay(Normalised(b)) /\ BadDelay(b')
  /\ phase' = "refused"

RunEnds ==
  /\ phase = "running"
  /\ phase' = "idle"
  /\ UNCHANGED <<begun, given, b, runs>>

Terminating == phase # "running" /\ runs = MaxRuns /\ UNCHANGED vars

Next == RunStarts \/ RunRefused \/ RunEnds \/ Terminating
Spec == Init /\ [][Next]_vars

(***************************************************************************)
(* What a run does with the Benchmark.                                     *)
(***************************************************************************)
(* network(): the transport that the run announces and the report names.   *)
Announced(o) ==
  CASE o.useDoH  -> << o.server.scheme, Default(o.dohProtocol, "", "1.1"),
                       Default(o.dohMethod, "", "post") >>
    [] o.useQuic -> << "quic" >>
    [] OTHER     -> << IF o.dot THEN "tcp-tls" ELSE IF o.tcp THEN "tcp" ELSE "udp" >>

(* Mutant: TCP is looked at after TLS.                                     *)
TcpLast(o) == IF o.tcp THEN "tcp" ELSE IF o.dot THEN "tcp-tls" ELSE "udp"

(* getDNSClient: the network of its client.                                *)
ClientNet(o) == IF o.dot THEN "tcp-tls" ELSE IF o.tcp THEN "tcp" ELSE "udp"

(* dohQuery and the URL it is given: scheme, transport and method.         *)
DohClient(o) ==
  << o.server.scheme,
     IF o.dohProtocol \in {"2", "3"} THEN o.dohProtocol ELSE "1.1",
     IF o.dohMethod = "get" THEN "get" ELSE "post" >>

(* workerQueryFactory: the client every query goes through.                *)
Dialled(o) ==
  CASE o.useDoH  -> DohClient(o)
    [] o.useQuic -> << "quic" >>
    [] OTHER     -> << ClientNet(o) >>

Multiplexed(o) == o.useDoH \/ o.useQuic

(* How many clients the workers have: of DoH and DoQ they share one unless *)
(* --separate-worker-connections is given, of plain DNS each has its own.  *)
Clients(o) == IF Multiplexed(o) /\ ~o.separate THEN 1 ELSE o.concurrency

(* Everything the transport flags decide: client, address, rotation.       *)
Effect(o) ==
  << Dialled(o), o.server, Clients(o), IF Multiplexed(o) THEN 0 ELSE o.qperConn >>

NoFlag == [ tcp |-> FALSE, dot |-> FALSE, qperConn |-> 0, dohMethod |-> "",
            dohProtocol |-> "", separate |-> FALSE ]
FlagsSet(o) == {f \in DOMAIN NoFlag : o[f] # NoFlag[f]}

(* Mutant: the warnings for DNS over QUIC are left out.                    *)
WarnedForDohOnly(o) ==
  {f \in FlagsSet(o) : IF f \in {"tcp", "dot", "qperConn"} THEN o.useDoH
                       ELSE f # "separate" /\ ~o.useDoH}

(* unsupportedOptionWarnings: the flags of which it says they are ignored. *)
Warned(o) ==
  {f \in FlagsSet(o) : IF f \in {"tcp", "dot", "qperConn"} THEN Multiplexed(o)
                       ELSE f # "separate" /\ ~o.useDoH}

(* delay: what a worker may wait for after a query.                        *)
Delays(o) ==
  CASE o.delayStart > 0 /\ o.delayEnd > 0 -> o.delayStart..(o.delayEnd - 1)
    [] o.delayStart > 0 /\ o.delayEnd = 0 -> {o.delayStart}
    [] OTHER -> {0}

(***************************************************************************)
(* Properties.                                                             *)
(***************************************************************************)
Running == phase = "running"

TypeOK ==
  /\ given \in Benchmarks
  /\ b \in Benchmarks
  /\ phase \in {"idle", "running", "refused"} /\ runs \in 0..MaxRuns

(* The transport that the run announces, and the report repeats, is the    *)
(* one its workers use: three functions decide it independently.  In the   *)
(* first run it is the one that the given server's scheme asks for; only   *)
(* then, as init strips quic:// off the server for good.                   *)
AnnouncedIsDialled ==
  Running =>
    /\ Announced(b) = Dialled(b)
    /\ runs = 1 =>
         /\ Dialled(b) = <<"quic">> <=> given.server.scheme = "quic"
         /\ IsHttp(given.server) => Dialled(b)[1] = given.server.scheme
         /\ given.dot /\ given.server.scheme = "" => Dialled(b) = <<"tcp-tls">>

ValuesOf(f) ==
  CASE f \in {"tcp", "dot", "separate"} -> BOOLEAN
    [] f = "qperConn"       -> {0, 1}
    [] f = "dohMethod"      -> {"", "get", "post"}
    [] f = "dohProtocol"    -> {"", "1.1", "2", "3"}

MakesNoDifference(f) ==
  \A v \in ValuesOf(f) : Effect(Normalised([given EXCEPT ![f] = v])) = Effect(b)

(* init warns of a transport flag exactly when it makes no difference to   *)
(* how and where queries are sent, with two exceptions: nobody is told     *)
(* that --tcp does nothing beside --dot, nor that a single worker, or the  *)
(* workers of plain DNS, never share a connection.                         *)
WarnedIffIgnored ==
  Running /\ runs = 1 =>
    LET ignored == {f \in FlagsSet(b) : MakesNoDifference(f)} IN
    /\ Warned(b) \subseteq ignored
    /\ ignored \ Warned(b) \subseteq
         {f \in {"tcp"} : b.dot}
         \union {f \in {"separate"} : ~Multiplexed(b) \/ b.concurrency = 1}

(* The settings that Benchmark assumes of a run: workers and types there   *)
(* are, and it is either counted or timed, also the second time.           *)
ReadyForWorkers ==
  Running => /\ b.concurrency > 0 /\ b.types # << >>
             /\ b.count = 0 <=> b.duration > 0

(* Requests of an accepted run can always be built.  They carry one OPT    *)
(* record or none, of the size that was asked for, with every option that  *)
(* was asked for but never with two client subnets for the server to       *)
(* choose from; the DO bit is set exactly for --dnssec.                    *)
WellFormedRequests ==
  Running =>
    LET m == CreateReqMsg(b)
        asked == (IF b.ednsopt.given THEN {"ednsopt"} ELSE {})
                 \union (IF b.ecs # "" THEN {"ecs"} ELSE {})
                 \union (IF b.cookie THEN {"cookie"} ELSE {})
    IN  /\ ~PanicsCreating(b)
        /\ Len(m) = IF b.edns0 > 0 \/ asked # {} \/ b.dnssec THEN 1 ELSE 0
        /\ {OptionsOf(m)[k].from : k \in DOMAIN OptionsOf(m)} = asked
        /\ m # << >> => /\ m[1].do = b.dnssec
                        /\ m[1].size = IF b.edns0 > 0 THEN b.edns0 ELSE 1232
        /\ Cardinality(Numbered(m, EDNS0SUBNET)) <= 1

(* An address but for its brackets.                                        *)
SameHost(host, other) == host = other \/ {host, other} = {"::1", "[::1]"}

(* The host an owner wants asked, and the port.                            *)
Wanted ==
  CASE given.server # NoServer      -> {given.server.host}
    [] given.server = NoServer /\ WellSpaced(begun.resolv)
                                    -> SystemNameServers(begun.resolv)
    [] OTHER                        -> {DefaultNameServer(begun.resolv)}

PortWanted ==
  CASE given.server.port # 0 -> given.server.port
    [] given.server.port = 0 /\ (given.dot \/ given.server.scheme = "quic") -> 853
    [] OTHER                 -> 53

(* Every run of a Benchmark asks the server that was given or, without     *)
(* one, the system's (of resolv.conf files that say so in the plain form), *)
(* at the port that was given or that of the transport which was asked     *)
(* for: a later run neither takes the port for a part of the address nor   *)
(* reads another server.  The exception is an address that is given in     *)
(* brackets but without a port, which becomes one that cannot be dialled.  *)
(* A file in another form may make the code read another server than the   *)
(* system does (docs/index.md:50): of it this says only that runs agree.   *)
ServerAsked ==
  Running /\ ~IsHttp(given.server) =>
    \E host \in Wanted :
      IF given.server.port = 0 /\ host \in {"[::1]", Garbled}
      THEN b.server.host = Garbled
      ELSE /\ SameHost(b.server.host, host) /\ b.server.host # "::1"
           /\ b.server.port = PortWanted

(* However --edns0 is given, no other argument is lost to it: what follows *)
(* it is its value if that is a number, and a query otherwise.             *)
ArgumentsKept ==
  begun.args # << >> =>
    LET parsed == Parse(PreprocessArgs(begun.args))
        values == {k \in 2..Len(begun.args) : begun.args[k - 1] = Edns0
                                               /\ begun.args[k] \in DOMAIN Numbers}
    IN  /\ ~parsed.bad /\ ~parsed.expects
        /\ Len(parsed.rest) = Cardinality({k \in DOMAIN begun.args \ values :
                                              begun.args[k] \notin {Edns0, Attached}})
        /\ \A k \in values : given.edns0 = Numbers[begun.args[k]]
        /\ values = {} => given.edns0 = IF {Edns0, Attached} \intersect Range(begun.args) # {}
                                        THEN DefaultEdns0BufferSize ELSE 0

(* There is always a delay to choose (Int63n panics otherwise), and when   *)
(* neither end of the given interval is zero it is inside that interval.   *)
DelaysFromInterval ==
  Running =>
    /\ Delays(b) # {}
    /\ b.delay.form = "interval" /\ b.delay.start > 0 /\ b.delay.end > 0 =>
         \A d \in Delays(b) : b.delay.start <= d /\ d <= b.delay.end
=============================================================================
