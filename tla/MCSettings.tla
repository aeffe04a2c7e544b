----------------------------- MODULE MCSettings -----------------------------
(***************************************************************************)
(* Instances of Settings for TLC.  Transports varies what decides how the  *)
(* server is reached, Requests what decides what is asked and when.        *)
(***************************************************************************)
EXTENDS Settings

Server(scheme, host, port, path) ==
  [scheme |-> scheme, host |-> host, port |-> port, path |-> path]

NoOption == [given |-> FALSE, parts |-> 0, hex |-> FALSE, decimal |-> FALSE, code |-> 0]
Option(code) == [given |-> TRUE, parts |-> 2, hex |-> TRUE, decimal |-> TRUE, code |-> code]

Delay(form, start, end) == [form |-> form, start |-> start, end |-> end]
NoDelay == Delay("single", 0, 0)

Zero ==
  [ server |-> NoServer, tcp |-> FALSE, dot |-> FALSE, qperConn |-> 0,
    dohMethod |-> "", dohProtocol |-> "", separate |-> FALSE, useDoH |-> FALSE, useQuic |-> FALSE,
    count |-> 0, duration |-> 0, types |-> << >>, concurrency |-> 0,
    edns0 |-> 0, dnssec |-> FALSE, cookie |-> FALSE, ednsopt |-> NoOption,
    ecs |-> "", delay |-> NoDelay, delayStart |-> 0, delayEnd |-> 0 ]

Servers ==
  { NoServer, Server("", "dns.example", 0, ""), Server("", "::1", 0, ""),
    Server("", "[::1]", 0, ""), Server("", "[::1]", 5353, ""),
    Server("quic", "dns.example", 0, ""), Server("quic", "[::1]", 0, ""),
    Server("quic", "[::1]", 8853, ""), Server("https", "dns.example", 0, ""),
    Server("http", "[::1]", 8080, "/custom") }

Transports ==
  { [Zero EXCEPT !.server = s, !.tcp = tcp, !.dot = dot, !.qperConn = n,
                 !.dohMethod = method, !.dohProtocol = protocol,
                 !.separate = separate, !.concurrency = k] :
      s \in Servers, k \in {1, 2}, tcp \in BOOLEAN, dot \in BOOLEAN, n \in {0, 1},
      separate \in BOOLEAN, method \in {"", "get", "post"}, protocol \in {"", "1.1", "2", "3"} }

Options ==
  { NoOption, Option(EDNS0SUBNET), Option(EDNS0COOKIE), Option(65518),
    [Option(10) EXCEPT !.parts = 1, !.hex = FALSE],
    [Option(10) EXCEPT !.parts = 3], [Option(10) EXCEPT !.parts = 1],
    [Option(10) EXCEPT !.hex = FALSE], [Option(0) EXCEPT !.decimal = FALSE] }

Delays3 ==
  { NoDelay, Delay("", 0, 0), Delay("malformed", 0, 0), Delay("single", 2, 0),
    Delay("interval", 0, 2), Delay("interval", 1, 3), Delay("interval", 2, 2),
    Delay("interval", 2, 1), Delay("interval", 2, 0) }

Requests ==
  { [Zero EXCEPT !.edns0 = size, !.ednsopt = option, !.ecs = ecs, !.cookie = c,
                 !.dnssec = d] :
      size \in {0, 100, 512, 4096, 4097}, option \in Options,
      ecs \in {"", "valid", "invalid"}, c \in BOOLEAN, d \in BOOLEAN }
  \union
  { [Zero EXCEPT !.count = n, !.duration = t, !.concurrency = k, !.types = types,
                 !.delay = delay] :
      n \in 0..2, t \in 0..1, k \in 0..2, types \in {<< >>, <<"AAAA", "A">>},
      delay \in Delays3 }

(***************************************************************************)
(* What is read before the run.                                            *)
(***************************************************************************)
MCNumbers  == [n \in {"512", "100"} |-> IF n = "512" THEN 512 ELSE 100]
MCWords    == {"dns.example", "65536"}
MCPrefixed == {"nameserver", "nameservers"}

Lines ==
  { << <<"nameserver">>, <<"192.0.2.1">> >>, << <<"nameserver">>, <<"::1">> >>,
    << <<"nameserver">>, <<"">>, <<"192.0.2.1">> >>, << <<"nameserver", "::1">> >>,
    << <<"nameserver">>, <<"::1", "">> >>, << <<"nameserver">>, <<"">> >>,
    << <<"nameserver">>, <<"::1">>, <<"#">>, <<"ours">> >>,
    << <<"nameserver", "::1">>, <<"#ours">> >>, << <<"nameservers">>, <<"::1">> >>,
    << <<"#nameserver">>, <<"::1">> >>, << <<"options">>, <<"rotate">> >>, << <<"">> >> }

Files == UNION {[1..n -> Lines] : n \in 0..2}

ArgLists ==
  { list \in UNION {[1..n -> {Edns0, Attached, "--cookie"} \union DOMAIN MCNumbers
                                                     \union MCWords] : n \in 1..3} :
      Cardinality({k \in DOMAIN list : list[k] \in {Edns0, Attached}}) <= 1 }

Start(settings, lines, arguments) ==
  [settings |-> settings, resolv |-> lines, args |-> arguments]

Everything ==
  {Start(o, << >>, << >>) : o \in Transports \union Requests}
  \union {Start([Zero EXCEPT !.dot = dot], file, << >>) : dot \in BOOLEAN, file \in Files}
  \union {Start(Zero, << >>, list) : list \in ArgLists}
=============================================================================
