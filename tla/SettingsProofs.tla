--------------------------- MODULE SettingsProofs ---------------------------
(***************************************************************************)
(* Proofs about Settings, for any settings that an owner may give and any  *)
(* number of runs.  What init leaves behind is described field by field    *)
(* once; each property follows from the fields it is about.                *)
(***************************************************************************)
EXTENDS Settings, SumTheorems

(***************************************************************************)
(* What init does to each field.                                           *)
(***************************************************************************)
Fields ==
  { "server", "tcp", "dot", "qperConn", "dohMethod", "dohProtocol", "separate",
    "useDoH", "useQuic", "count", "duration", "types", "concurrency", "edns0",
    "dnssec", "cookie", "ednsopt", "ecs", "delay", "delayStart", "delayEnd" }

(* Benchmarks but for the size of the OPT record, which comes from the     *)
(* arguments and is only typed once init has accepted it.                  *)
Shaped(o) ==
  /\ DOMAIN o = Fields
  /\ DOMAIN o.server = {"scheme", "host", "port", "path"} /\ o.server.port \in Nat
  /\ {o.tcp, o.dot, o.separate, o.useDoH, o.useQuic, o.dnssec} \subseteq BOOLEAN
  /\ o.ednsopt.code \in Nat /\ o.qperConn \in Nat
  /\ o.dohMethod \in {"", "get", "post"} /\ o.dohProtocol \in {"", "1.1", "2", "3"}
  /\ {o.count, o.duration, o.concurrency} \subseteq Nat
  /\ o.delay.form \in DelayForms
  /\ {o.delay.start, o.delay.end, o.delayStart, o.delayEnd} \subseteq Nat

(* The fields that shape a request are never changed.                      *)
SameRequests(o, p) ==
  /\ p.edns0 = o.edns0 /\ p.ednsopt = o.ednsopt /\ p.ecs = o.ecs
  /\ p.cookie = o.cookie /\ p.dnssec = o.dnssec

(* What a server says of the protocol, and what is left of it.             *)
ReadOff(from, doh, quic, to) ==
  /\ doh = IsHttp(from) /\ quic = (from.scheme = "quic")
  /\ to.scheme = IF from.scheme = "quic" THEN "" ELSE from.scheme
  /\ to.port \in {from.port, 853, 53}

(* A server is put in, then the protocol is read off it, then the port is  *)
(* added: nothing but the server and the protocol changes.                 *)
LEMMA ServerFields ==
  ASSUME NEW o, Shaped(o)
  PROVE  LET p == AddPortIfMissing(WithProtocol(WithServer(o))) IN
         /\ DOMAIN p = Fields /\ DOMAIN p.server = {"scheme", "host", "port", "path"}
         /\ {p.useDoH, p.useQuic} \subseteq BOOLEAN /\ ~(p.useDoH /\ p.useQuic)
         /\ \A f \in Fields \ {"server", "useDoH", "useQuic"} : p[f] = o[f]
         /\ ReadOff(o.server, p.useDoH, p.useQuic, p.server)
<1> DEFINE s == WithServer(o)
           q == WithProtocol(s)
           p == AddPortIfMissing(q)
<1>1. /\ DOMAIN s = Fields /\ DOMAIN s.server = {"scheme", "host", "port", "path"}
      /\ \A f \in Fields \ {"server"} : s[f] = o[f]
      /\ s.server.port = o.server.port /\ s.server.scheme = o.server.scheme
  BY DEF WithServer, Shaped, Fields
<1> HIDE DEF s
<1>2. /\ DOMAIN q = Fields /\ DOMAIN q.server = {"scheme", "host", "port", "path"}
      /\ {q.useDoH, q.useQuic} \subseteq BOOLEAN /\ ~(q.useDoH /\ q.useQuic)
      /\ \A f \in Fields \ {"server", "useDoH", "useQuic"} : q[f] = s[f]
      /\ ReadOff(s.server, q.useDoH, q.useQuic, q.server)
  <2>1. /\ DOMAIN q = Fields /\ DOMAIN q.server = {"scheme", "host", "port", "path"}
        /\ q.server.port = s.server.port
        /\ q.server.scheme = IF s.server.scheme = "quic" THEN "" ELSE s.server.scheme
    BY <1>1 DEF WithProtocol, Fields
  <2>2. \A f \in Fields \ {"server", "useDoH", "useQuic"} : q[f] = s[f]
    BY <1>1 DEF WithProtocol, Fields
  <2>3. q.useDoH = IsHttp(s.server)
    BY <1>1, Zenon DEF WithProtocol, Fields
  <2>4. q.useQuic = (s.server.scheme = "quic")
    BY <1>1, Zenon DEF WithProtocol, Fields
  <2>5. ~(IsHttp(s.server) /\ s.server.scheme = "quic")
    BY DEF IsHttp
  <2>6. IsHttp(s.server) \in BOOLEAN /\ (s.server.scheme = "quic") \in BOOLEAN
    BY DEF IsHttp
  <2>7. {q.useDoH, q.useQuic} \subseteq BOOLEAN /\ ~(q.useDoH /\ q.useQuic)
    BY <2>3, <2>4, <2>5, <2>6, Zenon
  <2>8. ReadOff(s.server, q.useDoH, q.useQuic, q.server)
    BY <2>1, <2>3, <2>4, Zenon DEF ReadOff
  <2> QED BY <2>1, <2>2, <2>7, <2>8
<1> HIDE DEF q
<1>3. /\ DOMAIN p = Fields /\ DOMAIN p.server = {"scheme", "host", "port", "path"}
      /\ \A f \in Fields \ {"server"} : p[f] = q[f]
      /\ p.server.port \in {q.server.port, DefaultPort(q)}
      /\ p.server.scheme = q.server.scheme
  BY <1>2 DEF AddPortIfMissing, Fields
<1> HIDE DEF p
<1>4. p.useDoH = q.useDoH /\ p.useQuic = q.useQuic /\ p.dot = q.dot
  BY <1>3 DEF Fields
<1>5. \A f \in Fields \ {"server", "useDoH", "useQuic"} : p[f] = o[f]
  BY <1>1, <1>2, <1>3
<1>6. {p.useDoH, p.useQuic} \subseteq BOOLEAN /\ ~(p.useDoH /\ p.useQuic)
  BY <1>2, <1>4
<1>7. /\ DOMAIN p = Fields /\ DOMAIN p.server = {"scheme", "host", "port", "path"}
  BY <1>3
<1>8. ReadOff(o.server, p.useDoH, p.useQuic, p.server)
  <2>1. p.useDoH = IsHttp(o.server)
    BY <1>1, <1>2, <1>4, Zenon DEF ReadOff, IsHttp
  <2>2. p.useQuic = (o.server.scheme = "quic")
    BY <1>1, <1>2, <1>4, Zenon DEF ReadOff
  <2>3. p.server.scheme = IF o.server.scheme = "quic" THEN "" ELSE o.server.scheme
    <3>1. q.server.scheme = IF s.server.scheme = "quic" THEN "" ELSE s.server.scheme
      BY <1>2, Zenon DEF ReadOff
    <3> QED BY <1>1, <1>3, <3>1
  <2>4. p.server.port \in {o.server.port, 853, 53}
    <3>1. q.server.port \in {o.server.port, 853, 53}
      <4>1. q.server.port \in {s.server.port, 853, 53}
        BY <1>2, Zenon DEF ReadOff
      <4> QED BY <1>1, <4>1
    <3>2. DefaultPort(q) \in {853, 53}
      BY DEF DefaultPort
    <3> QED BY <1>3, <3>1, <3>2
  <2> QED BY <2>1, <2>2, <2>3, <2>4, Zenon DEF ReadOff
<1> QED BY <1>5, <1>6, <1>7, <1>8 DEF p, q, s

(* Then there are defaults for what to ask and how often.                  *)
LEMMA NormalisedFields ==
  ASSUME NEW o, Shaped(o)
  PROVE  LET n == Normalised(o) IN
         /\ Shaped(n) /\ SameRequests(o, n)
         /\ n.delay = o.delay /\ n.duration = o.duration /\ n.count = CountOf(o)
         /\ n.types # << >> /\ n.concurrency > 0 /\ ~(n.useDoH /\ n.useQuic)
         /\ ReadOff(o.server, n.useDoH, n.useQuic, n.server) /\ n.dot = o.dot
<1> DEFINE p == AddPortIfMissing(WithProtocol(WithServer(o)))
           n == Normalised(o)
<1>1. /\ DOMAIN p = Fields /\ DOMAIN p.server = {"scheme", "host", "port", "path"}
      /\ {p.useDoH, p.useQuic} \subseteq BOOLEAN /\ ~(p.useDoH /\ p.useQuic)
      /\ \A f \in Fields \ {"server", "useDoH", "useQuic"} : p[f] = o[f]
      /\ ReadOff(o.server, p.useDoH, p.useQuic, p.server)
  BY ServerFields
<1>2. n = [p EXCEPT !.types = Default(@, << >>, <<"A">>),
                    !.concurrency = Default(@, 0, 1),
                    !.count = CountOf(o)]
  BY DEF Normalised
<1> HIDE DEF p, n
<1>3. /\ DOMAIN n = Fields
      /\ \A f \in Fields \ {"types", "concurrency", "count"} : n[f] = p[f]
      /\ n.types = Default(o.types, << >>, <<"A">>)
      /\ n.concurrency = Default(o.concurrency, 0, 1)
      /\ n.count = CountOf(o)
  BY <1>1, <1>2 DEF Fields
<1>4. \A f \in Fields \ {"server", "useDoH", "useQuic", "types", "concurrency", "count"} :
        n[f] = o[f]
  BY <1>1, <1>3
<1>5. /\ n.tcp = o.tcp /\ n.dot = o.dot /\ n.dohMethod = o.dohMethod
      /\ n.separate = o.separate /\ n.qperConn = o.qperConn
      /\ n.dohProtocol = o.dohProtocol /\ n.duration = o.duration /\ n.delay = o.delay
      /\ n.delayStart = o.delayStart /\ n.delayEnd = o.delayEnd
      /\ n.dnssec = o.dnssec /\ n.ednsopt = o.ednsopt
  BY <1>4 DEF Fields
<1>6. n.server = p.server /\ n.useDoH = p.useDoH /\ n.useQuic = p.useQuic /\ p.dot = n.dot
  BY <1>3 DEF Fields
<1>7. SameRequests(o, n)
  BY <1>4 DEF SameRequests, Fields
<1>8. /\ n.types # << >> /\ n.concurrency > 0 /\ n.concurrency \in Nat /\ n.count \in Nat
  <2>1. n.types # << >>
    <3>1. <<"A">> # << >>
      OBVIOUS
    <3> QED BY <1>3, <3>1 DEF Default
  <2>2. {o.count, o.duration, o.concurrency} \subseteq Nat
    BY DEF Shaped
  <2>3. n.concurrency > 0 /\ n.concurrency \in Nat
    BY <1>3, <2>2 DEF Default
  <2>4. n.count \in Nat
    BY <1>3, <2>2 DEF CountOf
  <2> QED BY <2>1, <2>3, <2>4
<1>9. ReadOff(o.server, n.useDoH, n.useQuic, n.server)
  <2>1. ReadOff(o.server, p.useDoH, p.useQuic, p.server)
    BY <1>1
  <2> QED BY <1>6, <2>1
<1>10. n.server.port \in Nat
  <2>1. o.server.port \in Nat
    BY DEF Shaped
  <2>2. n.server.port \in {o.server.port, 853, 53}
    BY <1>9, Zenon DEF ReadOff
  <2> QED BY <2>1, <2>2
<1>11. Shaped(n)
  <2>1. DOMAIN n = Fields /\ DOMAIN n.server = {"scheme", "host", "port", "path"}
    BY <1>1, <1>3, <1>6
  <2>2. {n.tcp, n.dot, n.separate, n.useDoH, n.useQuic, n.dnssec} \subseteq BOOLEAN
    BY <1>1, <1>5, <1>6, Zenon DEF Shaped
  <2>3. /\ n.dohMethod \in {"", "get", "post"} /\ n.dohProtocol \in {"", "1.1", "2", "3"}
        /\ n.delay.form \in DelayForms
        /\ {n.delay.start, n.delay.end, n.delayStart, n.delayEnd} \subseteq Nat
        /\ n.duration \in Nat /\ n.ednsopt.code \in Nat /\ n.qperConn \in Nat
    BY <1>5 DEF Shaped
  <2> QED BY <1>8, <1>10, <2>1, <2>2, <2>3 DEF Shaped
<1>12. ~(n.useDoH /\ n.useQuic)
  BY <1>1, <1>6
<1> QED BY <1>3, <1>5, <1>7, <1>8, <1>9, <1>11, <1>12, Zenon DEF n

(* At last the delay is parsed into two fields of its own.                 *)
LEMMA DelayFields ==
  ASSUME NEW o, Shaped(o)
  PROVE  LET n == WithDelay(o) IN
         /\ Shaped(n)
         /\ \A f \in Fields \ {"delayStart", "delayEnd"} : n[f] = o[f]
         /\ o.delay.form = "interval" => n.delayStart = o.delay.start /\ n.delayEnd = o.delay.end
<1> DEFINE n == WithDelay(o)
<1>1. /\ DOMAIN n = Fields
      /\ \A f \in Fields \ {"delayStart", "delayEnd"} : n[f] = o[f]
      /\ n.delayStart = IF o.delay.form \in {"single", "interval"} THEN o.delay.start
                        ELSE o.delayStart
      /\ n.delayEnd = IF o.delay.form = "interval" THEN o.delay.end ELSE o.delayEnd
  BY DEF WithDelay, Shaped, Fields
<1> HIDE DEF n
<1>2. /\ n.server = o.server /\ n.tcp = o.tcp /\ n.dot = o.dot /\ n.useDoH = o.useDoH
      /\ n.useQuic = o.useQuic /\ n.dohMethod = o.dohMethod /\ n.dohProtocol = o.dohProtocol
      /\ n.count = o.count /\ n.duration = o.duration /\ n.concurrency = o.concurrency
      /\ n.delay = o.delay /\ n.dnssec = o.dnssec /\ n.ednsopt = o.ednsopt
      /\ n.separate = o.separate /\ n.qperConn = o.qperConn
  BY <1>1 DEF Fields
<1>3. Shaped(n)
  BY <1>1, <1>2, ZenonT(30) DEF Shaped
<1> QED BY <1>1, <1>3 DEF n

(* A run that init lets start.                                             *)
Accepted(o, n) ==
  /\ n = WithDelay(Normalised(o))
  /\ ~Refused(n) /\ ~BadDelay(n)

(* What init leaves of the settings it accepts: their shape, and defaults   *)
(* for what to ask and how often.                                          *)
LEMMA AcceptedFields ==
  ASSUME NEW o, Shaped(o), NEW n, Accepted(o, n)
  PROVE  /\ Shaped(n) /\ SameRequests(o, n)
         /\ n.delay = o.delay /\ n.duration = o.duration /\ n.count = CountOf(o)
         /\ n.types # << >> /\ n.concurrency > 0 /\ ~(n.useDoH /\ n.useQuic)
         /\ ReadOff(o.server, n.useDoH, n.useQuic, n.server) /\ n.dot = o.dot
         /\ n.delay.form = "interval" =>
              n.delayStart = n.delay.start /\ n.delayEnd = n.delay.end
<1> DEFINE m == Normalised(o)
<1>1. /\ Shaped(m) /\ SameRequests(o, m)
      /\ m.delay = o.delay /\ m.duration = o.duration /\ m.count = CountOf(o)
      /\ m.types # << >> /\ m.concurrency > 0 /\ ~(m.useDoH /\ m.useQuic)
      /\ ReadOff(o.server, m.useDoH, m.useQuic, m.server) /\ m.dot = o.dot
  BY NormalisedFields
<1>2. n = WithDelay(m)
  BY DEF Accepted
<1> HIDE DEF m
<1>3. /\ Shaped(n)
      /\ \A f \in Fields \ {"delayStart", "delayEnd"} : n[f] = m[f]
      /\ m.delay.form = "interval" => n.delayStart = m.delay.start /\ n.delayEnd = m.delay.end
  BY <1>1, <1>2, DelayFields
<1>4. /\ n.delay = m.delay /\ n.duration = m.duration /\ n.count = m.count
      /\ n.types = m.types /\ n.concurrency = m.concurrency /\ n.server = m.server
      /\ n.useDoH = m.useDoH /\ n.useQuic = m.useQuic /\ n.dot = m.dot
      /\ n.edns0 = m.edns0 /\ n.ednsopt = m.ednsopt /\ n.ecs = m.ecs
      /\ n.cookie = m.cookie /\ n.dnssec = m.dnssec
  BY <1>3 DEF Fields
<1>5. ReadOff(o.server, n.useDoH, n.useQuic, n.server) /\ n.dot = o.dot
  <2>1. ReadOff(o.server, m.useDoH, m.useQuic, m.server) /\ m.dot = o.dot
    BY <1>1
  <2>2. /\ n.server = m.server /\ n.useDoH = m.useDoH /\ n.useQuic = m.useQuic
        /\ n.dot = m.dot
    BY <1>4
  <2> QED BY <2>1, <2>2
<1> QED BY <1>1, <1>3, <1>4, <1>5 DEF SameRequests

(***************************************************************************)
(* What the Benchmark is between its runs.                                 *)
(***************************************************************************)
Settled ==
  /\ Shaped(given) /\ Shaped(b) /\ runs \in Nat
  /\ runs = 0 => b = given
  /\ Running => \E o : Shaped(o) /\ Accepted(o, b) /\ (runs = 1 => o = given)

(* It begins with what the owner gave.                                     *)
LEMMA SettledInit == Init => Settled
<1> SUFFICES ASSUME Init PROVE Settled
  OBVIOUS
<1>1. begun.settings \in Benchmarks
  BY SettingsAssumption DEF Init
<1>2. Shaped(begun.settings)
  BY <1>1, ZenonT(30) DEF Benchmarks, Shaped, Fields
<1>3. Shaped(given)
  <2>1. CASE given = begun.settings
    BY <1>2, <2>1
  <2>2. CASE \E size : given = [begun.settings EXCEPT !.edns0 = size]
    <3>1. PICK size : given = [begun.settings EXCEPT !.edns0 = size]
      BY <2>2
    <3>2. DOMAIN given = Fields /\ \A f \in Fields \ {"edns0"} : given[f] = begun.settings[f]
      BY <1>2, <3>1 DEF Shaped, Fields
    <3> HIDE <2>2
    <3>3. \A f \in {"server", "tcp", "dot", "qperConn", "dohMethod", "dohProtocol",
                    "separate", "useDoH", "useQuic", "count", "duration",
                    "concurrency", "delay", "delayStart", "delayEnd", "dnssec",
                    "ednsopt"} :
            given[f] = begun.settings[f]
      BY <3>2 DEF Fields
    <3> QED BY <1>2, <3>2, <3>3, ZenonT(30) DEF Shaped
  <2> QED BY <2>1, <2>2 DEF Init
<1> QED BY <1>3 DEF Init, Settled, Running

(* The configuration of the system is read anew but does not change.       *)
LEMMA SameSystem ==
  ASSUME begun' = begun, NEW o
  PROVE  Normalised(o)' = Normalised(o)
<1>1. WithServer(o)' = WithServer(o)
  BY DEF WithServer
<1> QED BY <1>1 DEF Normalised

(* Every run starts from settings of the same shape.                       *)
LEMMA SettledStays == Settled /\ [Next]_vars => Settled'
<1> SUFFICES ASSUME Settled, [Next]_vars PROVE Settled'
  OBVIOUS
<1>0. UNCHANGED <<begun, given>>
  BY DEF Next, RunStarts, RunRefused, CallRun, RunEnds, Terminating, vars
<1>1. \A o : Normalised(o)' = Normalised(o)
  BY <1>0, SameSystem
<1>2. CASE RunStarts
  <2>1. Accepted(b, b') /\ runs' = runs + 1
    BY <1>2 DEF RunStarts, CallRun, Accepted
  <2>2. Shaped(b')
    BY <2>1, AcceptedFields DEF Settled
  <2>3. PICK o : o = b
    OBVIOUS
  <2>4. Shaped(o) /\ (runs' = 1 => o = given')
    BY <1>0, <2>1, <2>3 DEF Settled
  <2>5. Accepted(o, b)'
    BY <1>1, <2>1, <2>3 DEF Accepted
  <2> QED BY <1>0, <2>1, <2>2, <2>4, <2>5 DEF Settled, Running
<1>3. CASE RunRefused
  <2>1. b' = Normalised(b) \/ b' = WithDelay(Normalised(b))
    BY <1>3 DEF RunRefused
  <2>2. Shaped(b')
    BY <2>1, NormalisedFields, DelayFields DEF Settled
  <2> QED BY <1>0, <1>3, <2>2 DEF RunRefused, CallRun, Settled, Running
<1>4. CASE RunEnds \/ Terminating \/ UNCHANGED vars
  <2>1. UNCHANGED <<b, runs>> /\ (phase' = phase \/ phase' = "idle")
    BY <1>4 DEF RunEnds, Terminating, vars
  <2>2. ASSUME NEW o, Accepted(o, b) PROVE Accepted(o, b)'
    BY <1>1, <2>1, <2>2 DEF Accepted
  <2> QED BY <1>0, <2>1, <2>2 DEF Settled, Running
<1> QED BY <1>2, <1>3, <1>4 DEF Next

(* So it is between any number of runs, accepted or refused.               *)
LEMMA SettledHolds == Spec => []Settled
<1> QED BY SettledInit, SettledStays, PTL DEF Spec

(***************************************************************************)
(* The theorems.                                                           *)
(***************************************************************************)

(* Whatever settings Benchmark.init accepts, for whatever number of runs   *)
(* of one Benchmark, the transport that Run announces is the one that the  *)
(* query functions dial and, in the first run, that the server asks for.   *)
THEOREM TransportAsAnnounced == Spec => []AnnouncedIsDialled
<1>1. Settled => AnnouncedIsDialled
  <2> SUFFICES ASSUME Settled, Running PROVE AnnouncedIsDialled
    BY DEF AnnouncedIsDialled
  <2>1. PICK o : Shaped(o) /\ Accepted(o, b) /\ (runs = 1 => o = given)
    BY DEF Settled
  <2>2. Shaped(b) /\ ~(b.useDoH /\ b.useQuic) /\ ReadOff(o.server, b.useDoH, b.useQuic, b.server) /\ b.dot = o.dot
    BY <2>1, AcceptedFields
  <2>3. Announced(b) = Dialled(b)
    <3>1. CASE b.useDoH
      <4>1. /\ Default(b.dohProtocol, "", "1.1")
               = IF b.dohProtocol \in {"2", "3"} THEN b.dohProtocol ELSE "1.1"
            /\ Default(b.dohMethod, "", "post")
               = IF b.dohMethod = "get" THEN "get" ELSE "post"
        BY <2>2 DEF Default, Shaped
      <4> QED BY <2>2, <3>1, <4>1 DEF Announced, Dialled, DohClient
    <3>2. CASE ~b.useDoH
      BY <3>2 DEF Announced, Dialled, ClientNet
    <3> QED BY <3>1, <3>2
  <2>4. ASSUME runs = 1
        PROVE  /\ Dialled(b) = <<"quic">> <=> given.server.scheme = "quic"
               /\ IsHttp(given.server) => Dialled(b)[1] = given.server.scheme
               /\ given.dot /\ given.server.scheme = "" => Dialled(b) = <<"tcp-tls">>
    <3>1. /\ b.useDoH = IsHttp(given.server) /\ b.useQuic = (given.server.scheme = "quic")
          /\ b.dot = given.dot
      BY <2>1, <2>2, <2>4, Zenon DEF ReadOff
    <3>2. IsHttp(given.server) => b.server.scheme = given.server.scheme
      BY <2>1, <2>2, <2>4 DEF ReadOff, IsHttp
    <3>3. CASE IsHttp(given.server)
      <4>1. Dialled(b) = DohClient(b) /\ given.server.scheme # "quic"
        BY <3>1, <3>3 DEF Dialled, IsHttp
      <4>2. DohClient(b)[1] = b.server.scheme /\ DohClient(b) # <<"quic">>
        BY DEF DohClient
      <4> QED BY <3>2, <3>3, <4>1, <4>2 DEF IsHttp
    <3>4. CASE given.server.scheme = "quic"
      <4>1. ~IsHttp(given.server)
        BY <3>4 DEF IsHttp
      <4> QED BY <3>1, <3>4, <4>1 DEF Dialled
    <3>5. CASE ~IsHttp(given.server) /\ given.server.scheme # "quic"
      <4>1. Dialled(b) = <<ClientNet(b)>>
        BY <3>1, <3>5 DEF Dialled
      <4>2. ClientNet(b) # "quic" /\ (given.dot => ClientNet(b) = "tcp-tls")
        BY <3>1 DEF ClientNet
      <4>3. Dialled(b)[1] = ClientNet(b) /\ <<"quic">>[1] = "quic"
        BY <4>1
      <4> QED BY <3>5, <4>1, <4>2, <4>3, Zenon
    <3> QED BY <3>3, <3>4, <3>5
  <2> QED BY <2>3, <2>4 DEF AnnouncedIsDialled
<1> QED BY <1>1, SettledHolds, PTL

(* A run that Benchmark.init accepts has workers, something to ask, and    *)
(* exactly one of the two reasons to stop, a count or a duration.          *)
THEOREM AcceptedRunsCanStart == Spec => []ReadyForWorkers
<1>1. Settled => ReadyForWorkers
  <2> SUFFICES ASSUME Settled, Running PROVE ReadyForWorkers
    BY DEF ReadyForWorkers
  <2>1. PICK o : Shaped(o) /\ Accepted(o, b)
    BY DEF Settled
  <2>2. /\ b.duration = o.duration /\ b.count = CountOf(o)
        /\ b.types # << >> /\ b.concurrency > 0
    BY <2>1, AcceptedFields
  <2>3. ~(b.duration > 0 /\ b.count > 0)
    BY <2>1 DEF Accepted, Refused
  <2>4. {o.count, o.duration} \subseteq Nat
    BY <2>1 DEF Shaped
  <2>5. b.count = 0 <=> b.duration > 0
    BY <2>2, <2>3, <2>4 DEF CountOf
  <2> QED BY <2>2, <2>5 DEF ReadyForWorkers
<1> QED BY <1>1, SettledHolds, PTL

(* The delay between requests that parseRequestDelay leaves behind can be   *)
(* drawn by delayer, and lies inside the interval that was given.          *)
THEOREM DelaysCanBeDrawn == Spec => []DelaysFromInterval
<1>1. Settled => DelaysFromInterval
  <2> SUFFICES ASSUME Settled, Running PROVE DelaysFromInterval
    BY DEF DelaysFromInterval
  <2>1. PICK o : Shaped(o) /\ Accepted(o, b)
    BY DEF Settled
  <2>2. /\ Shaped(b)
        /\ b.delay.form = "interval" =>
             b.delayStart = b.delay.start /\ b.delayEnd = b.delay.end
    BY <2>1, AcceptedFields
  <2>3. b.delayStart \in Nat /\ b.delayEnd \in Nat
    BY <2>2 DEF Shaped
  <2>4. ~(b.delayEnd > 0 /\ b.delayStart > 0 /\ b.delayEnd <= b.delayStart)
    BY <2>1 DEF Accepted, BadDelay
  <2>5. CASE b.delayStart > 0 /\ b.delayEnd > 0
    <3>1. Delays(b) = b.delayStart..(b.delayEnd - 1)
      BY <2>5 DEF Delays
    <3>2. b.delayStart \in Delays(b)
      BY <2>3, <2>4, <2>5, <3>1
    <3> QED BY <2>2, <2>3, <3>1, <3>2 DEF DelaysFromInterval
  <2>6. CASE ~(b.delayStart > 0 /\ b.delayEnd > 0)
    <3>1. Delays(b) # {}
      BY <2>3, <2>6 DEF Delays
    <3> QED BY <2>2, <2>6, <3>1 DEF DelaysFromInterval
  <2> QED BY <2>5, <2>6
<1> QED BY <1>1, SettledHolds, PTL

(***************************************************************************)
(* What a transport flag makes a difference to.                            *)
(***************************************************************************)
Optional == {"tcp", "dot", "qperConn", "dohMethod", "dohProtocol", "separate"}

(* p is o but for the flag f, which is v, and perhaps the server.          *)
Differs(o, p, f, v) ==
  /\ DOMAIN o = Fields /\ DOMAIN p = Fields /\ p[f] = v
  /\ \A g \in Fields \ {"server", f} : p[g] = o[g]

(* init passes a flag on as it is and, but for the port of --dot, lets it  *)
(* decide nothing else.                                                    *)
LEMMA FlagPassed ==
  ASSUME NEW o, Shaped(o), NEW f \in Optional, NEW v
  PROVE  LET n == Normalised(o)
             m == Normalised([o EXCEPT ![f] = v])
         IN  Differs(n, m, f, v) /\ (f # "dot" \/ Multiplexed(n) => m.server = n.server)
<1> DEFINE p == [o EXCEPT ![f] = v]
           o1 == WithServer(o)
           p1 == WithServer(p)
           o2 == WithProtocol(o1)
           p2 == WithProtocol(p1)
           o3 == AddPortIfMissing(o2)
           p3 == AddPortIfMissing(p2)
           n == Normalised(o)
           m == Normalised(p)
<1>0. f \in Fields /\ f \notin {"server", "useDoH", "useQuic", "types", "concurrency",
                                 "count", "duration"}
  BY DEF Optional, Fields
<1>1. Differs(o, p, f, v) /\ p.server = o.server
  BY <1>0 DEF Differs, Shaped, Fields
<1>2. o.count = p.count /\ o.duration = p.duration
  BY <1>0, <1>1 DEF Differs, Fields
<1> HIDE DEF p
<1>3. Differs(o1, p1, f, v) /\ p1.server = o1.server
  BY <1>0, <1>1 DEF Differs, WithServer, Fields
<1> HIDE DEF o1, p1
<1>4. /\ Differs(o2, p2, f, v) /\ p2.server = o2.server
      /\ p2.useDoH = o2.useDoH /\ p2.useQuic = o2.useQuic
  BY <1>0, <1>3 DEF Differs, WithProtocol, Fields
<1> HIDE DEF o2, p2
<1>5. Differs(o3, p3, f, v)
  <2>1. DOMAIN o3 = Fields /\ \A g \in Fields \ {"server"} : o3[g] = o2[g]
    BY <1>4 DEF Differs, AddPortIfMissing, Fields
  <2>2. DOMAIN p3 = Fields /\ \A g \in Fields \ {"server"} : p3[g] = p2[g]
    BY <1>4 DEF Differs, AddPortIfMissing, Fields
  <2> HIDE DEF o3, p3
  <2> QED BY <1>0, <1>4, <2>1, <2>2 DEF Differs
<1>6. o3.useDoH = o2.useDoH /\ o3.useQuic = o2.useQuic
  BY <1>4 DEF Differs, AddPortIfMissing, Fields
<1>7. ASSUME f # "dot" \/ o2.useDoH \/ o2.useQuic PROVE p3.server = o3.server
  <2>1. o2.useDoH \/ DefaultPort(p2) = DefaultPort(o2)
    <3>1. CASE f # "dot"
      <4>1. p2.dot = o2.dot
        BY <1>4, <3>1 DEF Differs, Fields
      <4> QED BY <1>4, <4>1 DEF DefaultPort
    <3>2. CASE o2.useQuic
      BY <1>4, <3>2 DEF DefaultPort
    <3> QED BY <1>7, <3>1, <3>2
  <2>2. CASE o2.useDoH \/ HasPort(o2.server)
    BY <1>4, <2>2 DEF AddPortIfMissing
  <2>3. CASE ~(o2.useDoH \/ HasPort(o2.server))
    <3>1. DefaultPort(p2) = DefaultPort(o2)
      BY <2>1, <2>3
    <3>2. /\ o3 = [o2 EXCEPT !.server.port = DefaultPort(o2), !.server.host = JoinHost(@)]
          /\ p3 = [p2 EXCEPT !.server.port = DefaultPort(p2), !.server.host = JoinHost(@)]
      BY <1>4, <2>3 DEF AddPortIfMissing
    <3> HIDE DEF o3, p3
    <3>3. "server" \in DOMAIN o2 /\ "server" \in DOMAIN p2
      BY <1>4 DEF Differs, Fields
    <3>4. o3.server = [o2.server EXCEPT !.port = DefaultPort(o2), !.host = JoinHost(@)]
      BY <3>2, <3>3
    <3>5. p3.server = [p2.server EXCEPT !.port = DefaultPort(p2), !.host = JoinHost(@)]
      BY <3>2, <3>3
    <3> QED BY <1>4, <3>1, <3>4, <3>5
  <2> QED BY <2>2, <2>3
<1> HIDE DEF o3, p3
<1>8. /\ n = [o3 EXCEPT !.types = Default(@, << >>, <<"A">>),
                        !.concurrency = Default(@, 0, 1), !.count = CountOf(o)]
      /\ m = [p3 EXCEPT !.types = Default(@, << >>, <<"A">>),
                        !.concurrency = Default(@, 0, 1), !.count = CountOf(p)]
  BY DEF Normalised, o3, p3, o2, p2, o1, p1
<1>9. CountOf(p) = CountOf(o)
  BY <1>2 DEF CountOf
<1> HIDE DEF n, m
<1>10. Differs(n, m, f, v)
  BY <1>0, <1>5, <1>8, <1>9 DEF Differs, Fields
<1>11. /\ n.server = o3.server /\ m.server = p3.server
       /\ n.useDoH = o3.useDoH /\ n.useQuic = o3.useQuic
  BY <1>5, <1>8 DEF Differs, Fields
<1> QED BY <1>6, <1>7, <1>10, <1>11 DEF Multiplexed, n, m, p

(* When a Benchmark is run for the first time its warnings name all the    *)
(* transport flags that could as well have been left out, and no others,   *)
(* but for --tcp beside --dot and for workers that have nothing to share.  *)
THEOREM WarnedOfWhatIsIgnored == Spec => []WarnedIffIgnored
<1>1. Settled => WarnedIffIgnored
  <2> SUFFICES ASSUME Settled, Running, runs = 1
               PROVE  LET ignored == {f \in FlagsSet(b) : MakesNoDifference(f)} IN
                      /\ Warned(b) \subseteq ignored
                      /\ ignored \ Warned(b) \subseteq
                           {f \in {"tcp"} : b.dot}
                           \union {f \in {"separate"} : ~Multiplexed(b) \/ b.concurrency = 1}
    BY DEF WarnedIffIgnored
  <2> DEFINE n == Normalised(given)
             With(f, v) == Normalised([given EXCEPT ![f] = v])
  <2>1. Shaped(given) /\ Accepted(given, b)
    BY DEF Settled
  <2>2. Shaped(b) /\ b.concurrency > 0 /\ ~(b.useDoH /\ b.useQuic)
    BY <2>1, AcceptedFields
  <2>3. Shaped(n) /\ \A g \in Fields \ {"delayStart", "delayEnd"} : b[g] = n[g]
    <3>1. Shaped(n)
      BY <2>1, NormalisedFields
    <3>2. b = WithDelay(n)
      BY <2>1 DEF Accepted
    <3> HIDE DEF n
    <3> QED BY <3>1, <3>2, DelayFields
  <2>4. n.useDoH = b.useDoH /\ n.useQuic = b.useQuic /\ n.server = b.server
    BY <2>3, Zenon DEF Fields
  <2>5. ASSUME NEW f \in Optional, NEW v
        PROVE  LET m == With(f, v) IN
               /\ m[f] = v
               /\ \A g \in (Optional \union {"useDoH", "useQuic", "concurrency"}) \ {f} :
                    m[g] = b[g]
               /\ f # "dot" \/ Multiplexed(b) => m.server = b.server
    <3> DEFINE m == With(f, v)
    <3>1. Differs(n, m, f, v) /\ (f # "dot" \/ Multiplexed(n) => m.server = n.server)
      BY <2>1, FlagPassed
    <3> HIDE DEF m, n
    <3>2. \A g \in (Optional \union {"useDoH", "useQuic", "concurrency"}) \ {f} :
            g \in Fields \ {"server", f} /\ g \in Fields \ {"delayStart", "delayEnd"}
      BY DEF Optional, Fields
    <3> QED BY <2>3, <2>4, <3>1, <3>2 DEF Differs, Multiplexed, m
  <2> HIDE DEF n, With
  <2>6. \A f : FlagsSet(b) \subseteq Optional
    BY DEF FlagsSet, NoFlag, Optional
  <2>7. \A f : MakesNoDifference(f) <=> \A v \in ValuesOf(f) : Effect(With(f, v)) = Effect(b)
    BY DEF MakesNoDifference, With
  <2>8. ASSUME NEW f \in Warned(b) PROVE MakesNoDifference(f)
    <3>1. f \in Optional
      BY <2>6 DEF Warned
    <3> SUFFICES ASSUME NEW v PROVE Effect(With(f, v)) = Effect(b)
      BY <2>7
    <3> DEFINE m == With(f, v)
    <3>2. /\ \A g \in (Optional \union {"useDoH", "useQuic", "concurrency"}) \ {f} : m[g] = b[g]
          /\ f # "dot" \/ Multiplexed(b) => m.server = b.server
      BY <2>5, <3>1
    <3> HIDE DEF m
    <3>3. /\ m.useDoH = b.useDoH /\ m.useQuic = b.useQuic /\ m.concurrency = b.concurrency
      BY <3>1, <3>2 DEF Optional
    <3>4. CASE f \in {"tcp", "dot", "qperConn"}
      <4>1. Multiplexed(b) /\ Multiplexed(m)
        BY <3>3, <3>4 DEF Warned, Multiplexed
      <4>2. /\ m.server = b.server /\ m.separate = b.separate
            /\ m.dohMethod = b.dohMethod /\ m.dohProtocol = b.dohProtocol
        BY <3>2, <3>4, <4>1 DEF Optional
      <4>3. Dialled(m) = Dialled(b)
        BY <3>3, <4>1, <4>2 DEF Dialled, DohClient, Multiplexed
      <4>4. Clients(m) = Clients(b)
        BY <3>3, <4>1, <4>2 DEF Clients
      <4> QED BY <4>1, <4>2, <4>3, <4>4 DEF Effect, m
    <3>5. CASE f \in {"dohMethod", "dohProtocol"}
      <4>1. ~b.useDoH /\ ~m.useDoH
        BY <3>3, <3>5 DEF Warned
      <4>2. /\ m.server = b.server /\ m.separate = b.separate /\ m.qperConn = b.qperConn
            /\ m.tcp = b.tcp /\ m.dot = b.dot
        BY <3>2, <3>5 DEF Optional
      <4>3. Dialled(m) = Dialled(b)
        BY <3>3, <4>1, <4>2 DEF Dialled, ClientNet
      <4>4. Clients(m) = Clients(b) /\ Multiplexed(m) = Multiplexed(b)
        BY <3>3, <4>2 DEF Clients, Multiplexed
      <4> QED BY <4>2, <4>3, <4>4 DEF Effect, m
    <3> QED BY <3>1, <3>4, <3>5 DEF Optional, Warned
  <2>9. ASSUME NEW f \in FlagsSet(b), f \notin Warned(b), MakesNoDifference(f)
        PROVE  \/ f = "tcp" /\ b.dot
               \/ f = "separate" /\ (~Multiplexed(b) \/ b.concurrency = 1)
    <3>1. f \in Optional /\ b[f] # NoFlag[f]
      BY <2>6 DEF FlagsSet
    <3>2. ASSUME NEW v \in ValuesOf(f)
          PROVE  LET m == With(f, v) IN
                 /\ m[f] = v
                 /\ \A g \in (Optional \union {"useDoH", "useQuic", "concurrency"}) \ {f} :
                      m[g] = b[g]
                 /\ Dialled(m) = Dialled(b) /\ Clients(m) = Clients(b)
                 /\ ~Multiplexed(m) /\ ~Multiplexed(b) => m.qperConn = b.qperConn
      BY <2>5, <2>7, <2>9, <3>1 DEF Effect
    <3>3. CASE f = "tcp"
      <4> SUFFICES ASSUME ~b.dot PROVE FALSE
        BY <3>3
      <4> DEFINE m == With(f, FALSE)
      <4>1. FALSE \in ValuesOf(f) /\ b.tcp = TRUE /\ ~b.useDoH /\ ~b.useQuic
        BY <2>2, <2>9, <3>1, <3>3 DEF ValuesOf, NoFlag, Warned, Multiplexed, Shaped
      <4>2. /\ m.tcp = FALSE /\ m.dot = b.dot /\ m.useDoH = b.useDoH
            /\ m.useQuic = b.useQuic /\ Dialled(m) = Dialled(b)
        BY <3>2, <3>3, <4>1 DEF Optional
      <4> HIDE DEF m
      <4>3. Dialled(b) = <<"tcp">> /\ Dialled(m) = <<"udp">>
        BY <4>1, <4>2 DEF Dialled, ClientNet
      <4> QED BY <4>2, <4>3
    <3>4. CASE f = "dot"
      <4> DEFINE m == With(f, FALSE)
      <4>1. FALSE \in ValuesOf(f) /\ b.dot = TRUE /\ ~b.useDoH /\ ~b.useQuic
        BY <2>2, <2>9, <3>1, <3>4 DEF ValuesOf, NoFlag, Warned, Multiplexed, Shaped
      <4>2. /\ m.dot = FALSE /\ m.useDoH = b.useDoH
            /\ m.useQuic = b.useQuic /\ Dialled(m) = Dialled(b)
        BY <3>2, <3>4, <4>1 DEF Optional
      <4> HIDE DEF m
      <4>3. Dialled(b) = <<"tcp-tls">> /\ Dialled(m) \in {<<"tcp">>, <<"udp">>}
        BY <4>1, <4>2 DEF Dialled, ClientNet
      <4>4. <<"tcp-tls">> \notin {<<"tcp">>, <<"udp">>}
        OBVIOUS
      <4> QED BY <4>2, <4>3, <4>4
    <3>5. CASE f = "qperConn"
      <4> DEFINE m == With(f, 0)
      <4>1. 0 \in ValuesOf(f) /\ b.qperConn # 0 /\ ~Multiplexed(b)
        BY <2>9, <3>1, <3>5 DEF ValuesOf, NoFlag, Warned
      <4>2. /\ m.qperConn = 0 /\ m.useDoH = b.useDoH /\ m.useQuic = b.useQuic
            /\ ~Multiplexed(m) /\ ~Multiplexed(b) => m.qperConn = b.qperConn
        BY <3>2, <3>5, <4>1 DEF Optional
      <4> HIDE DEF m
      <4> QED BY <4>1, <4>2 DEF Multiplexed
    <3>6. CASE f = "dohMethod"
      <4>1. b.useDoH /\ b.dohMethod \in {"get", "post"}
        BY <2>2, <2>9, <3>1, <3>6 DEF NoFlag, Warned, Shaped
      <4> DEFINE v == IF b.dohMethod = "get" THEN "post" ELSE "get"
                 m == With(f, v)
      <4>2. v \in ValuesOf(f) /\ v # b.dohMethod /\ v \in {"get", "post"}
        BY <3>6, <4>1 DEF ValuesOf
      <4> HIDE DEF v
      <4>3. /\ m.dohMethod = v /\ m.useDoH = b.useDoH /\ m.useQuic = b.useQuic
            /\ Dialled(m) = Dialled(b)
        BY <3>2, <3>6, <4>2 DEF Optional
      <4> HIDE DEF m
      <4>4. DohClient(m) = DohClient(b)
        <5>1. Dialled(m) = DohClient(m) /\ Dialled(b) = DohClient(b)
          BY <2>2, <4>1, <4>3 DEF Dialled
        <5> QED BY <4>3, <5>1
      <4> QED BY <4>1, <4>2, <4>3, <4>4 DEF DohClient
    <3>7. CASE f = "dohProtocol"
      <4>1. b.useDoH /\ b.dohProtocol \in {"1.1", "2", "3"}
        BY <2>2, <2>9, <3>1, <3>7 DEF NoFlag, Warned, Shaped
      <4> DEFINE v == IF b.dohProtocol = "2" THEN "3" ELSE "2"
                 m == With(f, v)
      <4>2. v \in ValuesOf(f) /\ v # b.dohProtocol /\ v \in {"2", "3"}
        BY <3>7, <4>1 DEF ValuesOf
      <4> HIDE DEF v
      <4>3. /\ m.dohProtocol = v /\ m.useDoH = b.useDoH /\ m.useQuic = b.useQuic
            /\ Dialled(m) = Dialled(b)
        BY <3>2, <3>7, <4>2 DEF Optional
      <4> HIDE DEF m
      <4>4. DohClient(m) = DohClient(b)
        <5>1. Dialled(m) = DohClient(m) /\ Dialled(b) = DohClient(b)
          BY <2>2, <4>1, <4>3 DEF Dialled
        <5> QED BY <4>3, <5>1
      <4> QED BY <4>1, <4>2, <4>3, <4>4 DEF DohClient
    <3>8. CASE f = "separate"
      <4> SUFFICES ASSUME Multiplexed(b) PROVE b.concurrency = 1
        BY <3>8
      <4> DEFINE m == With(f, FALSE)
      <4>1. FALSE \in ValuesOf(f) /\ b.separate = TRUE
        BY <2>2, <3>1, <3>8 DEF ValuesOf, NoFlag, Shaped
      <4>2. /\ m.separate = FALSE /\ m.useDoH = b.useDoH /\ m.useQuic = b.useQuic
            /\ Clients(m) = Clients(b)
        BY <3>2, <3>8, <4>1 DEF Optional
      <4> HIDE DEF m
      <4> QED BY <4>1, <4>2 DEF Clients, Multiplexed
    <3> QED BY <3>1, <3>3, <3>4, <3>5, <3>6, <3>7, <3>8 DEF Optional
  <2>10. Warned(b) \subseteq FlagsSet(b)
    BY DEF Warned
  <2> QED BY <2>8, <2>9, <2>10
<1> QED BY <1>1, SettledHolds, PTL

(***************************************************************************)
(* The OPT record of a request.                                            *)
(***************************************************************************)
Flags == {"ednsopt", "ecs", "cookie"}

Records == [size : Nat, do : BOOLEAN, options : Seq([code : Nat, from : Flags])]

CodeFor(o, from) ==
  CASE from = "ednsopt" -> o.ednsopt.code
    [] from = "ecs"     -> EDNS0SUBNET
    [] from = "cookie"  -> EDNS0COOKIE

(* A message with at most one OPT record, that has one option for each     *)
(* flag of F.                                                              *)
Carries(o, m, F) ==
  /\ m \in Seq(Records) /\ Len(m) \in 0..1
  /\ \A k \in DOMAIN OptionsOf(m) : /\ OptionsOf(m)[k].from \in F
                                    /\ OptionsOf(m)[k].code = CodeFor(o, OptionsOf(m)[k].from)
  /\ \A f \in F : \E k \in DOMAIN OptionsOf(m) : OptionsOf(m)[k].from = f
  /\ \A k, l \in DOMAIN OptionsOf(m) :
       OptionsOf(m)[k].from = OptionsOf(m)[l].from => k = l

SizeOf(m) == IF m = << >> THEN DefaultEdns0BufferSize ELSE m[1].size
DoOf(m)   == IF m = << >> THEN FALSE ELSE m[1].do

(* The record that is written to is the one there is, or a new one.        *)
LEMMA OneRecord ==
  ASSUME NEW m \in Seq(Records), Len(m) \in 0..1
  PROVE  /\ WithEdns0(m) \in Seq(Records) /\ Len(WithEdns0(m)) = 1
         /\ WithEdns0(m)[1].size = SizeOf(m) /\ WithEdns0(m)[1].do = DoOf(m)
         /\ WithEdns0(m)[1].options = OptionsOf(m)
<1>1. CASE m = << >>
  <2> DEFINE e == [size |-> DefaultEdns0BufferSize, do |-> FALSE, options |-> << >>]
  <2>1. e \in Records
    BY DEF Records, DefaultEdns0BufferSize
  <2>2. WithEdns0(m) = <<e>>
    BY <1>1 DEF WithEdns0, SetEdns0
  <2> HIDE DEF e
  <2>3. /\ e.size = DefaultEdns0BufferSize /\ e.do = FALSE /\ e.options = << >>
    BY DEF e
  <2>4. <<e>> \in Seq(Records) /\ Len(<<e>>) = 1 /\ <<e>>[1] = e
    BY <2>1
  <2> QED BY <1>1, <2>2, <2>3, <2>4 DEF SizeOf, DoOf, OptionsOf
<1>2. CASE m # << >>
  <2>1. Len(m) = 1 /\ WithEdns0(m) = m
    BY <1>2 DEF WithEdns0
  <2> QED BY <1>2, <2>1 DEF SizeOf, DoOf, OptionsOf
<1> QED BY <1>1, <1>2

(* A sequence of one element, and what it is when that is replaced.        *)
LEMMA OneElement ==
  ASSUME NEW S, NEW e \in Seq(S), Len(e) = 1
  PROVE  /\ e[1] \in S
         /\ \A c \in S : LET r == [e EXCEPT ![1] = c] IN
              r \in Seq(S) /\ Len(r) = 1 /\ r[1] = c /\ r # << >>
<1>1. e[1] \in S
  OBVIOUS
<1>2. ASSUME NEW c \in S
      PROVE  LET r == [e EXCEPT ![1] = c] IN
             r \in Seq(S) /\ Len(r) = 1 /\ r[1] = c /\ r # << >>
  OBVIOUS
<1> QED BY <1>1, <1>2

(* AddOption adds one option to it and changes nothing else.               *)
LEMMA AddedOption ==
  ASSUME NEW o, NEW m, NEW F, Carries(o, m, F),
         NEW from \in Flags, from \notin F, CodeFor(o, from) \in Nat
  PROVE  LET r == AddOption(m, CodeFor(o, from), from) IN
         /\ Carries(o, r, F \union {from}) /\ r # << >>
         /\ SizeOf(r) = SizeOf(m) /\ DoOf(r) = DoOf(m)
<1> DEFINE e == WithEdns0(m)
           new == [code |-> CodeFor(o, from), from |-> from]
           r == AddOption(m, CodeFor(o, from), from)
<1>1. /\ e \in Seq(Records) /\ Len(e) = 1
      /\ e[1].size = SizeOf(m) /\ e[1].do = DoOf(m) /\ e[1].options = OptionsOf(m)
  BY OneRecord DEF Carries
<1>2. r = [e EXCEPT ![Len(e)].options = Append(@, new)]
  BY DEF AddOption
<1> HIDE DEF e
<1>3. e[1] \in Records
  BY <1>1, OneElement
<1> DEFINE c == [e[1] EXCEPT !.options = Append(@, new)]
<1>4. new \in [code : Nat, from : Flags]
  OBVIOUS
<1> HIDE DEF new
<1>5. /\ c \in Records /\ c.size = SizeOf(m) /\ c.do = DoOf(m)
      /\ c.options = Append(OptionsOf(m), new)
  <2>1. e[1].options \in Seq([code : Nat, from : Flags])
    BY <1>3 DEF Records
  <2>2. Append(e[1].options, new) \in Seq([code : Nat, from : Flags])
    BY <1>4, <2>1
  <2>3. c.size = e[1].size /\ c.do = e[1].do /\ c.options = Append(e[1].options, new)
    BY <1>3 DEF Records
  <2>4. c \in Records
    BY <1>3, <2>2 DEF Records
  <2> QED BY <1>1, <2>3, <2>4
<1>6. r = [e EXCEPT ![1] = c]
  BY <1>1, <1>2
<1> HIDE DEF c, r
<1>7. r \in Seq(Records) /\ Len(r) = 1 /\ r[1] = c /\ r # << >>
  BY <1>1, <1>5, <1>6, OneElement
<1>8. OptionsOf(r) = Append(OptionsOf(m), new) /\ SizeOf(r) = SizeOf(m) /\ DoOf(r) = DoOf(m)
  BY <1>5, <1>7 DEF OptionsOf, SizeOf, DoOf
<1>9. OptionsOf(m) \in Seq([code : Nat, from : Flags])
  BY <1>1, <1>3 DEF Records
<1> DEFINE old == OptionsOf(m)
           all == OptionsOf(r)
<1>10. /\ DOMAIN old = 1..Len(old) /\ DOMAIN all = 1..(Len(old) + 1) /\ Len(old) \in Nat
       /\ \A k \in 1..Len(old) : all[k] = old[k]
       /\ all[Len(old) + 1] = new
  BY <1>4, <1>8, <1>9
<1>11. new.from = from /\ new.code = CodeFor(o, from)
  BY DEF new
<1> HIDE DEF old, all
<1>12. /\ \A k \in DOMAIN old : old[k].from \in F /\ old[k].code = CodeFor(o, old[k].from)
       /\ \A f \in F : \E k \in DOMAIN old : old[k].from = f
       /\ \A k, l \in DOMAIN old : old[k].from = old[l].from => k = l
  BY DEF Carries, old
<1>13. \A k \in DOMAIN all : /\ all[k].from \in F \union {from}
                             /\ all[k].code = CodeFor(o, all[k].from)
  BY <1>10, <1>11, <1>12
<1>14. \A f \in F \union {from} : \E k \in DOMAIN all : all[k].from = f
  BY <1>10, <1>11, <1>12
<1>15. \A k, l \in DOMAIN all : all[k].from = all[l].from => k = l
  BY <1>10, <1>11, <1>12
<1>16. Carries(o, r, F \union {from})
  BY <1>7, <1>13, <1>14, <1>15 DEF Carries, all
<1> QED BY <1>7, <1>8, <1>16 DEF r

(* The DO bit is set in the same way.                                      *)
LEMMA AddedDo ==
  ASSUME NEW o, NEW m, NEW F, Carries(o, m, F)
  PROVE  /\ Carries(o, SetDo(m), F) /\ SetDo(m) # << >>
         /\ SizeOf(SetDo(m)) = SizeOf(m) /\ DoOf(SetDo(m)) = TRUE
<1> DEFINE e == WithEdns0(m)
           r == SetDo(m)
<1>1. /\ e \in Seq(Records) /\ Len(e) = 1
      /\ e[1].size = SizeOf(m) /\ e[1].options = OptionsOf(m)
  BY OneRecord DEF Carries
<1>2. r = [e EXCEPT ![Len(e)].do = TRUE]
  BY DEF SetDo
<1> HIDE DEF e, r
<1>3. e[1] \in Records
  BY <1>1, OneElement
<1> DEFINE c == [e[1] EXCEPT !.do = TRUE]
<1>4. c \in Records /\ c.size = SizeOf(m) /\ c.do = TRUE /\ c.options = OptionsOf(m)
  BY <1>1, <1>3 DEF Records
<1>5. r = [e EXCEPT ![1] = c]
  BY <1>1, <1>2
<1> HIDE DEF c
<1>6. r \in Seq(Records) /\ Len(r) = 1 /\ r[1] = c /\ r # << >>
  BY <1>1, <1>4, <1>5, OneElement
<1>7. OptionsOf(r) = OptionsOf(m) /\ SizeOf(r) = SizeOf(m) /\ DoOf(r) = TRUE
  BY <1>4, <1>6 DEF OptionsOf, SizeOf, DoOf
<1>8. Carries(o, r, F)
  BY <1>6, <1>7 DEF Carries
<1> QED BY <1>6, <1>7, <1>8 DEF r

(* The steps of createReqMsg.                                              *)
Sized(o)    == IF o.edns0 > 0 THEN SetEdns0(<< >>, o.edns0) ELSE << >>
Customed(o) == IF o.ednsopt.given
               THEN AddOption(Sized(o), o.ednsopt.code, "ednsopt") ELSE Sized(o)
Subnetted(o) == IF o.ecs # "" THEN AddOption(Customed(o), EDNS0SUBNET, "ecs") ELSE Customed(o)
Cookied(o)  == IF o.cookie THEN AddOption(Subnetted(o), EDNS0COOKIE, "cookie") ELSE Subnetted(o)

Asked1(o) == IF o.ednsopt.given THEN {"ednsopt"} ELSE {}
Asked2(o) == Asked1(o) \union (IF o.ecs # "" THEN {"ecs"} ELSE {})
Asked(o)  == Asked2(o) \union (IF o.cookie THEN {"cookie"} ELSE {})

SizeAsked(o) == IF o.edns0 > 0 THEN o.edns0 ELSE DefaultEdns0BufferSize

(* A message that carries the options F, before the DO bit.                *)
Built(o, m, F) ==
  /\ Carries(o, m, F) /\ SizeOf(m) = SizeAsked(o) /\ DoOf(m) = FALSE
  /\ (m # << >>) <=> (o.edns0 > 0 \/ F # {})

(* A new OPT record has no options.                                        *)
LEMMA NewRecord ==
  ASSUME NEW size \in Nat
  PROVE  LET m == SetEdns0(<< >>, size) IN
         /\ m \in Seq(Records) /\ Len(m) = 1 /\ m # << >>
         /\ m[1].size = size /\ m[1].do = FALSE /\ OptionsOf(m) = << >>
<1> DEFINE e == [size |-> size, do |-> FALSE, options |-> << >>]
           m == SetEdns0(<< >>, size)
<1>1. m = <<e>>
  BY DEF SetEdns0
<1>2. e \in Records /\ e.size = size /\ e.do = FALSE /\ e.options = << >>
  BY DEF Records
<1> HIDE DEF e
<1> HIDE DEF m
<1>3. m \in Seq(Records) /\ Len(m) = 1 /\ m # << >> /\ m[1] = e
  BY <1>1, <1>2
<1>4. OptionsOf(m) = << >>
  BY <1>2, <1>3 DEF OptionsOf
<1> QED BY <1>2, <1>3, <1>4 DEF m

(* A flag that is not given adds nothing, one that is adds its option.     *)
LEMMA BuiltFurther ==
  ASSUME NEW o, NEW m, NEW F, Built(o, m, F),
         NEW from \in Flags, from \notin F, CodeFor(o, from) \in Nat
  PROVE  Built(o, AddOption(m, CodeFor(o, from), from), F \union {from})
<1>1. Carries(o, m, F)
  BY DEF Built
<1> QED BY <1>1, AddedOption DEF Built

(* The sizes of an OPT record that init accepts.                           *)
Sizes == {0} \union 512..4096

(* A size that init accepts is a number.                                   *)
LEMMA SizesAreNat == \A size \in Sizes : size \in Nat
  BY DEF Sizes

(* No OPT size, or one inside the limits, is accepted.                     *)
LEMMA SizeAccepted == \A size : size = 0 \/ size \in 512..4096 => size \in Sizes
<1> TAKE size
<1> HAVE size = 0 \/ size \in 512..4096
<1> QED BY SMT DEF Sizes

(* What a request needs of the settings it is made of.                     *)
Requestable(o) ==
  o.ednsopt.code \in Nat /\ o.dnssec \in BOOLEAN /\ o.edns0 \in Sizes

(* What createReqMsg makes of settings that init has accepted.             *)
LEMMA Requested ==
  ASSUME NEW o, Requestable(o)
  PROVE  LET m == CreateReqMsg(o) IN
         /\ Carries(o, m, Asked(o)) /\ SizeOf(m) = SizeAsked(o) /\ DoOf(m) = o.dnssec
         /\ (m # << >>) <=> (o.edns0 > 0 \/ Asked(o) # {} \/ o.dnssec)
<1>0. /\ CodeFor(o, "ednsopt") = o.ednsopt.code /\ CodeFor(o, "ecs") = EDNS0SUBNET
      /\ CodeFor(o, "cookie") = EDNS0COOKIE
      /\ EDNS0SUBNET \in Nat /\ EDNS0COOKIE \in Nat
  BY DEF CodeFor, EDNS0SUBNET, EDNS0COOKIE
<1>a. o.ednsopt.code \in Nat
  BY DEF Requestable
<1>b. o.dnssec \in BOOLEAN
  BY DEF Requestable
<1>1. Built(o, Sized(o), {})
  <2>1. CASE o.edns0 > 0
    <3>1. o.edns0 \in Nat /\ Sized(o) = SetEdns0(<< >>, o.edns0)
      <4>1. o.edns0 \in Sizes
        BY Zenon DEF Requestable
      <4>2. o.edns0 \in Nat
        BY <4>1, SizesAreNat, Zenon
      <4>3. Sized(o) = SetEdns0(<< >>, o.edns0)
        BY <2>1 DEF Sized
      <4> QED BY <4>2, <4>3
    <3>2. /\ Sized(o) \in Seq(Records) /\ Len(Sized(o)) = 1 /\ Sized(o) # << >>
          /\ Sized(o)[1].size = o.edns0 /\ Sized(o)[1].do = FALSE
          /\ OptionsOf(Sized(o)) = << >>
      BY <3>1, NewRecord
    <3>3. Carries(o, Sized(o), {})
      BY <3>2 DEF Carries
    <3> QED BY <2>1, <3>2, <3>3 DEF Built, SizeOf, DoOf, SizeAsked
  <2>2. CASE ~(o.edns0 > 0)
    <3>1. Sized(o) = << >>
      BY <2>2 DEF Sized
    <3>2. OptionsOf(Sized(o)) = << >>
      BY <3>1 DEF OptionsOf
    <3>3. Carries(o, Sized(o), {})
      <4>1. Sized(o) \in Seq(Records) /\ Len(Sized(o)) = 0
        BY <3>1
      <4> QED BY <3>2, <4>1 DEF Carries
    <3> QED BY <2>2, <3>1, <3>3 DEF Built, SizeOf, DoOf, SizeAsked
  <2> QED BY <2>1, <2>2
<1>2. Built(o, Customed(o), Asked1(o))
  <2>1. CASE o.ednsopt.given
    <3>1. /\ Customed(o) = AddOption(Sized(o), CodeFor(o, "ednsopt"), "ednsopt")
          /\ Asked1(o) = {} \union {"ednsopt"}
      BY <1>0, <2>1 DEF Customed, Asked1
    <3>2. CodeFor(o, "ednsopt") \in Nat /\ "ednsopt" \notin {}
      BY <1>0, <1>a, <3>1
    <3>3. Built(o, AddOption(Sized(o), CodeFor(o, "ednsopt"), "ednsopt"), {} \union {"ednsopt"})
      <4>1. "ednsopt" \in Flags
        BY DEF Flags
      <4> QED BY <1>1, <3>2, <4>1, BuiltFurther, Zenon
    <3> QED BY <3>1, <3>3
  <2>2. CASE ~o.ednsopt.given
    BY <1>1, <2>2 DEF Customed, Asked1
  <2> QED BY <2>1, <2>2
<1>3. Built(o, Subnetted(o), Asked2(o))
  <2>1. CASE o.ecs # ""
    <3>1. /\ Subnetted(o) = AddOption(Customed(o), CodeFor(o, "ecs"), "ecs")
          /\ Asked2(o) = Asked1(o) \union {"ecs"} /\ "ecs" \notin Asked1(o)
      BY <1>0, <2>1 DEF Subnetted, Asked1, Asked2
    <3>2. CodeFor(o, "ecs") \in Nat /\ "ecs" \notin Asked1(o)
      BY <1>0, <3>1
    <3>3. Built(o, AddOption(Customed(o), CodeFor(o, "ecs"), "ecs"), Asked1(o) \union {"ecs"})
      <4>1. "ecs" \in Flags
        BY DEF Flags
      <4> QED BY <1>2, <3>2, <4>1, BuiltFurther, Zenon
    <3> QED BY <3>1, <3>3
  <2>2. CASE o.ecs = ""
    <3>1. Subnetted(o) = Customed(o) /\ Asked2(o) = Asked1(o)
      BY <2>2 DEF Subnetted, Asked2
    <3> QED BY <1>2, <3>1
  <2> QED BY <2>1, <2>2
<1>4. Built(o, Cookied(o), Asked(o))
  <2>1. CASE o.cookie
    <3>1. /\ Cookied(o) = AddOption(Subnetted(o), CodeFor(o, "cookie"), "cookie")
          /\ Asked(o) = Asked2(o) \union {"cookie"} /\ "cookie" \notin Asked2(o)
      BY <1>0, <2>1 DEF Cookied, Asked1, Asked2, Asked
    <3>2. CodeFor(o, "cookie") \in Nat /\ "cookie" \notin Asked2(o)
      BY <1>0, <3>1
    <3>3. Built(o, AddOption(Subnetted(o), CodeFor(o, "cookie"), "cookie"), Asked2(o) \union {"cookie"})
      <4>1. "cookie" \in Flags
        BY DEF Flags
      <4> QED BY <1>3, <3>2, <4>1, BuiltFurther, Zenon
    <3> QED BY <3>1, <3>3
  <2>2. CASE ~o.cookie
    <3>1. Cookied(o) = Subnetted(o) /\ Asked(o) = Asked2(o)
      BY <2>2 DEF Cookied, Asked
    <3> QED BY <1>3, <3>1
  <2> QED BY <2>1, <2>2
<1>5. CreateReqMsg(o) = IF o.dnssec THEN SetDo(Cookied(o)) ELSE Cookied(o)
  BY DEF CreateReqMsg, Cookied, Subnetted, Customed, Sized
<1>6. CASE o.dnssec
  <2>1. Carries(o, Cookied(o), Asked(o)) /\ SizeOf(Cookied(o)) = SizeAsked(o)
    BY <1>4 DEF Built
  <2> QED BY <1>5, <1>6, <2>1, AddedDo
<1>7. CASE o.dnssec = FALSE
  <2>1. CreateReqMsg(o) = Cookied(o)
    BY <1>5, <1>7
  <2> QED BY <1>4, <1>7, <2>1 DEF Built
<1> QED BY <1>b, <1>6, <1>7

(* init lets such sizes pass.                                              *)
LEMMA SizeOfAccepted ==
  ASSUME NEW o, ~Refused(o)
  PROVE  o.edns0 \in Sizes
<1>1. ~(o.edns0 # 0 /\ o.edns0 \notin 512..4096)
  BY DEF Refused
<1> QED BY <1>1, SizeAccepted

(* Every request of an accepted run can be built by createReqMsg and       *)
(* carries what was asked for, exactly once, in at most one OPT record.    *)
THEOREM RequestsCarryWhatWasAsked == Spec => []WellFormedRequests
<1>1. Settled => WellFormedRequests
  <2> SUFFICES ASSUME Settled, Running PROVE WellFormedRequests
    BY DEF WellFormedRequests
  <2> DEFINE m == CreateReqMsg(b)
  <2>1. PICK o : Shaped(o) /\ Accepted(o, b)
    BY DEF Settled
  <2>2. ~Refused(b)
    BY <2>1 DEF Accepted
  <2>0. Shaped(b)
    BY <2>1, AcceptedFields
  <2>3. b.ednsopt.code \in Nat /\ b.dnssec \in BOOLEAN
    BY <2>0 DEF Shaped
  <2>4. b.edns0 \in Sizes
    BY <2>2, SizeOfAccepted
  <2>5. /\ Carries(b, m, Asked(b)) /\ SizeOf(m) = SizeAsked(b) /\ DoOf(m) = b.dnssec
        /\ (m # << >>) <=> (b.edns0 > 0 \/ Asked(b) # {} \/ b.dnssec)
    BY <2>3, <2>4, Requested DEF Requestable
  <2>6. ~PanicsCreating(b)
    <3>1. b.ecs # "invalid" /\ (b.ednsopt.given => b.ednsopt.parts = 2)
      BY <2>2 DEF Refused, BadEdnsOpt
    <3> QED BY <3>1 DEF PanicsCreating
  <2>7. ~(b.ednsopt.given /\ b.ecs # "" /\ b.ednsopt.code = EDNS0SUBNET)
    BY <2>2, Zenon DEF Refused, TwoSubnets
  <2> HIDE DEF m
  <2>8. Cardinality(Numbered(m, EDNS0SUBNET)) <= 1
    <3> DEFINE N == Numbered(m, EDNS0SUBNET)
               opts == OptionsOf(m)
    <3>1. ASSUME NEW k \in N, NEW l \in N PROVE k = l
      <4>1. /\ k \in DOMAIN opts /\ l \in DOMAIN opts
            /\ opts[k].code = EDNS0SUBNET /\ opts[l].code = EDNS0SUBNET
        BY <3>1 DEF Numbered
      <4>2. \A j \in {k, l} : opts[j].from \in Asked(b) /\ CodeFor(b, opts[j].from) = 8
        BY <2>5, <4>1 DEF Carries, EDNS0SUBNET
      <4>3. \A j \in {k, l} : \/ opts[j].from = "ecs" /\ b.ecs # ""
                              \/ opts[j].from = "ednsopt" /\ b.ednsopt.given
                                                          /\ b.ednsopt.code = 8
        <5> TAKE j \in {k, l}
        <5>1. CASE opts[j].from = "ednsopt"
          BY <4>2, <5>1 DEF CodeFor, Asked, Asked1, Asked2
        <5>2. CASE opts[j].from = "ecs"
          BY <4>2, <5>2 DEF Asked, Asked1, Asked2
        <5>3. CASE opts[j].from = "cookie"
          BY <4>2, <5>3 DEF CodeFor, EDNS0COOKIE
        <5>4. opts[j].from \in {"ednsopt", "ecs", "cookie"}
          BY <4>2 DEF Asked, Asked1, Asked2
        <5> QED BY <5>1, <5>2, <5>3, <5>4
      <4>4. opts[k].from = opts[l].from
        BY <2>7, <4>3 DEF EDNS0SUBNET
      <4> QED BY <2>5, <4>1, <4>4 DEF Carries
    <3> HIDE DEF N
    <3>2. ASSUME N # {} PROVE \E k : N = {k}
      <4>1. PICK k \in N : TRUE
        BY <3>2
      <4>2. N = {k}
        BY <3>1, <4>1
      <4> QED BY <4>2
    <3>3. Cardinality(N) \in {0, 1}
      BY <3>2, FS_EmptySet, FS_Singleton
    <3> QED BY <3>3 DEF N
  <2>9. {OptionsOf(m)[k].from : k \in DOMAIN OptionsOf(m)} = Asked(b)
    BY <2>5 DEF Carries
  <2>10. /\ Len(m) = IF b.edns0 > 0 \/ Asked(b) # {} \/ b.dnssec THEN 1 ELSE 0
         /\ m # << >> => m[1].do = b.dnssec /\ m[1].size = SizeAsked(b)
    <3>1. m \in Seq(Records) /\ Len(m) \in 0..1
      BY <2>5 DEF Carries
    <3>2. Len(m) = IF m # << >> THEN 1 ELSE 0
      BY <3>1
    <3> QED BY <2>5, <3>2, Zenon DEF SizeOf, DoOf
  <2> QED BY <2>6, <2>8, <2>9, <2>10
          DEF WellFormedRequests, m, Asked, Asked1, Asked2, SizeAsked, DefaultEdns0BufferSize
<1> QED BY <1>1, SettledHolds, PTL

(***************************************************************************)
(* The server that is asked.                                               *)
(***************************************************************************)
(* What is in a sequence.                                                  *)
LEMMA ElementOf ==
  ASSUME NEW T, NEW list \in Seq(T), NEW i \in 1..Len(list)
  PROVE  list[i] \in T /\ list[i] \in Range(list)
<1> QED BY DEF Range

(* The one word after the keyword is the address.                          *)
LEMMA PlainLine ==
  ASSUME NEW W, NEW line \in Seq(Seq(W)), Len(line) = 2, Len(line[2]) = 1, line[2][1] # NoWord
  PROVE  Text(line[2]) \in WordsAfter(line)
<1> DEFINE part == line[2]
<1>1. 2 \in 1..Len(line) /\ 2 \in 2..Len(line)
  OBVIOUS
<1>2. part \in Seq(W)
  BY <1>1, ElementOf
<1> HIDE DEF part
<1>3. part[1] \in Range(part)
  <2>1. Len(part) = 1
    BY DEF part
  <2>2. 1 \in 1..Len(part)
    BY <2>1
  <2> QED BY <1>2, <2>2, ElementOf
<1>4. part[1] \in UNION {Range(line[i]) : i \in 2..Len(line)}
  BY <1>1, <1>3 DEF part
<1>5. part[1] # NoWord /\ Text(part) = part[1]
  BY DEF part, Text
<1>6. part[1] \in WordsAfter(line)
  BY <1>4, <1>5 DEF WordsAfter
<1> QED BY <1>5, <1>6 DEF part

(* A plainly written file says the same to init and to the system.         *)
LEMMA PlainlyRead ==
  ASSUME NEW lines \in Seq(Seq(Seq(STRING))), WellSpaced(lines)
  PROVE  DefaultNameServer(lines) \in SystemNameServers(lines)
<1> DEFINE found == {k \in DOMAIN lines : IsNameServer(lines[k])}
           named == {k \in DOMAIN lines : lines[k][1][1] = "nameserver"
                                            /\ WordsAfter(lines[k]) # {}}
<1>1. ASSUME NEW k \in DOMAIN lines, lines[k][1][1] \in Prefixed
      PROVE  /\ k \in found /\ k \in named
             /\ Text(lines[k][2]) \in WordsAfter(lines[k])
  <2>1. /\ lines[k][1] = <<"nameserver">> /\ Len(lines[k]) = 2
        /\ Len(lines[k][2]) = 1 /\ lines[k][2][1] # NoWord
    BY <1>1 DEF WellSpaced
  <2>2. lines[k] \in Seq(Seq(STRING))
    <3>1. k \in 1..Len(lines)
      OBVIOUS
    <3> QED BY <3>1, ElementOf
  <2>3. Text(lines[k][2]) \in WordsAfter(lines[k])
    BY <2>1, <2>2, PlainLine
  <2>4. lines[k][1][1] = "nameserver"
    BY <2>1 DEF WellSpaced
  <2> QED BY <1>1, <2>1, <2>3, <2>4, Zenon DEF IsNameServer
<1>2. found = named
  <2>1. \A k \in found : k \in named
    BY <1>1 DEF IsNameServer
  <2>2. \A k \in named : k \in found
    BY <1>1, StartupAssumption
  <2> QED BY <2>1, <2>2
<1>3. CASE found = {}
  BY <1>2, <1>3 DEF DefaultNameServer, SystemNameServers
<1>4. CASE found # {}
  <2>1. Len(lines) \in Nat /\ found \in SUBSET (1..Len(lines))
    OBVIOUS
  <2>2. Min(found) \in found
    <3> HIDE DEF found
    <3> QED BY <1>4, <2>1, MinIn
  <2>3. /\ DefaultNameServer(lines) = Text(lines[Min(found)][2])
        /\ SystemNameServers(lines) = WordsAfter(lines[Min(found)])
    BY <1>2, <1>4, Zenon DEF DefaultNameServer, SystemNameServers
  <2>4. Min(found) \in DOMAIN lines /\ lines[Min(found)][1][1] \in Prefixed
    BY <2>2 DEF IsNameServer
  <2> QED BY <1>1, <2>3, <2>4
<1> QED BY <1>3, <1>4

(* The host that init begins with.                                         *)
HostAtFirst ==
  IF given.server = NoServer THEN DefaultNameServer(begun.resolv) ELSE given.server.host

(* What init makes of a server that is not a URL, and leaves as it is when *)
(* the Benchmark is run again.                                             *)
Put(server) ==
  /\ server.scheme = "" /\ server.port # 0
  /\ IF given.server.port # 0
     THEN server.host = given.server.host /\ server.port = given.server.port
     ELSE /\ server.host = JoinHost(HostAtFirst)
          /\ server.host # Garbled => server.port = PortWanted

(* Between runs the server is as it was given or has been put.             *)
ServerInv ==
  /\ begun.resolv \in Seq(Seq(Seq(STRING)))
  /\ given.server.scheme \in {"", "http", "https", "quic"}
  /\ given.server.host \in {"::1", Garbled} => given.server.port = 0
  /\ b.dot = given.dot
  /\ ~IsHttp(given.server) => /\ b.server = given.server \/ Put(b.server)
                              /\ Running => Put(b.server)

(* The step of init that matters: the port is added to what has none.      *)
LEMMA PortAdded ==
  ASSUME Shaped(given), ServerInv, ~IsHttp(given.server), NEW o, Shaped(o), o.dot = given.dot,
         o.server = given.server \/ Put(o.server)
  PROVE  Put(AddPortIfMissing(WithProtocol(WithServer(o))).server)
<1> DEFINE s == WithServer(o)
           p == WithProtocol(s)
           q == AddPortIfMissing(p)
<1>1. /\ DOMAIN s = Fields /\ DOMAIN s.server = {"scheme", "host", "port", "path"}
      /\ s.dot = given.dot /\ s.server.scheme = o.server.scheme
      /\ s.server.port = o.server.port
      /\ s.server.host = IF o.server = NoServer THEN DefaultNameServer(begun.resolv)
                         ELSE o.server.host
  BY DEF WithServer, Shaped, Fields
<1> HIDE DEF s
<1>2. o.server.scheme \notin {"http", "https"}
  BY DEF IsHttp, Put
<1>3. /\ DOMAIN p = Fields /\ DOMAIN p.server = {"scheme", "host", "port", "path"}
      /\ p.dot = given.dot
      /\ p.server.port = o.server.port /\ p.server.host = s.server.host
  BY <1>1 DEF WithProtocol, Fields
<1>4. /\ p.server.scheme = IF o.server.scheme = "quic" THEN "" ELSE o.server.scheme
      /\ p.dot = given.dot
  BY <1>1 DEF WithProtocol, Fields
<1>5. ~p.useDoH
  <2>1. p.useDoH = IsHttp(s.server)
    BY <1>1, Zenon DEF WithProtocol, Fields
  <2> QED BY <1>1, <1>2, <2>1 DEF IsHttp
<1>6. p.useQuic = (o.server.scheme = "quic")
  BY <1>1, Zenon DEF WithProtocol, Fields
<1>7. DefaultPort(p) = IF given.dot \/ o.server.scheme = "quic" THEN 853 ELSE 53
  <2>1. DefaultPort(p) = IF p.dot \/ p.useQuic THEN 853 ELSE 53
    BY DEF DefaultPort
  <2>2. p.dot = given.dot
    BY <1>4
  <2>3. CASE o.server.scheme = "quic"
    <3>1. p.useQuic
      BY <1>6, <2>3, Zenon
    <3> QED BY <2>1, <2>3, <3>1
  <2>4. CASE o.server.scheme # "quic"
    <3>1. ~p.useQuic
      BY <1>6, <2>4, Zenon
    <3> QED BY <2>1, <2>2, <2>4, <3>1
  <2> QED BY <2>3, <2>4
<1> HIDE DEF p
<1>8. /\ q.server.scheme = p.server.scheme
      /\ IF HasPort(p.server)
         THEN q.server.port = p.server.port /\ q.server.host = p.server.host
         ELSE q.server.port = DefaultPort(p) /\ q.server.host = JoinHost(p.server.host)
  <2>1. CASE HasPort(p.server)
    BY <2>1 DEF AddPortIfMissing
  <2>2. CASE ~HasPort(p.server)
    <3>1. q = [p EXCEPT !.server.port = DefaultPort(p), !.server.host = JoinHost(@)]
      BY <1>5, <2>2 DEF AddPortIfMissing
    <3> DEFINE r == [p.server EXCEPT !.port = DefaultPort(p), !.host = JoinHost(@)]
    <3>2. q = [p EXCEPT !.server = r]
      BY <1>3, <3>1 DEF Fields
    <3>3. /\ r.scheme = p.server.scheme /\ r.port = DefaultPort(p)
          /\ r.host = JoinHost(p.server.host)
      BY <1>3
    <3> HIDE DEF r, q
    <3>4. q.server = r
      BY <1>3, <3>2 DEF Fields
    <3> QED BY <2>2, <3>3, <3>4
  <2> QED BY <2>1, <2>2
<1> HIDE DEF q
<1>9. DefaultPort(p) # 0
  BY <1>7
<1>10. ASSUME o.server = given.server PROVE Put(q.server)
  <2>1. given.server.scheme \in {"", "quic"} /\ q.server.scheme = ""
    BY <1>4, <1>8, <1>10 DEF ServerInv, IsHttp
  <2>2. given.server = NoServer => given.server.port = 0
    <3>1. NoServer.port = 0
      BY DEF NoServer
    <3> QED BY <3>1, Zenon
  <2>3. p.server.host = HostAtFirst /\ p.server.port = given.server.port
    BY <1>1, <1>3, <1>10 DEF HostAtFirst
  <2>4. CASE given.server.port = 0
    <3>1. ~HasPort(p.server)
      BY <2>3, <2>4 DEF HasPort
    <3>2. q.server.host = JoinHost(HostAtFirst) /\ q.server.port = DefaultPort(p)
      BY <1>8, <2>3, <3>1
    <3>3. DefaultPort(p) = PortWanted
      <4>1. CASE given.dot \/ given.server.scheme = "quic"
        BY <1>7, <1>10, <2>4, <4>1 DEF PortWanted
      <4>2. CASE ~(given.dot \/ given.server.scheme = "quic")
        BY <1>7, <1>10, <2>4, <4>2 DEF PortWanted
      <4> QED BY <4>1, <4>2
    <3> QED BY <1>9, <2>1, <2>4, <3>2, <3>3 DEF Put
  <2>5. CASE given.server.port # 0
    <3>1. given.server # NoServer /\ given.server.host # Garbled
      BY <2>2, <2>5 DEF ServerInv
    <3>2. HasPort(p.server) /\ p.server.host = given.server.host
      BY <2>3, <2>5, <3>1 DEF HasPort, HostAtFirst
    <3> QED BY <1>8, <2>1, <2>3, <2>5, <3>2 DEF Put
  <2> QED BY <2>4, <2>5
<1>11. ASSUME Put(o.server) PROVE Put(q.server)
  <2>1. o.server # NoServer /\ o.server.port # 0 /\ o.server.scheme = ""
    <3>1. NoServer.port = 0
      BY DEF NoServer
    <3>2. o.server.port # 0 /\ o.server.scheme = ""
      BY <1>11 DEF Put
    <3> QED BY <3>1, <3>2, Zenon
  <2>2. q.server.scheme = "" /\ p.server.host = o.server.host /\ p.server.port = o.server.port
    BY <1>1, <1>3, <1>4, <1>8, <2>1
  <2>3. CASE HasPort(p.server)
    BY <1>8, <1>11, <2>1, <2>2, <2>3 DEF Put
  <2>4. CASE ~HasPort(p.server)
    <3>1. o.server.host = Garbled
      BY <2>1, <2>2, <2>4 DEF HasPort
    <3>2. given.server.port = 0 /\ JoinHost(HostAtFirst) = Garbled
      BY <1>11, <3>1 DEF Put, ServerInv
    <3>3. q.server.host = Garbled /\ q.server.port = DefaultPort(p)
      BY <1>8, <2>2, <2>4, <3>1 DEF JoinHost, Garbled
    <3> QED BY <1>9, <2>2, <3>2, <3>3 DEF Put
  <2> QED BY <2>3, <2>4
<1> QED BY <1>10, <1>11 DEF q, p, s

(* The rest of init leaves the server alone, and --dot anyway.             *)
LEMMA ServerPut ==
  ASSUME Shaped(given), ServerInv, ~IsHttp(given.server), NEW o, Shaped(o), o.dot = given.dot,
         o.server = given.server \/ Put(o.server)
  PROVE  Put(Normalised(o).server) /\ Put(WithDelay(Normalised(o)).server)
<1> DEFINE q == AddPortIfMissing(WithProtocol(WithServer(o)))
           n == Normalised(o)
<1>1. Put(q.server)
  BY PortAdded
<1>2. DOMAIN q = Fields
  BY ServerFields
<1>3. Shaped(n)
  BY NormalisedFields
<1>4. n = [q EXCEPT !.types = Default(@, << >>, <<"A">>),
                    !.concurrency = Default(@, 0, 1), !.count = CountOf(o)]
  BY DEF Normalised
<1> HIDE DEF q, n
<1>5. n.server = q.server
  BY <1>2, <1>4 DEF Fields
<1>6. WithDelay(n).server = n.server
  BY <1>3, DelayFields DEF Fields
<1>7. Put(n.server)
  BY <1>1, <1>5
<1>8. Put(WithDelay(n).server)
  BY <1>6, <1>7
<1> QED BY <1>7, <1>8 DEF n

(* At first it is as it was given.                                         *)
LEMMA ServerInit == Init => ServerInv
<1> SUFFICES ASSUME Init PROVE ServerInv
  OBVIOUS
<1> DEFINE o == begun.settings
<1>1. /\ o \in Benchmarks /\ begun.resolv \in Seq(Seq(Seq(STRING)))
      /\ o.server.host \in {"::1", Garbled} => o.server.port = 0
  BY SettingsAssumption DEF Init
<1>2. o.server.scheme \in {"", "http", "https", "quic"} /\ DOMAIN o = Fields
  BY <1>1 DEF Benchmarks, Fields
<1>3. given.server = o.server
  BY <1>2 DEF Init, Fields
<1>4. b = given /\ ~Running
  BY DEF Init, Running
<1> HIDE DEF o
<1> QED BY <1>1, <1>2, <1>3, <1>4 DEF ServerInv, o

(* Every run that gets as far as its transport has put it.                 *)
LEMMA ServerStays == Settled /\ ServerInv /\ [Next]_vars => ServerInv'
<1> SUFFICES ASSUME Settled, ServerInv, [Next]_vars PROVE ServerInv'
  OBVIOUS
<1>1. UNCHANGED <<begun, given>>
  BY DEF Next, RunStarts, RunRefused, CallRun, RunEnds, Terminating, vars
<1>2. \A server : Put(server)' <=> Put(server)
  BY <1>1 DEF Put, HostAtFirst, PortWanted
<1>3. CASE RunStarts \/ RunRefused
  <2>1. b' = Normalised(b) \/ b' = WithDelay(Normalised(b))
    BY <1>3 DEF RunStarts, RunRefused
  <2>2. Shaped(b) /\ Shaped(given) /\ b.dot = given.dot
    BY DEF Settled, ServerInv
  <2>3. b'.dot = b.dot
    <3>1. Normalised(b).dot = b.dot /\ Shaped(Normalised(b))
      BY <2>2, NormalisedFields
    <3>2. WithDelay(Normalised(b)).dot = Normalised(b).dot
      BY <3>1, DelayFields DEF Fields
    <3> QED BY <2>1, <3>1, <3>2
  <2>4. ASSUME ~IsHttp(given.server) PROVE Put(b'.server)
    <3>1. b.server = given.server \/ Put(b.server)
      BY <2>4 DEF ServerInv
    <3>2. Put(Normalised(b).server) /\ Put(WithDelay(Normalised(b)).server)
      BY <2>2, <2>4, <3>1, ServerPut
    <3> QED BY <2>1, <3>2
  <2> QED BY <1>1, <1>2, <2>2, <2>3, <2>4 DEF ServerInv
<1>4. CASE RunEnds \/ Terminating \/ UNCHANGED vars
  <2>1. b' = b /\ (phase' = phase \/ phase' = "idle")
    BY <1>4 DEF RunEnds, Terminating, vars
  <2> QED BY <1>1, <1>2, <2>1 DEF ServerInv, Running
<1> QED BY <1>3, <1>4 DEF Next

(* Whatever the server, the transport and the file of the system, and      *)
(* however often the Benchmark has been run or refused before, the address *)
(* that is dialled is the one that was meant.                              *)
THEOREM TheServerIsAsked == Spec => []ServerAsked
<1>1. ServerInv => ServerAsked
  <2> SUFFICES ASSUME ServerInv, Running, ~IsHttp(given.server)
               PROVE  \E host \in Wanted :
                        IF given.server.port = 0 /\ host \in {"[::1]", Garbled}
                        THEN b.server.host = Garbled
                        ELSE /\ SameHost(b.server.host, host) /\ b.server.host # "::1"
                             /\ b.server.port = PortWanted
    BY DEF ServerAsked
  <2>1. Put(b.server)
    BY DEF ServerInv
  <2>2. HostAtFirst \in Wanted
    <3>1. CASE given.server # NoServer
      BY <3>1 DEF Wanted, HostAtFirst
    <3>2. CASE given.server = NoServer /\ WellSpaced(begun.resolv)
      <4>1. DefaultNameServer(begun.resolv) \in SystemNameServers(begun.resolv)
        BY <3>2, PlainlyRead DEF ServerInv
      <4> QED BY <3>2, <4>1 DEF Wanted, HostAtFirst
    <3>3. CASE given.server = NoServer /\ ~WellSpaced(begun.resolv)
      BY <3>3 DEF Wanted, HostAtFirst
    <3> QED BY <3>1, <3>2, <3>3
  <2>3. given.server = NoServer => given.server.port = 0
    <3>1. NoServer.port = 0
      BY DEF NoServer
    <3> QED BY <3>1, Zenon
  <2>4. CASE given.server.port # 0
    <3>1. /\ b.server.host = given.server.host /\ b.server.port = given.server.port
          /\ HostAtFirst = given.server.host /\ given.server.host # "::1"
      BY <2>1, <2>3, <2>4 DEF Put, HostAtFirst, ServerInv
    <3>2. PortWanted = given.server.port
      BY <2>4 DEF PortWanted
    <3> QED BY <2>2, <2>4, <3>1, <3>2 DEF SameHost
  <2>5. CASE given.server.port = 0
    <3>1. /\ b.server.host = JoinHost(HostAtFirst)
          /\ b.server.host # Garbled => b.server.port = PortWanted
      BY <2>1, <2>5 DEF Put
    <3>2. CASE HostAtFirst \in {"[::1]", Garbled}
      <4>1. b.server.host = Garbled
        BY <3>1, <3>2 DEF JoinHost, Garbled
      <4> QED BY <2>2, <2>5, <3>2, <4>1
    <3>3. CASE HostAtFirst \notin {"[::1]", Garbled}
      <4>1. /\ SameHost(b.server.host, HostAtFirst) /\ b.server.host # "::1"
            /\ b.server.host # Garbled
        BY <3>1, <3>3 DEF JoinHost, SameHost, Garbled
      <4> QED BY <2>2, <3>1, <3>3, <4>1
    <3> QED BY <3>2, <3>3
  <2> QED BY <2>4, <2>5
<1> QED BY <1>1, ServerInit, ServerStays, SettledHolds, PTL DEF Spec

(***************************************************************************)
(* The arguments.                                                          *)
(***************************************************************************)
Arguments(args) == Range(args) \union {Attached}

Parsed(args) ==
  [ expects : BOOLEAN, bad : BOOLEAN, rest : Seq(Arguments(args)),
    edns0 : {0, DefaultEdns0BufferSize} \union Range(Numbers) ]

(* The parser waits for a value or not, and has read this size and so many *)
(* other arguments.                                                        *)
Reads(p, size, others) == ~p.expects /\ ~p.bad /\ p.edns0 = size /\ Len(p.rest) = others

Waits(p, size, others) == p.expects /\ ~p.bad /\ p.edns0 = size /\ Len(p.rest) = others

(* The type of what the parser keeps.                                      *)
LEMMA TakeType ==
  ASSUME NEW args, NEW p \in Parsed(args), NEW arg \in Arguments(args)
  PROVE  Take(p, arg) \in Parsed(args)
<1>1. CASE p.expects
  <2>1. arg \in DOMAIN Numbers => Numbers[arg] \in Range(Numbers)
    BY DEF Range
  <2>2. Take(p, arg) = [p EXCEPT !.expects = FALSE, !.bad = arg \notin DOMAIN Numbers,
                                 !.edns0 = IF @ = 0 /\ arg \in DOMAIN Numbers
                                           THEN Numbers[arg] ELSE @]
    BY <1>1 DEF Take
  <2> QED BY <2>1, <2>2 DEF Parsed
<1>2. CASE ~p.expects /\ arg = Edns0
  <2>1. Take(p, arg) = [p EXCEPT !.expects = TRUE]
    BY <1>2 DEF Take, Edns0, Attached
  <2> QED BY <2>1 DEF Parsed
<1>3. CASE ~p.expects /\ arg = Attached
  <2>1. Take(p, arg) = [p EXCEPT !.edns0 = DefaultEdns0BufferSize]
    BY <1>3 DEF Take, Edns0, Attached
  <2> QED BY <2>1 DEF Parsed
<1>4. CASE ~p.expects /\ arg # Edns0 /\ arg # Attached
  <2>1. Take(p, arg) = [p EXCEPT !.rest = Append(@, arg)]
    BY <1>4 DEF Take, Attached
  <2>2. Append(p.rest, arg) \in Seq(Arguments(args))
    BY DEF Parsed
  <2> HIDE DEF Arguments
  <2> QED BY <2>1, <2>2 DEF Parsed
<1> QED BY <1>1, <1>2, <1>3, <1>4

(* What one argument makes of it.                                          *)
LEMMA TakeSteps ==
  ASSUME NEW args, NEW p \in Parsed(args), NEW arg \in Arguments(args),
         NEW size, NEW others \in Nat
  PROVE  /\ Reads(p, size, others) =>
              /\ arg = Edns0 => Waits(Take(p, arg), size, others)
              /\ arg = Attached => Reads(Take(p, arg), DefaultEdns0BufferSize, others)
              /\ arg # Edns0 /\ arg # Attached => Reads(Take(p, arg), size, others + 1)
         /\ Waits(p, 0, others) /\ arg \in DOMAIN Numbers =>
              Reads(Take(p, arg), Numbers[arg], others)
<1>1. CASE p.expects
  <2>1. Take(p, arg) = [p EXCEPT !.expects = FALSE, !.bad = arg \notin DOMAIN Numbers,
                                 !.edns0 = IF @ = 0 /\ arg \in DOMAIN Numbers
                                           THEN Numbers[arg] ELSE @]
    BY <1>1 DEF Take
  <2> QED BY <1>1, <2>1 DEF Parsed, Reads, Waits
<1>2. CASE ~p.expects /\ arg = Edns0
  <2>1. Take(p, arg) = [p EXCEPT !.expects = TRUE]
    BY <1>2 DEF Take, Edns0, Attached
  <2>2. Edns0 # Attached
    BY DEF Edns0, Attached
  <2> QED BY <1>2, <2>1, <2>2 DEF Parsed, Reads, Waits
<1>3. CASE ~p.expects /\ arg = Attached
  <2>1. Take(p, arg) = [p EXCEPT !.edns0 = DefaultEdns0BufferSize]
    BY <1>3 DEF Take, Edns0, Attached
  <2>2. Edns0 # Attached
    BY DEF Edns0, Attached
  <2> QED BY <1>3, <2>1, <2>2 DEF Parsed, Reads, Waits
<1>4. CASE ~p.expects /\ arg # Edns0 /\ arg # Attached
  <2>1. Take(p, arg) = [p EXCEPT !.rest = Append(@, arg)]
    BY <1>4 DEF Take, Attached
  <2> QED BY <1>4, <2>1 DEF Parsed, Reads, Waits
<1> QED BY <1>1, <1>2, <1>3, <1>4

(* The parser takes one argument after the other.                          *)
LEMMA ParseRuns ==
  ASSUME NEW args, NEW s \in Seq(Arguments(args))
  PROVE  \E r : /\ Reads(r[0], 0, 0) /\ Parse(s) = r[Len(s)]
                /\ \A k \in 1..Len(s) : r[k] = Take(r[k - 1], s[k])
                /\ \A k \in 0..Len(s) : r[k] \in Parsed(args)
<1> DEFINE none == [expects |-> FALSE, bad |-> FALSE, edns0 |-> 0, rest |-> << >>]
           E == Arguments(args)
           V == Parsed(args)
           Eq(h) == h = [T \in SUBSET DOMAIN s |->
                           IF T = {} THEN none ELSE Take(h[T \ {Max(T)}], s[Max(T)])]
           op == [p \in V \X E |-> Take(p[1], p[2])]
           g == CHOOSE h : Eq(h)
<1>1. Parse(s) = g[DOMAIN s]
  BY DEF Parse, FoldLeft, MapThenFoldSet
<1>2. StaysIn(op, V, E) /\ \A p \in V, arg \in E : op[<<p, arg>>] = Take(p, arg)
  BY TakeType DEF StaysIn
<1>3. none \in V /\ Reads(none, 0, 0)
  BY DEF Parsed, Reads, Waits
<1> HIDE DEF op, none, E, V
<1>4. PICK h : LeftFolds(h, op, none, s) /\ \A T \in SUBSET DOMAIN s : h[T] \in V
  BY <1>2, <1>3, LeftFoldExists DEF E
<1>5. ASSUME NEW T \in SUBSET DOMAIN s, T # {}
      PROVE  op[<<h[T \ {Max(T)}], s[Max(T)]>>] = Take(h[T \ {Max(T)}], s[Max(T)])
  <2>1. s[Max(T)] \in E /\ h[T \ {Max(T)}] \in V
    BY <1>4, <1>5, MaxIndex DEF E
  <2> QED BY <1>2, <2>1
<1>6. Eq(h)
  BY <1>4, <1>5 DEF LeftFolds
<1>7. Eq(g)
  BY <1>6
<1> HIDE DEF g
<1>8. g[{}] = none /\ FoldsWithin(g, V, op, s)
  <2>1. \A T \in SUBSET DOMAIN s : T # {} => s[Max(T)] \in E
    BY MaxIndex DEF E
  <2> QED BY <1>2, <1>7, <2>1 DEF FoldsWithin
<1>9. PICK r : FoldValues(r, none, op, s, V) /\ g[DOMAIN s] = r[Len(s)]
  BY <1>2, <1>3, <1>8, FoldRuns DEF E
<1>10. \A k \in 1..Len(s) : k - 1 \in 0..Len(s) /\ s[k] \in E
  BY DEF E
<1>11. \A k \in 1..Len(s) : r[k] = Take(r[k - 1], s[k])
  BY <1>2, <1>9, <1>10 DEF FoldValues
<1> QED BY <1>1, <1>3, <1>9, <1>11 DEF FoldValues, V

Once(args) ==
  \A j, k \in DOMAIN args : {args[j], args[k]} \subseteq {Edns0, Attached} => j = k

HasValue(args, p) == args[p] = Edns0 /\ NextIsValue(args, p)

(* Where the parser is after k arguments, of which the first p - 1 are     *)
(* others, p is --edns0, and the next may be its value.                    *)
NowAt(r, args, p, k) ==
  IF k < p THEN Reads(r[k], 0, k)
  ELSE IF ~HasValue(args, p) THEN Reads(r[k], DefaultEdns0BufferSize, k - 1)
  ELSE IF k = p THEN Waits(r[k], 0, k - 1)
  ELSE Reads(r[k], Numbers[args[p + 1]], k - 2)

(* The parser is given as many arguments as the command was.               *)
LEMMA Preprocessed ==
  ASSUME NEW args, args \in Seq(Range(args))
  PROVE  /\ PreprocessArgs(args) \in Seq(Arguments(args))
         /\ Len(PreprocessArgs(args)) = Len(args)
<1> DEFINE E == Arguments(args)
<1>1. DOMAIN args = 1..Len(args) /\ Len(args) \in Nat
  OBVIOUS
<1>2. \A k \in 1..Len(args) :
        (IF args[k] = Edns0 /\ ~NextIsValue(args, k) THEN Attached ELSE args[k]) \in E
  BY <1>1 DEF Arguments, Attached
<1> HIDE DEF E
<1> QED BY <1>1, <1>2 DEF PreprocessArgs, E

(* Without --edns0 there is nothing to take.                               *)
LEMMA NoneParsed ==
  ASSUME NEW args, args \in Seq(Range(args)), {Edns0, Attached} \intersect Range(args) = {}
  PROVE  Reads(Parse(PreprocessArgs(args)), 0, Len(args))
<1> DEFINE s == PreprocessArgs(args)
           n == Len(args)
<1>1. DOMAIN args = 1..n /\ n \in Nat
  OBVIOUS
<1>2. s \in Seq(Arguments(args)) /\ Len(s) = n
  BY Preprocessed
<1>3. \A k \in 1..n : s[k] \in Arguments(args) /\ s[k] # Edns0 /\ s[k] # Attached
  BY <1>1 DEF PreprocessArgs, Range, Arguments
<1> HIDE DEF s, n
<1>4. PICK r : /\ Reads(r[0], 0, 0) /\ Parse(s) = r[n]
               /\ \A k \in 1..n : r[k] = Take(r[k - 1], s[k])
               /\ \A k \in 0..n : r[k] \in Parsed(args)
  BY <1>2, ParseRuns
<1> DEFINE P == {k \in 0..n : Reads(r[k], 0, k)}
<1>5. 0 \in P
  BY <1>1, <1>4
<1>6. ASSUME NEW k \in 1..n, k - 1 \in P PROVE k \in P
  <2>1. k \in 0..n /\ k - 1 \in Nat /\ (k - 1) + 1 = k
    BY <1>1
  <2>2. r[k - 1] \in Parsed(args) /\ Reads(r[k - 1], 0, k - 1)
    BY <1>4, <1>6
  <2>3. Reads(Take(r[k - 1], s[k]), 0, (k - 1) + 1)
    BY <1>3, <2>1, <2>2, TakeSteps
  <2> QED BY <1>4, <2>1, <2>3
<1> HIDE DEF P
<1>7. \A k \in 0..n : k \in P
  BY <1>1, <1>5, <1>6, PrefixInduction
<1>8. n \in P
  BY <1>1, <1>7
<1> QED BY <1>4, <1>8 DEF P, s, n

(* With it, it is given its own value or the default.                      *)
LEMMA OneParsed ==
  ASSUME NEW args, args \in Seq(Range(args)), Once(args),
         NEW p \in DOMAIN args, args[p] \in {Edns0, Attached}
  PROVE  NowAt([k \in {Len(args)} |-> Parse(PreprocessArgs(args))], args, p, Len(args))
<1> DEFINE s == PreprocessArgs(args)
           n == Len(args)
<1>1. DOMAIN args = 1..n /\ n \in Nat /\ p \in 1..n
  OBVIOUS
<1>2. s \in Seq(Arguments(args)) /\ Len(s) = n
  BY Preprocessed
<1>3. /\ \A k \in 1..n : s[k] \in Arguments(args)
      /\ \A k \in 1..n : k # p => s[k] # Edns0 /\ s[k] # Attached /\ s[k] = args[k]
      /\ s[p] = IF HasValue(args, p) THEN Edns0 ELSE Attached
  <2>1. \A k \in 1..n : k # p => args[k] # Edns0 /\ args[k] # Attached
    BY <1>1 DEF Once
  <2> QED BY <1>1, <2>1 DEF PreprocessArgs, Range, Arguments, HasValue
<1>4. HasValue(args, p) => p + 1 \in 1..n /\ args[p + 1] \in DOMAIN Numbers
  BY <1>1 DEF NextIsValue, HasValue
<1> HIDE DEF s, n
<1>5. PICK r : /\ Reads(r[0], 0, 0) /\ Parse(s) = r[n]
               /\ \A k \in 1..n : r[k] = Take(r[k - 1], s[k])
               /\ \A k \in 0..n : r[k] \in Parsed(args)
  BY <1>2, ParseRuns
<1> DEFINE P == {k \in 0..n : NowAt(r, args, p, k)}
<1>6. 0 \in P
  BY <1>1, <1>5 DEF NowAt
<1>7. ASSUME NEW k \in 1..n, k - 1 \in P PROVE k \in P
  <2>1. k \in 0..n /\ k - 1 \in 0..n /\ r[k - 1] \in Parsed(args) /\ s[k] \in Arguments(args)
    BY <1>1, <1>3, <1>5
  <2>2. r[k] = Take(r[k - 1], s[k])
    BY <1>5
  <2>3. NowAt(r, args, p, k - 1)
    BY <1>7
  <2>4. CASE k < p
    <3>1. Reads(r[k - 1], 0, k - 1) /\ s[k] # Edns0 /\ s[k] # Attached
      BY <1>1, <1>3, <2>3, <2>4 DEF NowAt
    <3>2. Reads(r[k], 0, (k - 1) + 1)
      BY <2>1, <2>2, <3>1, TakeSteps
    <3> QED BY <2>1, <2>4, <3>2 DEF NowAt
  <2>5. CASE k = p
    <3>1. Reads(r[k - 1], 0, k - 1)
      BY <1>1, <2>3, <2>5 DEF NowAt
    <3>2. /\ HasValue(args, p) => Waits(r[k], 0, k - 1)
          /\ ~HasValue(args, p) => Reads(r[k], DefaultEdns0BufferSize, k - 1)
      BY <1>3, <2>1, <2>2, <2>5, <3>1, TakeSteps
    <3> QED BY <2>1, <2>5, <3>2 DEF NowAt
  <2>6. CASE k > p /\ ~HasValue(args, p)
    <3>1. Reads(r[k - 1], DefaultEdns0BufferSize, k - 2) /\ k - 2 \in Nat
      BY <1>1, <2>3, <2>6 DEF NowAt
    <3>2. Reads(r[k], DefaultEdns0BufferSize, (k - 2) + 1)
      BY <1>1, <1>3, <2>1, <2>2, <2>6, <3>1, TakeSteps
    <3> QED BY <1>1, <2>1, <2>6, <3>2 DEF NowAt
  <2>7. CASE k = p + 1 /\ HasValue(args, p)
    <3>1. Waits(r[k - 1], 0, k - 2) /\ k - 2 \in Nat
      BY <1>1, <2>3, <2>7 DEF NowAt
    <3>2. s[k] = args[p + 1] /\ s[k] \in DOMAIN Numbers
      BY <1>1, <1>3, <1>4, <2>7
    <3>3. Reads(r[k], Numbers[args[p + 1]], k - 2)
      BY <2>1, <2>2, <3>1, <3>2, TakeSteps
    <3> QED BY <1>1, <2>1, <2>7, <3>3 DEF NowAt
  <2>8. CASE k > p + 1 /\ HasValue(args, p)
    <3>1. Reads(r[k - 1], Numbers[args[p + 1]], k - 3) /\ k - 3 \in Nat
      BY <1>1, <2>3, <2>8 DEF NowAt
    <3>2. Reads(r[k], Numbers[args[p + 1]], (k - 3) + 1)
      BY <1>1, <1>3, <2>1, <2>2, <2>8, <3>1, TakeSteps
    <3> QED BY <1>1, <2>1, <2>8, <3>2 DEF NowAt
  <2> QED BY <1>1, <2>4, <2>5, <2>6, <2>7, <2>8
<1> HIDE DEF P
<1>8. \A k \in 0..n : k \in P
  BY <1>1, <1>6, <1>7, PrefixInduction
<1>9. n \in P
  BY <1>1, <1>8
<1> QED BY <1>5, <1>9 DEF P, s, n, NowAt

(* Of a set of indices all but one or two are left.                        *)
LEMMA AllButTwo ==
  ASSUME NEW n \in Nat, NEW p \in 1..n
  PROVE  /\ Cardinality(1..n) = n
         /\ Cardinality((1..n) \ {p}) = n - 1
         /\ p + 1 \in 1..n => Cardinality(((1..n) \ {p}) \ {p + 1}) = n - 2
<1> DEFINE S == 1..n
           T == S \ {p}
<1>1. IsFiniteSet(S) /\ Cardinality(S) = n
  BY FS_Interval
<1>2. p \in S /\ (p + 1 \in S => p + 1 \in T)
  OBVIOUS
<1> HIDE DEF S
<1>3. IsFiniteSet(T) /\ Cardinality(T) = n - 1
  BY <1>1, <1>2, FS_RemoveElement
<1> HIDE DEF T
<1>4. p + 1 \in T => Cardinality(T \ {p + 1}) = (n - 1) - 1
  BY <1>3, FS_RemoveElement
<1> QED BY <1>1, <1>2, <1>3, <1>4 DEF S, T

(* The arguments are those the command was started with, and all that is   *)
(* read of them is the size.                                               *)
BegunInv ==
  /\ begun \in Starts
  /\ begun.args # << >> => given.edns0 = Parse(PreprocessArgs(begun.args)).edns0

(* So it is before the first run,                                          *)
LEMMA BegunInit == Init => BegunInv
<1> SUFFICES ASSUME Init, begun.args # << >>
             PROVE  given.edns0 = Parse(PreprocessArgs(begun.args)).edns0
  BY DEF Init, BegunInv
<1>1. begun.settings \in Benchmarks
  BY SettingsAssumption DEF Init
<1>2. "edns0" \in DOMAIN begun.settings
  BY <1>1 DEF Benchmarks
<1> DEFINE size == Parse(PreprocessArgs(begun.args)).edns0
<1>3. given = [begun.settings EXCEPT !.edns0 = size]
  BY DEF Init
<1> HIDE DEF size
<1>4. given.edns0 = size
  BY <1>2, <1>3
<1> QED BY <1>4 DEF size

(* and no run changes what the owner gave.                                 *)
LEMMA BegunStays == BegunInv /\ [Next]_vars => BegunInv'
<1> SUFFICES ASSUME BegunInv, [Next]_vars PROVE BegunInv'
  OBVIOUS
<1>1. UNCHANGED <<begun, given>>
  BY DEF Next, RunStarts, RunRefused, CallRun, RunEnds, Terminating, vars
<1> QED BY <1>1 DEF BegunInv

(* No argument of any list is swallowed by a bare --edns0 before it, nor   *)
(* is its value asked of the server.                                       *)
THEOREM NoArgumentIsLost == Spec => []ArgumentsKept
<1>1. BegunInv => ArgumentsKept
  <2> SUFFICES ASSUME BegunInv, begun.args # << >> PROVE ArgumentsKept
    BY DEF ArgumentsKept
  <2> DEFINE args   == begun.args
             n      == Len(args)
             parsed == Parse(PreprocessArgs(args))
             values == {k \in 2..n : args[k - 1] = Edns0 /\ args[k] \in DOMAIN Numbers}
             others == {k \in DOMAIN args \ values : args[k] \notin {Edns0, Attached}}
             Kept   == /\ ~parsed.bad /\ ~parsed.expects
                       /\ Len(parsed.rest) = Cardinality(others)
                       /\ \A k \in values : parsed.edns0 = Numbers[args[k]]
                       /\ values = {} =>
                            parsed.edns0 = IF {Edns0, Attached} \intersect Range(args) # {}
                                           THEN DefaultEdns0BufferSize ELSE 0
  <2>1. /\ args \in Seq(Range(args)) /\ Once(args)
        /\ DOMAIN args = 1..n /\ n \in Nat
    <3>1. args \in Seq(Range(args))
      BY SettingsAssumption DEF BegunInv
    <3>2. \A j, k \in DOMAIN args : {args[j], args[k]} \subseteq {Edns0, Attached} => j = k
      BY SettingsAssumption, Zenon DEF BegunInv
    <3> HIDE DEF args
    <3>3. DOMAIN args = 1..Len(args) /\ Len(args) \in Nat
      BY <3>1
    <3> QED BY <3>1, <3>2, <3>3 DEF Once, n
  <2> HIDE DEF args, n, parsed
  <2>2. ASSUME {Edns0, Attached} \intersect Range(args) = {} PROVE Kept
    <3>1. Reads(parsed, 0, n)
      BY <2>1, <2>2, NoneParsed DEF parsed, n
    <3>2. \A k \in 1..n : args[k] \notin {Edns0, Attached}
      BY <2>1, <2>2 DEF Range
    <3>3. values = {} /\ others = 1..n
      BY <2>1, <3>2
    <3>4. Cardinality(1..n) = n
      BY <2>1, FS_Interval
    <3> HIDE DEF values, others
    <3> QED BY <2>2, <3>1, <3>3, <3>4 DEF Reads
  <2>3. ASSUME {Edns0, Attached} \intersect Range(args) # {} PROVE Kept
    <3>1. PICK p \in DOMAIN args : args[p] \in {Edns0, Attached}
      BY <2>3 DEF Range
    <3>2. p \in 1..n /\ \A k \in 1..n : args[k] \in {Edns0, Attached} => k = p
      BY <2>1, <3>1 DEF Once
    <3>3. Edns0 \notin DOMAIN Numbers /\ Attached \notin DOMAIN Numbers
      BY StartupAssumption
    <3>4. NowAt([k \in {n} |-> parsed], args, p, n)
      BY <2>1, <3>1, OneParsed DEF parsed, n
    <3>5. CASE HasValue(args, p)
      <4>1. p + 1 \in 1..n /\ args[p + 1] \in DOMAIN Numbers /\ args[p] = Edns0
        BY <2>1, <3>5 DEF NextIsValue, HasValue
      <4>2. Reads(parsed, Numbers[args[p + 1]], n - 2)
        BY <2>1, <3>2, <3>4, <3>5, <4>1 DEF NowAt
      <4>3. values = {p + 1}
        <5>1. p + 1 \in values
          BY <2>1, <3>1, <3>2, <4>1
        <5>2. \A k \in values : k = p + 1
          BY <2>1, <3>2
        <5> QED BY <5>1, <5>2
      <4>4. others = ((1..n) \ {p}) \ {p + 1}
        <5>1. others = {k \in (1..n) \ {p + 1} : args[k] \notin {Edns0, Attached}}
          BY <2>1, <4>3
        <5> HIDE DEF others
        <5> QED BY <3>1, <3>2, <5>1
      <4>5. Cardinality(others) = n - 2
        <5>1. n \in Nat /\ p \in 1..n /\ p + 1 \in 1..n
          BY <2>1, <3>2, <4>1
        <5> HIDE DEF others
        <5>2. Cardinality(((1..n) \ {p}) \ {p + 1}) = n - 2
          BY <5>1, AllButTwo
        <5> QED BY <4>4, <5>2
      <4> HIDE DEF values, others
      <4> QED BY <4>2, <4>3, <4>5 DEF Reads
    <3>6. CASE ~HasValue(args, p)
      <4>1. Reads(parsed, DefaultEdns0BufferSize, n - 1)
        BY <2>1, <3>2, <3>4, <3>6 DEF NowAt
      <4>2. values = {}
        <5>1. ASSUME NEW k \in values PROVE FALSE
          <6>1. k = p + 1 /\ p + 1 \in DOMAIN args /\ args[p + 1] \in DOMAIN Numbers
            BY <2>1, <3>2, <5>1
          <6>2. args[p] = Edns0
            BY <2>1, <3>2, <5>1, <6>1
          <6> QED BY <3>6, <6>1, <6>2 DEF NextIsValue, HasValue
        <5> QED BY <5>1
      <4>3. others = (1..n) \ {p}
        BY <2>1, <3>1, <3>2, <4>2
      <4>4. Cardinality(others) = n - 1
        BY <2>1, <3>2, <4>3, AllButTwo
      <4> HIDE DEF values, others
      <4> QED BY <2>3, <4>1, <4>2, <4>4 DEF Reads
    <3> QED BY <3>5, <3>6
  <2>4. Kept
    BY <2>2, <2>3
  <2>5. given.edns0 = parsed.edns0
    BY DEF BegunInv, parsed, args
  <2> QED BY <2>4, <2>5 DEF ArgumentsKept, parsed, args, n
<1> QED BY <1>1, BegunInit, BegunStays, PTL DEF Spec
=============================================================================
