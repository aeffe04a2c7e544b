--------------------------- MODULE DnsConnection ----------------------------
(***************************************************************************)
(* The query function of one worker for plain DNS and DoT: the closure of  *)
(* dnsQueryFactory (pkg/dnsbench/query_factory.go:27-56), which keeps a    *)
(* connection between calls.  Its calls are those of one worker, one after *)
(* the other.  The sockets and the network are those that the dns package  *)
(* and the operating system provide: a response travels on the connection  *)
(* of its query, arrives late or never, and a read takes any response that *)
(* has arrived on the connection (message IDs may coincide).               *)
(***************************************************************************)
EXTENDS Integers, FiniteSets

CONSTANTS
  QperConn,  \* Benchmark.QperConn; 0 is no limit
  MaxCalls   \* bound of the model: calls of the query function

ASSUME DnsConnectionAssumption == QperConn \in Nat /\ MaxCalls \in Nat

NoConn == 0
Conns  == 1..MaxCalls      \* a call opens one connection at most
Calls  == 1..MaxCalls

VARIABLES
  pc,       \* "idle" between two calls, "dial", "write", "read"
  co, i,    \* the variables of the closure
  (* the sockets and the network *)
  open,     \* connections that are open
  opened,   \* how many there have been; they are numbered in that order
  flying,   \* responses under way: [conn, call]
  arrived,  \* responses that can be read
  (* history *)
  served,   \* queries written to each connection
  rotated,  \* connections closed because of QperConn
  failures, \* calls that returned an error
  answer    \* the call whose response the latest call returned; 0: none

network == <<flying, arrived>>
vars == <<pc, co, i, open, opened, network, served, rotated, failures, answer>>

Init ==
  /\ pc = "idle" /\ co = NoConn /\ i = 0
  /\ open = {} /\ opened = 0
  /\ flying = {} /\ arrived = {}
  /\ served = [c \in Conns |-> 0]
  /\ rotated = {} /\ failures = 0 /\ answer = 0

(* Mutant: the call counter is compared after it was incremented.          *)
DueOneEarly == co # NoConn /\ QperConn > 0 /\ (i + 1) % QperConn = 0

(* Mutant: the counter is never compared.                                  *)
NeverDue == FALSE

RotationDue == co # NoConn /\ QperConn > 0 /\ i % QperConn = 0

(* The call up to the question whether it has to dial.                     *)
Call ==
  /\ pc = "idle" /\ i < MaxCalls
  /\ co' = IF RotationDue THEN NoConn ELSE co
  /\ open' = IF RotationDue THEN open \ {co} ELSE open
  /\ rotated' = IF RotationDue THEN rotated \union {co} ELSE rotated
  /\ i' = i + 1
  /\ pc' = IF co' = NoConn THEN "dial" ELSE "write"
  /\ answer' = 0
  /\ UNCHANGED <<opened, network, served, failures>>

Dial ==
  /\ pc = "dial"
  /\ opened' = opened + 1
  /\ co' = opened + 1
  /\ open' = open \union {opened + 1}
  /\ pc' = "write"
  /\ UNCHANGED <<i, network, served, rotated, failures, answer>>

DialFails ==
  /\ pc = "dial"
  /\ pc' = "idle"
  /\ failures' = failures + 1
  /\ UNCHANGED <<co, i, open, opened, network, served, rotated, answer>>

Write ==
  /\ pc = "write"
  /\ served' = [served EXCEPT ![co] = @ + 1]
  /\ flying' = flying \union {[conn |-> co, call |-> i]}
  /\ pc' = "read"
  /\ UNCHANGED <<co, i, open, opened, arrived, rotated, failures, answer>>

Read(m) ==
  /\ pc = "read" /\ m.conn = co
  /\ arrived' = arrived \ {m}
  /\ answer' = m.call
  /\ pc' = "idle"
  /\ UNCHANGED <<co, i, open, opened, flying, served, rotated, failures>>

(* Mutant: a failed exchange returns without closing its connection.       *)
KeepConnection == open' = open /\ co' = co

(* Mutant: it forgets the connection but does not close it.                *)
ForgetConnection == open' = open /\ co' = NoConn

CloseConnection == open' = open \ {co} /\ co' = NoConn

(* The write fails, or no response is read before the timeouts.            *)
ExchangeFails ==
  /\ pc \in {"write", "read"}
  /\ CloseConnection
  /\ failures' = failures + 1
  /\ pc' = "idle"
  /\ UNCHANGED <<i, opened, network, served, rotated, answer>>

(* A response reaches the host; a closed socket takes nothing.             *)
Arrive(m) ==
  /\ flying' = flying \ {m}
  /\ arrived' = IF m.conn \in open THEN arrived \union {m} ELSE arrived
  /\ UNCHANGED <<pc, co, i, open, opened, served, rotated, failures, answer>>

Terminating == pc = "idle" /\ i = MaxCalls /\ flying = {} /\ UNCHANGED vars

Next ==
  \/ Call \/ Dial \/ DialFails \/ Write \/ ExchangeFails \/ Terminating
  \/ \E m \in arrived : Read(m)
  \/ \E m \in flying : Arrive(m)

Spec == Init /\ [][Next]_vars

(***************************************************************************)
(* Properties.                                                             *)
(***************************************************************************)
Message == [conn : Conns, call : Calls]

TypeOK ==
  /\ pc \in {"idle", "dial", "write", "read"}
  /\ co \in Conns \union {NoConn} /\ i \in 0..MaxCalls
  /\ open \subseteq Conns /\ opened \in 0..MaxCalls
  /\ flying \subseteq Message /\ arrived \subseteq Message
  /\ served \in [Conns -> Nat]
  /\ rotated \subseteq Conns /\ failures \in 0..MaxCalls
  /\ answer \in 0..MaxCalls

(* No socket is leaked by an error or a rotation and none is used after it *)
(* was closed: the one the closure holds is the only one that is open.     *)
OnlyCurrentOpen == open = IF co = NoConn THEN {} ELSE {co}

(* A response that comes after its query timed out is never taken for the  *)
(* answer to a later query, as the connection it comes on was given up.    *)
OwnAnswer == answer \in {0, i}

(* A connection never serves more queries than --query-per-conn allows,    *)
(* whatever fails in between.                                              *)
AtMostQperConn ==
  QperConn > 0 => \A c \in Conns : served[c] <= QperConn

(* As long as nothing fails the limit is exact.                            *)
RotatedWhenFull ==
  failures = 0 => \A c \in rotated : served[c] = QperConn
=============================================================================
