------------------------ MODULE DnsConnectionProofs ------------------------
(***************************************************************************)
(* Proofs about DnsConnection, for any number of calls and any limit of    *)
(* queries per connection.                                                 *)
(***************************************************************************)
EXTENDS DnsConnection, TLAPS

(***************************************************************************)
(* Arithmetic of the call counter, whose remainder decides on a rotation.  *)
(***************************************************************************)
(* A remainder is smaller than the divisor.                                *)
LEMMA ModBound ==
  ASSUME NEW n \in Nat, NEW q \in Nat \ {0}
  PROVE  n % q \in 0..(q - 1)
OBVIOUS

(* And what it is the remainder of.                                        *)
LEMMA DivMod ==
  ASSUME NEW n \in Nat, NEW q \in Nat \ {0}
  PROVE  n \div q \in Int /\ n = q * (n \div q) + (n % q)
OBVIOUS

(* Multiples of q are at least q apart.                                    *)
LEMMA MultiplesApart ==
  ASSUME NEW q \in Nat \ {0}, NEW a \in Int, NEW b \in Int, a < b
  PROVE  q * a + q <= q * b
<1>1. q * b = q * a + q * (b - a)
  OBVIOUS
<1>2. q * (b - a) >= q
  OBVIOUS
<1>3. q * a \in Int /\ q * b \in Int /\ q * (b - a) \in Int
  OBVIOUS
<1> QED BY <1>1, <1>2, <1>3

(* Hence the remainder of a number is unique.                              *)
LEMMA ModUnique ==
  ASSUME NEW q \in Nat \ {0}, NEW a \in Int, NEW b \in Int,
         NEW r \in 0..(q - 1), NEW s \in 0..(q - 1), q * a + r = q * b + s
  PROVE  r = s
<1>1. q * a \in Int /\ q * b \in Int
  OBVIOUS
<1>2. ~ (a < b) /\ ~ (b < a)
  BY MultiplesApart, <1>1
<1> QED BY <1>1, <1>2

(* The remainder grows by one with each number, until it starts again.     *)
LEMMA ModStep ==
  ASSUME NEW n \in Nat \ {0}, NEW q \in Nat \ {0}
  PROVE  (n - 1) % q = IF n % q = 0 THEN q - 1 ELSE (n % q) - 1
<1> DEFINE a == n \div q
           m == (n - 1) \div q
<1>1. /\ a \in Int /\ q * a \in Int
      /\ n = q * a + (n % q) /\ n % q \in 0..(q - 1)
  BY DivMod, ModBound
<1>2. /\ m \in Int /\ q * m \in Int
      /\ n - 1 = q * m + ((n - 1) % q) /\ (n - 1) % q \in 0..(q - 1)
  BY DivMod, ModBound
<1> HIDE DEF a, m
<1>3. CASE n % q = 0
  <2>1. q * (a - 1) = q * a - q
    BY <1>1
  <2>2. q * m + ((n - 1) % q) = q * (a - 1) + (q - 1)
    BY <2>1, <1>1, <1>2, <1>3
  <2>3. a - 1 \in Int /\ q - 1 \in 0..(q - 1)
    BY <1>1
  <2>4. (n - 1) % q = q - 1
    BY <2>2, <2>3, ModUnique, <1>2
  <2> QED BY <2>4, <1>3
<1>4. CASE n % q # 0
  <2>1. q * m + ((n - 1) % q) = q * a + ((n % q) - 1)
    BY <1>1, <1>2
  <2>2. (n % q) - 1 \in 0..(q - 1)
    BY <1>1, <1>4
  <2>3. (n - 1) % q = (n % q) - 1
    BY <2>1, <2>2, ModUnique, <1>1, <1>2
  <2> QED BY <2>3, <1>4
<1> QED BY <1>3, <1>4

(***************************************************************************)
(* The invariant.                                                          *)
(***************************************************************************)
(* Calls open one connection at most and fail once at most.                *)
Held ==
  /\ failures <= i
  /\ pc # "idle" => failures < i
  /\ co <= opened /\ opened <= i
  /\ pc = "dial" => co = NoConn /\ opened < i
  /\ pc \in {"write", "read"} => co # NoConn

(* All that is on the wire of the current connection is the response to    *)
(* the current call: those who wait for nothing have nothing to read.      *)
Wire ==
  /\ flying \intersect arrived = {}
  /\ \A m \in flying \union arrived :
       /\ m.conn <= opened
       /\ m.conn = co => pc = "read" /\ m.call = i

(* What the current connection may have served: the call counter cannot    *)
(* have left a multiple of the limit behind since it was opened.           *)
Due == ((i - 1) % QperConn) + IF pc = "write" THEN 0 ELSE 1

Load ==
  /\ \A c \in Conns : c > opened => served[c] = 0
  /\ QperConn > 0 /\ co # NoConn => served[co] <= Due

(* While nothing has failed it has served exactly that.                    *)
Exact ==
  /\ QperConn = 0 => rotated = {}
  /\ \A c \in rotated : c <= opened /\ c # co
  /\ failures = 0 =>
       /\ pc = "idle" /\ i > 0 => co # NoConn
       /\ QperConn > 0 /\ co # NoConn => served[co] = Due
       /\ QperConn > 0 /\ pc = "dial" => (i - 1) % QperConn = 0

Inv ==
  /\ TypeOK /\ Held /\ OnlyCurrentOpen
  /\ Wire /\ OwnAnswer
  /\ Load /\ AtMostQperConn
  /\ Exact /\ RotatedWhenFull

(* It holds when a worker starts,                                          *)
LEMMA InvInit == Init => Inv
<1> SUFFICES ASSUME Init PROVE Inv
  OBVIOUS
<1>1. TypeOK
  BY DnsConnectionAssumption DEF Init, TypeOK, NoConn
<1>2. Held /\ OnlyCurrentOpen /\ Wire /\ OwnAnswer
  BY DEF Init, Held, OnlyCurrentOpen, Wire, OwnAnswer, NoConn
<1>3. Load /\ AtMostQperConn /\ Exact /\ RotatedWhenFull
  BY DnsConnectionAssumption
     DEF Init, Load, AtMostQperConn, Exact, RotatedWhenFull, NoConn
<1> QED BY <1>1, <1>2, <1>3 DEF Inv

(* and every step of a call and of the network preserves it.               *)
LEMMA InvStep == Inv /\ [Next]_vars => Inv'
<1> SUFFICES ASSUME Inv, [Next]_vars PROVE Inv'
  OBVIOUS
<1> USE DnsConnectionAssumption DEF Inv, NoConn, network
<1>1. CASE Call
  <2> USE <1>1 DEF Call
  <2>1. TypeOK'  BY DEF TypeOK, Held, RotationDue, Conns, Calls, Message
  <2>2. CASE RotationDue
    <3>1. QperConn \in Nat \ {0} /\ i \in Nat \ {0} /\ i % QperConn = 0
      BY <2>2 DEF RotationDue, TypeOK, Held, Conns
    <3>2. (i - 1) % QperConn = QperConn - 1
      BY <3>1, ModStep
    <3>3. pc' = "dial" /\ co' = NoConn /\ i' - 1 = i /\ i' = i + 1
      BY <2>2, <3>1
    <3>4. Held' /\ OnlyCurrentOpen'
      BY <2>2, <3>3 DEF TypeOK, Held, OnlyCurrentOpen
    <3>5. Wire' /\ OwnAnswer'
      BY <2>2, <3>3 DEF TypeOK, Held, Wire, OwnAnswer, Conns, Calls, Message
    <3>6. Load' /\ AtMostQperConn'
      BY <2>2, <3>3 DEF TypeOK, Load, AtMostQperConn
    <3>7. RotatedWhenFull' /\ Exact'
      <4>1. failures = 0 => served[co] = QperConn
        BY <3>1, <3>2 DEF Exact, Due, TypeOK
      <4>2. co \in Conns /\ rotated' = rotated \union {co}
        BY <2>2 DEF RotationDue, TypeOK
      <4>3. RotatedWhenFull'
        BY <4>1, <4>2 DEF RotatedWhenFull
      <4> QED BY <3>1, <3>3, <4>2, <4>3 DEF TypeOK, Held, Exact, Conns
    <3> QED BY <2>1, <3>4, <3>5, <3>6, <3>7
  <2>3. CASE ~RotationDue
    <3>1. i' = i + 1 /\ co' = co /\ rotated' = rotated /\ open' = open
      BY <2>3
    <3>2. Held' /\ OnlyCurrentOpen'
      BY <3>1 DEF TypeOK, Held, OnlyCurrentOpen
    <3>3. Wire' /\ OwnAnswer'
      BY <3>1 DEF TypeOK, Held, Wire, OwnAnswer, Conns, Calls, Message
    <3>4. co # NoConn /\ QperConn > 0 => Due' = Due
      <4>1. SUFFICES ASSUME co # NoConn, QperConn > 0 PROVE Due' = Due
        OBVIOUS
      <4>2. QperConn \in Nat \ {0} /\ i \in Nat \ {0} /\ i % QperConn # 0
        BY <2>3, <4>1 DEF RotationDue, TypeOK, Held, Conns
      <4>3. (i - 1) % QperConn = (i % QperConn) - 1
        BY <4>2, ModStep
      <4>4. pc = "idle" /\ pc' = "write" /\ i' - 1 = i
        BY <3>1, <4>1, <4>2
      <4>5. i % QperConn \in Int
        BY <4>2, ModBound
      <4> QED BY <4>3, <4>4, <4>5 DEF Due
    <3>5. Load' /\ AtMostQperConn'
      BY <3>1, <3>4 DEF TypeOK, Load, AtMostQperConn
    <3>6. RotatedWhenFull' /\ Exact'
      <4>1. co = NoConn /\ failures = 0 => i = 0
        BY DEF TypeOK, Exact
      <4>2. QperConn > 0 => 0 % QperConn = 0
        BY ModBound
      <4> QED BY <3>1, <3>4, <4>1, <4>2 DEF TypeOK, Held, Exact, RotatedWhenFull
    <3> QED BY <2>1, <3>2, <3>3, <3>5, <3>6
  <2> QED BY <2>2, <2>3
<1>2. CASE Dial
  <2> USE <1>2 DEF Dial
  <2>1. TypeOK'  BY DEF TypeOK, Held, Conns, Calls, Message
  <2>2. Held' /\ OnlyCurrentOpen'  BY DEF TypeOK, Held, OnlyCurrentOpen
  <2>3. Wire' /\ OwnAnswer'
    BY DEF TypeOK, Held, OnlyCurrentOpen, Wire, OwnAnswer, Conns, Calls, Message
  <2>4. Load' /\ AtMostQperConn'
    BY DEF TypeOK, Held, Load, AtMostQperConn, Due, Conns
  <2>5. Exact' /\ RotatedWhenFull'
    BY DEF TypeOK, Held, Load, Exact, RotatedWhenFull, Due, Conns
  <2> QED BY <2>1, <2>2, <2>3, <2>4, <2>5
<1>3. CASE DialFails
  <2> USE <1>3 DEF DialFails
  <2>1. TypeOK'  BY DEF TypeOK, Held, Conns, Calls, Message
  <2>2. Held' /\ OnlyCurrentOpen'  BY DEF TypeOK, Held, OnlyCurrentOpen
  <2>3. Wire' /\ OwnAnswer'
    BY DEF TypeOK, Held, OnlyCurrentOpen, Wire, OwnAnswer, Conns, Calls, Message
  <2>4. Load' /\ AtMostQperConn'
    BY DEF TypeOK, Held, Load, AtMostQperConn, Due, Conns
  <2>5. Exact' /\ RotatedWhenFull'
    BY DEF TypeOK, Held, Load, Exact, RotatedWhenFull, Due, Conns
  <2> QED BY <2>1, <2>2, <2>3, <2>4, <2>5
<1>4. CASE Write
  <2> USE <1>4 DEF Write
  <2>1. TypeOK'  BY DEF TypeOK, Held, Conns, Calls, Message
  <2>2. Held' /\ OnlyCurrentOpen'  BY DEF TypeOK, Held, OnlyCurrentOpen
  <2>3. Wire' /\ OwnAnswer'
    BY DEF TypeOK, Held, OnlyCurrentOpen, Wire, OwnAnswer, Conns, Calls, Message
  <2>4. Load' /\ AtMostQperConn'
    BY DEF TypeOK, Held, Load, AtMostQperConn, Due, Conns
  <2>5. Exact' /\ RotatedWhenFull'
    BY DEF TypeOK, Held, Load, Exact, RotatedWhenFull, Due, Conns
  <2> QED BY <2>1, <2>2, <2>3, <2>4, <2>5
<1>5. CASE ExchangeFails
  <2> USE <1>5 DEF ExchangeFails, CloseConnection
  <2>1. TypeOK'  BY DEF TypeOK, Held, Conns, Calls, Message
  <2>2. Held' /\ OnlyCurrentOpen'  BY DEF TypeOK, Held, OnlyCurrentOpen
  <2>3. Wire' /\ OwnAnswer'
    BY DEF TypeOK, Held, OnlyCurrentOpen, Wire, OwnAnswer, Conns, Calls, Message
  <2>4. Load' /\ AtMostQperConn'
    BY DEF TypeOK, Held, Load, AtMostQperConn, Due, Conns
  <2>5. Exact' /\ RotatedWhenFull'
    BY DEF TypeOK, Held, Load, Exact, RotatedWhenFull, Due, Conns
  <2> QED BY <2>1, <2>2, <2>3, <2>4, <2>5
<1>6. ASSUME NEW m \in arrived, Read(m) PROVE Inv'
  <2> USE <1>6 DEF Read
  <2>1. TypeOK'  BY DEF TypeOK, Held, Conns, Calls, Message
  <2>2. Held' /\ OnlyCurrentOpen'  BY DEF TypeOK, Held, OnlyCurrentOpen
  <2>3. Wire' /\ OwnAnswer'
    BY DEF TypeOK, Held, OnlyCurrentOpen, Wire, OwnAnswer, Conns, Calls, Message
  <2>4. Load' /\ AtMostQperConn'
    BY DEF TypeOK, Held, Load, AtMostQperConn, Due, Conns
  <2>5. Exact' /\ RotatedWhenFull'
    BY DEF TypeOK, Held, Load, Exact, RotatedWhenFull, Due, Conns
  <2> QED BY <2>1, <2>2, <2>3, <2>4, <2>5
<1>7. ASSUME NEW m \in flying, Arrive(m) PROVE Inv'
  <2> USE <1>7 DEF Arrive
  <2>1. TypeOK'  BY DEF TypeOK, Held, Conns, Calls, Message
  <2>2. Held' /\ OnlyCurrentOpen'  BY DEF TypeOK, Held, OnlyCurrentOpen
  <2>3. Wire' /\ OwnAnswer'
    BY DEF TypeOK, Held, OnlyCurrentOpen, Wire, OwnAnswer, Conns, Calls, Message
  <2>4. Load' /\ AtMostQperConn'
    BY DEF TypeOK, Held, Load, AtMostQperConn, Due, Conns
  <2>5. Exact' /\ RotatedWhenFull'
    BY DEF TypeOK, Held, Load, Exact, RotatedWhenFull, Due, Conns
  <2> QED BY <2>1, <2>2, <2>3, <2>4, <2>5
<1>8. CASE Terminating \/ UNCHANGED vars
  BY <1>8 DEF Terminating, vars, network, TypeOK, Held, OnlyCurrentOpen, Wire,
              OwnAnswer, Load, AtMostQperConn, Exact, RotatedWhenFull, Due
<1> QED BY <1>1, <1>2, <1>3, <1>4, <1>5, <1>6, <1>7, <1>8 DEF Next

(* One worker never has more than one socket open, the one it will use.    *)
THEOREM NoSocketLeaks == Spec => []OnlyCurrentOpen
<1>1. Inv => OnlyCurrentOpen
  BY DEF Inv
<1> QED BY <1>1, InvInit, InvStep, PTL DEF Spec

(* A call returns the response to its own query or none.                   *)
THEOREM AnswersAreOwn == Spec => []OwnAnswer
<1>1. Inv => OwnAnswer
  BY DEF Inv
<1> QED BY <1>1, InvInit, InvStep, PTL DEF Spec

(* No connection is used more often than the limit allows.                 *)
THEOREM LimitKept == Spec => []AtMostQperConn
<1>1. Inv => AtMostQperConn
  BY DEF Inv
<1> QED BY <1>1, InvInit, InvStep, PTL DEF Spec

(* Without failures each rotated connection was used exactly that often.   *)
THEOREM LimitExact == Spec => []RotatedWhenFull
<1>1. Inv => RotatedWhenFull
  BY DEF Inv
<1> QED BY <1>1, InvInit, InvStep, PTL DEF Spec
=============================================================================
