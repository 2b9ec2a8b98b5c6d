-------------------------- MODULE ForwardingProofs --------------------------
(***************************************************************************)
(* Theorems about Forwarding, for any requests, upstreams and size of the  *)
(* pool: what the pool holds, what a retry may do, and that forwarding     *)
(* implements Delivery.                                                    *)
(***************************************************************************)
EXTENDS Forwarding, FiniteSetTheorems, SequenceTheorems, TLAPS

(* A request owns its sender at these steps ...                            *)
Held == {"send", "await", "release"}

(* ... and has an answer to come on its connection at these.               *)
Active == {"await", "release", "body"}

Elems(s) == {s[i] : i \in 1 .. Len(s)}

Distinct(s) == \A i, j \in 1 .. Len(s) : s[i] = s[j] => i = j

(* The connection that the n-th attempt of r opens.                        *)
Own(r, n) == <<r, n>>

(* A request that has not returned has no result.                          *)
ResultInv == \A r \in Requests : result[r] = "none" <=> pc[r] # "done"

(* A connection is there only once its attempt has opened it.              *)
FreshInv ==
  \A r \in Requests :
    /\ pc[r] \in {"collect", "acquire"} => attempt[r] = 1 /\ conn[Own(r, 1)] = "none"
    /\ pc[r] = "connect" => conn[Own(r, attempt[r])] = "none"
    /\ pc[r] # "done" /\ attempt[r] = 1 => conn[Own(r, 2)] = "none"
    /\ pc[r] = "done" => attempt[r] = 1

(* The connection a request works on is open or was, goes to its upstream, *)
(* is its own if it retries, and is in a state that fits its step.         *)
WorkInv ==
  \A r \in Requests : pc[r] \in Held \cup Active =>
    LET c == using[r] IN
    /\ c \in Conns /\ conn[c] # "none"
    /\ addr[c[1]] = addr[r]
    /\ attempt[r] = 2 => c = Own(r, 2)
    /\ pc[r] = "send" /\ attempt[r] = 2 => conn[c] \in {"ready", "closed"}
    /\ pc[r] = "await" => conn[c] \in {"busy", "closed"}
    /\ pc[r] \in {"release", "body"} => conn[c] \in {"body", "closed"}

(* No two requests own one sender or expect an answer on one connection.   *)
ApartInv ==
  \A r, q \in Requests : r # q =>
    /\ pc[r] \in Held /\ pc[q] \in Held => using[r] # using[q]
    /\ pc[r] \in Active /\ pc[q] \in Active => using[r] # using[q]

(* PoolBound and PooledIsAnswered, with Elems and Distinct.                *)
PoolInv ==
  \A a \in Upstreams :
    /\ Len(idle[a]) <= MaxIdle
    /\ Distinct(idle[a])
    /\ \A c \in Elems(idle[a]) :
         /\ addr[c[1]] = a
         /\ conn[c] \in {"ready", "body", "drained", "closed"}
         /\ conn[c] = "body" => \E r \in Requests : pc[r] = "body" /\ using[r] = c
         /\ \A r \in Requests : pc[r] \in Held => using[r] # c

(* Where a request was written: on a first attempt to the connection it    *)
(* works on, on a second to that and to one that is closed.                *)
Sent(r) ==
  /\ attempt[r] = 1 => delivered[r] = IF pc[r] \in Active THEN {using[r]} ELSE {}
  /\ attempt[r] = 2 =>
       /\ Own(r, 2) \in delivered[r] <=> pc[r] \in Active
       /\ \A c \in delivered[r] : c # Own(r, 2) => conn[c] = "closed"
       /\ \A c, d \in delivered[r] : c # Own(r, 2) /\ d # Own(r, 2) => c = d

SentInv == \A r \in Requests : Sent(r)

Inv ==
  /\ TypeOK /\ ResultInv /\ FreshInv /\ WorkInv
  /\ ApartInv /\ PoolInv /\ SentInv


-----------------------------------------------------------------------------
(* Stacks.                                                                 *)

LEMMA PushStack ==
  ASSUME NEW S, NEW s \in Seq(S), NEW c \in S, c \notin Elems(s), Distinct(s)
  PROVE  LET t == Append(s, c) IN
         /\ t \in Seq(S) /\ Len(t) = Len(s) + 1
         /\ Elems(t) = Elems(s) \cup {c}
         /\ Distinct(t)
<1> DEFINE t == Append(s, c)
<1>1. /\ t \in Seq(S) /\ Len(t) = Len(s) + 1 /\ Len(s) \in Nat
      /\ \A i \in 1 .. Len(s) : t[i] = s[i]
      /\ t[Len(s) + 1] = c
  BY AppendProperties, LenProperties
<1> HIDE DEF t
<1>2. 1 .. Len(t) = 1 .. Len(s) \cup {Len(s) + 1}
  BY <1>1
<1>3. Elems(t) = Elems(s) \cup {c}
  BY <1>1, <1>2 DEF Elems
<1>4. ASSUME NEW i \in 1 .. Len(t), NEW j \in 1 .. Len(t), t[i] = t[j]  PROVE i = j
  BY <1>1, <1>2, <1>4 DEF Elems, Distinct
<1>5. Distinct(t)
  BY <1>4 DEF Distinct
<1> QED  BY <1>1, <1>3, <1>5 DEF t

LEMMA PopStack ==
  ASSUME NEW S, NEW s \in Seq(S), s # <<>>, Distinct(s)
  PROVE  LET t == SubSeq(s, 1, Len(s) - 1)
             c == s[Len(s)]
         IN  /\ t \in Seq(S) /\ Len(t) = Len(s) - 1
             /\ c \in Elems(s) /\ c \in S
             /\ Elems(t) = Elems(s) \ {c}
             /\ Distinct(t)
<1> DEFINE t == SubSeq(s, 1, Len(s) - 1)
           n == Len(s)
<1>1. n \in Nat /\ n > 0 /\ \A i \in 1 .. n : s[i] \in S
  BY LenProperties, ElementOfSeq, EmptySeq
<1>2. /\ t \in Seq(S) /\ Len(t) = n - 1
      /\ \A i \in 1 .. n - 1 : t[i] = s[i]
  <2>1. \A i \in 1 .. n - 1 : s[i] \in S
    BY <1>1
  <2>2. /\ t \in Seq(S) /\ Len(t) = IF 1 <= n - 1 THEN n - 1 - 1 + 1 ELSE 0
        /\ \A i \in 1 .. n - 1 - 1 + 1 : t[i] = s[1 + i - 1]
    BY <1>1, <2>1, SubSeqProperties
  <2>3. n - 1 - 1 + 1 = n - 1 /\ \A i \in 1 .. n - 1 : 1 + i - 1 = i
    BY <1>1
  <2> HIDE DEF t, n
  <2>4. Len(t) = n - 1
    BY <1>1, <2>2
  <2>5. ASSUME NEW i \in 1 .. n - 1  PROVE t[i] = s[i]
    BY <1>1, <2>2, <2>3
  <2> QED  BY <2>2, <2>4, <2>5
<1> HIDE DEF t
<1>3. 1 .. n = 1 .. Len(t) \cup {n} /\ n \notin 1 .. Len(t) /\ n \in 1 .. n
  BY <1>1, <1>2
<1>4. Elems(t) = Elems(s) \ {s[n]}
  BY <1>1, <1>2, <1>3 DEF Elems, Distinct
<1>5. Distinct(t)
  BY <1>2, <1>3 DEF Distinct
<1>6. s[n] \in Elems(s) /\ s[n] \in S
  BY <1>1, <1>3 DEF Elems
<1> QED  BY <1>2, <1>4, <1>5, <1>6 DEF t

LEMMA OwnProperties ==
  ASSUME NEW r \in Requests, NEW n \in {1, 2}
  PROVE  /\ Own(r, n) \in Conns /\ Own(r, n)[1] = r
         /\ \A q, m : Own(r, n) = Own(q, m) => r = q /\ n = m
  BY DEF Own, Conns

-----------------------------------------------------------------------------
(* Steps of the connections alone.                                         *)

LEMMA InitInv == Init => Inv
<1> SUFFICES ASSUME Init PROVE Inv
  OBVIOUS
<1>1. TypeOK
  BY EmptySeq DEF Init, TypeOK, Steps, Results, ConnStates
<1>2. ResultInv /\ FreshInv /\ WorkInv /\ ApartInv /\ SentInv
  BY DEF Init, ResultInv, FreshInv, WorkInv, ApartInv, SentInv, Sent, Held, Active, Conns, Own
<1>3. \A a \in Upstreams : Len(idle[a]) = 0
  BY DEF Init
<1>4. PoolInv
  BY <1>3, ForwardingAssumption DEF PoolInv, Elems, Distinct, ForwardingAssumption
<1> QED  BY <1>1, <1>2, <1>4 DEF Inv

(* A connection closes, or one that is drained becomes ready.              *)
LEMMA ConnStep ==
  ASSUME Inv, NEW c \in Conns, NEW s \in {"ready", "closed"},
         conn[c] # "none", s = "ready" => conn[c] = "drained",
         conn' = [conn EXCEPT ![c] = s],
         UNCHANGED <<pc, addr, attempt, using, result, idle, delivered>>
  PROVE  Inv'
<1>1. /\ conn' \in [Conns -> ConnStates]
      /\ conn'[c] = s /\ \A d \in Conns : d # c => conn'[d] = conn[d]
  BY DEF Inv, TypeOK, ConnStates
<1>2. TypeOK' /\ ResultInv' /\ ApartInv'
  BY <1>1 DEF Inv, TypeOK, ResultInv, ApartInv
<1>3. FreshInv'
  BY <1>1, OwnProperties DEF Inv, TypeOK, FreshInv
<1>4. WorkInv'
  BY <1>1 DEF Inv, WorkInv, Held, Active
<1>5. PoolInv'
  <2>1. \A a \in Upstreams : \A d \in Elems(idle[a]) : d \in Conns
    BY ElementOfSeq DEF Inv, TypeOK, Elems
  <2> QED  BY <1>1, <2>1 DEF Inv, PoolInv
<1>6. SentInv'
  <2>1. \A r \in Requests : \A d \in delivered[r] : d \in Conns
    BY DEF Inv, TypeOK
  <2> QED  BY <1>1, <2>1 DEF Inv, SentInv, Sent
<1> QED  BY <1>2, <1>3, <1>4, <1>5, <1>6 DEF Inv

-----------------------------------------------------------------------------
(* Steps of one request.                                                   *)

(* What pool and histories hold are connections. *)
LEMMA KnownConns ==
  ASSUME TypeOK
  PROVE  /\ \A a \in Upstreams : \A c \in Elems(idle[a]) : c \in Conns
         /\ \A r \in Requests : \A c \in delivered[r] : c \in Conns
<1>1. \A a \in Upstreams : \A c \in Elems(idle[a]) : c \in Conns
  BY ElementOfSeq DEF TypeOK, Elems
<1> QED  BY <1>1 DEF TypeOK

(* forward returns; the connection it worked on is closed or, if its       *)
(* answer was being read, drained.                                         *)
LEMMA ReturnStep ==
  ASSUME Inv, NEW r \in Requests, NEW res \in Results \ {"none"},
         Return(r, res), UNCHANGED <<addr, idle>>,
         conn' \in [Conns -> ConnStates],
         \A c \in Conns : conn'[c] # conn[c] =>
           /\ pc[r] \in Held \cup Active /\ c = using[r]
           /\ conn'[c] = "closed" \/ (pc[r] = "body" /\ conn[c] = "body" /\ conn'[c] = "drained"),
         pc[r] = "body" => conn'[using[r]] # "body"
  PROVE  Inv'
<1>1. /\ pc' = [pc EXCEPT ![r] = "done"]
      /\ result' = [result EXCEPT ![r] = res]
      /\ attempt' = [attempt EXCEPT ![r] = 1]
      /\ using' = [using EXCEPT ![r] = None]
      /\ delivered' = [delivered EXCEPT ![r] = {}]
  BY DEF Return, GoTo
<1>2. TypeOK'
  BY <1>1 DEF Inv, TypeOK, Steps
<1>3. /\ pc'[r] = "done" /\ result'[r] = res /\ attempt'[r] = 1 /\ delivered'[r] = {}
      /\ \A q \in Requests \ {r} :
           /\ pc'[q] = pc[q] /\ result'[q] = result[q] /\ attempt'[q] = attempt[q]
           /\ using'[q] = using[q] /\ delivered'[q] = delivered[q]
  BY <1>1 DEF Inv, TypeOK
<1>4. ResultInv' /\ ApartInv'
  BY <1>3 DEF Inv, ResultInv, ApartInv, Held, Active
<1>5. FreshInv'
  <2>1. \A c \in Conns : conn[c] = "none" => conn'[c] = "none"
    BY DEF Inv, WorkInv
  <2> QED  BY <1>3, <2>1, OwnProperties DEF Inv, TypeOK, FreshInv
<1>6. WorkInv'
  BY <1>3 DEF Inv, WorkInv, ApartInv, Held, Active
<1>7. PoolInv'
  BY <1>3, KnownConns DEF Inv, PoolInv, ApartInv, Held, Active
<1>8. SentInv'
  <2>1. ASSUME NEW q \in Requests, NEW d \in delivered[q], conn[d] = "closed"
        PROVE  conn'[d] = "closed"
    BY <2>1, KnownConns DEF Inv
  <2>2. Sent(r)'
    BY <1>3 DEF Sent, Active
  <2>3. ASSUME NEW q \in Requests \ {r}  PROVE Sent(q)'
    <3>1. Sent(q)
      BY DEF Inv, SentInv
    <3> QED  BY <1>3, <2>1, <3>1 DEF Sent
  <2> QED  BY <2>2, <2>3 DEF SentInv
<1> QED  BY <1>2, <1>4, <1>5, <1>6, <1>7, <1>8 DEF Inv

(* The request moves on its first attempt, or to its second; connections   *)
(* and pool stay.                                                          *)
LEMMA MoveStep ==
  ASSUME Inv, NEW r \in Requests, NEW n \in {1, 2}, NEW t \in {"acquire", "connect"},
         \/ /\ pc[r] \in {"collect", "acquire"} /\ n = 1
         \/ /\ pc[r] \in {"send", "await"} /\ attempt[r] = 1 /\ n = 2 /\ t = "connect"
            /\ pc[r] = "await" => conn[using[r]] = "closed",
         pc' = [pc EXCEPT ![r] = t],
         attempt' = [attempt EXCEPT ![r] = n],
         UNCHANGED <<addr, using, result, idle, conn, delivered>>
  PROVE  Inv'
<1>1. /\ pc'[r] = t /\ attempt'[r] = n
      /\ \A q \in Requests \ {r} : pc'[q] = pc[q] /\ attempt'[q] = attempt[q]
  BY DEF Inv, TypeOK
<1>2. TypeOK'
  BY DEF Inv, TypeOK, Steps
<1>3. ResultInv' /\ ApartInv'
  BY <1>1 DEF Inv, ResultInv, ApartInv, Held, Active
<1>4. FreshInv'
  BY <1>1 DEF Inv, FreshInv
<1>5. WorkInv'
  BY <1>1 DEF Inv, WorkInv, Held, Active
<1>6. PoolInv'
  BY <1>1 DEF Inv, PoolInv, Held
<1>7. SentInv'
  <2>1. pc[r] = "await" => using[r] # Own(r, 2)
    BY DEF Inv, FreshInv, WorkInv, Active
  <2>2. pc[r] # "await" => delivered[r] = {}
    BY DEF Inv, SentInv, Sent, FreshInv, Active
  <2>3. pc[r] = "await" => delivered[r] = {using[r]} /\ n = 2 /\ conn[using[r]] = "closed"
    BY DEF Inv, SentInv, Sent, Active
  <2>4. ASSUME NEW q \in Requests \ {r}
        PROVE  /\ pc'[q] = pc[q] /\ attempt'[q] = attempt[q]
               /\ using'[q] = using[q] /\ delivered'[q] = delivered[q]
    BY <1>1
  <2> QED  BY <1>1, <2>1, <2>2, <2>3, <2>4 DEF Inv, SentInv, Sent, Active
<1> QED  BY <1>2, <1>3, <1>4, <1>5, <1>6, <1>7 DEF Inv

LEMMA CollectInv ==
  ASSUME Inv, NEW r \in Requests, Collect(r)
  PROVE  Inv'
<1>1. CASE Return(r, "500")
  <2>1. "500" \in Results \ {"none"} /\ UNCHANGED <<addr, idle, conn>>
    BY DEF Collect, Results
  <2>2. conn' \in [Conns -> ConnStates] /\ pc[r] = "collect"
    BY <2>1 DEF Inv, TypeOK, Collect
  <2> QED  BY <1>1, <2>1, <2>2, ReturnStep
<1>2. CASE GoTo(r, "acquire") /\ UNCHANGED <<attempt, using, result, delivered>>
  <2>1. attempt' = [attempt EXCEPT ![r] = 1]
    BY <1>2 DEF Inv, TypeOK, FreshInv, Collect
  <2> QED  BY <1>2, <2>1, MoveStep DEF Collect, GoTo
<1> QED  BY <1>1, <1>2 DEF Collect

(* A second attempt, or the end. *)
LEMMA SendFailsInv ==
  ASSUME Inv, NEW r \in Requests, SendFails(r), UNCHANGED <<addr, idle, conn>>,
         pc[r] = "send" \/ (pc[r] = "await" /\ conn[using[r]] = "closed")
  PROVE  Inv'
<1>1. CASE Return(r, "500")
  <2>1. "500" \in Results \ {"none"} /\ conn' \in [Conns -> ConnStates]
    BY DEF Inv, TypeOK, Results
  <2> QED  BY <1>1, <2>1, ReturnStep
<1>2. CASE /\ attempt[r] = 1 /\ attempt' = [attempt EXCEPT ![r] = 2]
           /\ GoTo(r, "connect") /\ UNCHANGED <<using, result, delivered>>
  BY <1>2, MoveStep DEF GoTo
<1> QED  BY <1>1, <1>2 DEF SendFails, RetryFrom

(* A sender is owned: popped from the pool, or of a connection just opened. *)
LEMMA OwnStep ==
  ASSUME Inv, NEW r \in Requests, NEW c \in Conns,
         pc' = [pc EXCEPT ![r] = "send"], using' = [using EXCEPT ![r] = c],
         UNCHANGED <<addr, attempt, result, delivered>>,
         pc[r] \notin Held \cup Active \cup {"done"},
         idle' \in [Upstreams -> Seq(Conns)], conn' \in [Conns -> ConnStates],
         addr[c[1]] = addr[r], conn'[c] # "none",
         \A d \in Conns \ {c} : conn'[d] = conn[d],
         \A a \in Upstreams :
           /\ Len(idle'[a]) <= Len(idle[a]) /\ Distinct(idle'[a])
           /\ Elems(idle'[a]) \subseteq Elems(idle[a]) \ {c},
         \/ \E a \in Upstreams : c \in Elems(idle[a]) /\ attempt[r] = 1 /\ conn' = conn
         \/ c = Own(r, attempt[r]) /\ conn[c] = "none" /\ conn'[c] = "ready"
  PROVE  Inv'
<1>1. /\ pc'[r] = "send" /\ using'[r] = c
      /\ \A q \in Requests \ {r} : pc'[q] = pc[q] /\ using'[q] = using[q]
  BY DEF Inv, TypeOK
<1>2. TypeOK'
  BY DEF Inv, TypeOK, Steps
<1>3. ResultInv'
  BY <1>1 DEF Inv, ResultInv
<1>4. FreshInv'
  <2>1. \A q \in Requests \ {r}, n \in {1, 2} : conn[Own(q, n)] = "none" => conn'[Own(q, n)] = "none"
    BY OwnProperties
  <2>2. attempt[r] = 1 => conn[Own(r, 2)] = "none" /\ conn'[Own(r, 2)] = "none"
    BY OwnProperties DEF Inv, TypeOK, FreshInv
  <2> QED  BY <1>1, <2>1, <2>2 DEF Inv, TypeOK, FreshInv
<1>5. \A q \in Requests \ {r} : pc[q] \in Held => using[q] # c
  BY DEF Inv, WorkInv, PoolInv
<1>6. \A q \in Requests \ {r} : pc[q] \in Held \cup Active =>
        conn'[using[q]] = conn[using[q]]
  BY DEF Inv, WorkInv
<1>7. WorkInv'
  <2>1. ASSUME NEW q \in Requests \ {r}, pc[q] \in Held \cup Active
        PROVE  using[q] \in Conns /\ conn'[using[q]] = conn[using[q]]
    BY <1>6, <2>1 DEF Inv, WorkInv
  <2>2. attempt[r] = 2 => c = Own(r, 2) /\ conn'[c] = "ready"
    OBVIOUS
  <2> QED  BY <1>1, <2>1, <2>2 DEF Inv, WorkInv, Held, Active
<1>8. ApartInv'
  BY <1>1, <1>5 DEF Inv, ApartInv, Held, Active
<1>9. PoolInv'
  <2>1. \A a \in Upstreams : Len(idle'[a]) \in Nat /\ Len(idle[a]) \in Nat
    BY LenProperties DEF Inv, TypeOK
  <2>2. \A a \in Upstreams : Len(idle'[a]) <= MaxIdle
    BY <2>1, ForwardingAssumption DEF Inv, PoolInv, ForwardingAssumption
  <2>3. ASSUME NEW a \in Upstreams, NEW d \in Elems(idle'[a])
        PROVE  /\ d \in Elems(idle[a]) /\ d # c /\ d \in Conns /\ conn'[d] = conn[d]
    BY <2>3, KnownConns DEF Inv
  <2>4. ASSUME NEW a \in Upstreams, NEW d \in Elems(idle'[a])
        PROVE  /\ addr'[d[1]] = a
               /\ conn'[d] \in {"ready", "body", "drained", "closed"}
               /\ conn'[d] = "body" => \E q \in Requests : pc'[q] = "body" /\ using'[q] = d
               /\ \A q \in Requests : pc'[q] \in Held => using'[q] # d
    BY <1>1, <2>3, <2>4 DEF Inv, PoolInv, Held, Active
  <2> QED  BY <2>2, <2>4 DEF PoolInv
<1>10. SentInv'
  <2>1. ASSUME NEW q \in Requests, NEW d \in delivered[q], conn[d] = "closed"
        PROVE  conn'[d] = "closed"
    BY <2>1, KnownConns DEF Inv
  <2>2. ASSUME NEW q \in Requests
        PROVE  /\ pc'[q] \in Active <=> pc[q] \in Active
               /\ pc[q] \in Active => using'[q] = using[q]
               /\ attempt'[q] = attempt[q] /\ delivered'[q] = delivered[q]
    BY <1>1 DEF Active
  <2>3. ASSUME NEW q \in Requests  PROVE Sent(q)'
    <3>1. Sent(q)
      BY DEF Inv, SentInv
    <3> QED  BY <2>1, <2>2, <3>1 DEF Sent
  <2> QED  BY <2>3 DEF SentInv
<1> QED  BY <1>2, <1>3, <1>4, <1>7, <1>8, <1>9, <1>10 DEF Inv

LEMMA AcquireInv ==
  ASSUME Inv, NEW r \in Requests, Acquire(r)
  PROVE  Inv'
<1> DEFINE stack == idle[addr[r]]
<1>1. pc[r] = "acquire" /\ attempt[r] = 1 /\ addr[r] \in Upstreams
  BY DEF Inv, TypeOK, FreshInv, Acquire
<1>2. CASE stack = <<>>
  <2>1. attempt' = [attempt EXCEPT ![r] = 1]
    BY <1>1 DEF Inv, TypeOK, Acquire
  <2> QED  BY <1>1, <1>2, <2>1, MoveStep DEF Acquire, GoTo
<1>3. CASE stack # <<>>
  <2> DEFINE c == stack[Len(stack)]
             rest == SubSeq(stack, 1, Len(stack) - 1)
  <2>1. stack \in Seq(Conns) /\ Distinct(stack)
    BY <1>1 DEF Inv, TypeOK, PoolInv
  <2>2. /\ rest \in Seq(Conns) /\ Len(rest) = Len(stack) - 1
        /\ c \in Elems(stack) /\ c \in Conns
        /\ Elems(rest) = Elems(stack) \ {c}
        /\ Distinct(rest)
    BY <1>3, <2>1, PopStack
  <2>3. /\ pc' = [pc EXCEPT ![r] = "send"] /\ using' = [using EXCEPT ![r] = c]
        /\ UNCHANGED <<addr, attempt, result, conn, delivered>>
        /\ idle' = [idle EXCEPT ![addr[r]] = rest]
    BY <1>3 DEF Acquire, GoTo
  <2> HIDE DEF c, rest
  <2>4. /\ idle' \in [Upstreams -> Seq(Conns)] /\ idle'[addr[r]] = rest
        /\ \A a \in Upstreams \ {addr[r]} : idle'[a] = idle[a]
    BY <1>1, <2>2, <2>3 DEF Inv, TypeOK
  <2>5. addr[c[1]] = addr[r] /\ conn[c] # "none"
    BY <1>1, <2>2 DEF Inv, PoolInv
  <2>6. ASSUME NEW a \in Upstreams
        PROVE  /\ Len(idle'[a]) <= Len(idle[a]) /\ Distinct(idle'[a])
               /\ Elems(idle'[a]) \subseteq Elems(idle[a]) \ {c}
    <3>1. CASE a = addr[r]
      <4>1. Len(stack) \in Nat
        BY <2>1, LenProperties
      <4> QED  BY <2>2, <2>4, <3>1, <4>1
    <3>2. CASE a # addr[r]
      <4>1. idle'[a] = idle[a] /\ Distinct(idle[a]) /\ Len(idle[a]) \in Nat
        BY <2>4, <3>2, LenProperties DEF Inv, TypeOK, PoolInv
      <4>2. c \notin Elems(idle[a])
        BY <2>5, <3>2 DEF Inv, PoolInv
      <4> QED  BY <4>1, <4>2
    <3> QED  BY <3>1, <3>2
  <2>7. pc[r] \notin Held \cup Active \cup {"done"} /\ conn' \in [Conns -> ConnStates]
    BY <1>1, <2>3 DEF Held, Active, Inv, TypeOK
  <2> QED  BY <1>1, <2>2, <2>3, <2>4, <2>5, <2>6, <2>7, OwnStep
<1> QED  BY <1>2, <1>3

LEMMA ConnectInv ==
  ASSUME Inv, NEW r \in Requests, Connect(r)
  PROVE  Inv'
<1> DEFINE c == Own(r, attempt[r])
<1>1. /\ pc[r] = "connect" /\ conn[c] = "none" /\ c \in Conns /\ c[1] = r
      /\ UNCHANGED <<addr, idle>>
  <2>1. pc[r] = "connect" /\ attempt[r] \in {1, 2} /\ UNCHANGED <<addr, idle>>
    BY DEF Inv, TypeOK, Connect
  <2> QED  BY <2>1, OwnProperties DEF Inv, FreshInv
<1>2. CASE Return(r, "other") /\ UNCHANGED conn
  <2>1. "other" \in Results \ {"none"} /\ conn' \in [Conns -> ConnStates]
    BY <1>2 DEF Inv, TypeOK, Results
  <2> QED  BY <1>1, <1>2, <2>1, ReturnStep
<1>3. CASE /\ conn' = [conn EXCEPT ![c] = "ready"] /\ using' = [using EXCEPT ![r] = c]
           /\ GoTo(r, "send") /\ UNCHANGED <<attempt, result, delivered>>
  <2> HIDE DEF c
  <2>1. /\ conn' \in [Conns -> ConnStates] /\ conn'[c] = "ready"
        /\ \A d \in Conns \ {c} : conn'[d] = conn[d]
    BY <1>1, <1>3 DEF Inv, TypeOK, ConnStates
  <2>2. ASSUME NEW a \in Upstreams
        PROVE  /\ Len(idle'[a]) <= Len(idle[a]) /\ Distinct(idle'[a])
               /\ Elems(idle'[a]) \subseteq Elems(idle[a]) \ {c}
    <3>1. Len(idle[a]) \in Nat /\ Distinct(idle[a])
      BY LenProperties DEF Inv, TypeOK, PoolInv
    <3>2. c \notin Elems(idle[a])
      BY <1>1 DEF Inv, PoolInv
    <3> QED  BY <1>1, <3>1, <3>2
  <2>3. pc[r] \notin Held \cup Active \cup {"done"} /\ idle' \in [Upstreams -> Seq(Conns)]
    BY <1>1 DEF Held, Active, Inv, TypeOK
  <2> QED  BY <1>1, <1>3, <2>1, <2>2, <2>3, OwnStep DEF GoTo, c
<1> QED  BY <1>1, <1>2, <1>3 DEF Connect, Own

(* The connection a request works on takes its request, or answers it.     *)
LEMMA ExchangeStep ==
  ASSUME Inv, NEW r \in Requests, NEW c, c = using[r],
         \/ /\ pc[r] = "send" /\ conn[c] = "ready"
            /\ pc' = [pc EXCEPT ![r] = "await"]
            /\ conn' = [conn EXCEPT ![c] = "busy"]
            /\ delivered' = [delivered EXCEPT ![r] = @ \cup {c}]
         \/ /\ pc[r] = "await" /\ conn[c] = "busy"
            /\ pc' = [pc EXCEPT ![r] = "release"]
            /\ conn' = [conn EXCEPT ![c] = "body"]
            /\ UNCHANGED delivered,
         UNCHANGED <<addr, attempt, using, result, idle>>
  PROVE  Inv'
<1>1. pc[r] \in Held /\ pc'[r] \in Held \cap Active /\ c \in Conns
  BY DEF Inv, TypeOK, WorkInv, Held, Active
<1>2. /\ \A q \in Requests \ {r} : pc'[q] = pc[q] /\ delivered'[q] = delivered[q]
      /\ \A d \in Conns \ {c} : conn'[d] = conn[d]
      /\ pc'[r] = "await" => conn'[c] = "busy"
      /\ pc'[r] = "release" => conn'[c] = "body"
      /\ conn[c] \in {"ready", "busy"} /\ conn'[c] # "none"
  BY <1>1 DEF Inv, TypeOK
<1>3. TypeOK'
  <2>1. PICK t \in Steps, s \in ConnStates, D \in SUBSET Conns :
          /\ pc' = [pc EXCEPT ![r] = t]
          /\ conn' = [conn EXCEPT ![c] = s]
          /\ delivered' = [delivered EXCEPT ![r] = D]
    <3>1. {"await", "release"} \subseteq Steps /\ {"busy", "body"} \subseteq ConnStates
      BY DEF Steps, ConnStates
    <3>2. delivered[r] \in SUBSET Conns /\ delivered[r] \cup {c} \in SUBSET Conns
      BY <1>1 DEF Inv, TypeOK
    <3>3. delivered = [delivered EXCEPT ![r] = delivered[r]]
      BY DEF Inv, TypeOK
    <3> QED  BY <3>1, <3>2, <3>3
  <2> QED  BY <1>1, <2>1 DEF Inv, TypeOK
<1>4. ResultInv'
  BY <1>1, <1>2 DEF Inv, ResultInv, Held
<1>5. FreshInv'
  <2>1. \A d \in Conns : conn[d] = "none" => conn'[d] = "none"
    BY <1>2
  <2> QED  BY <1>1, <1>2, <2>1, OwnProperties DEF Inv, TypeOK, FreshInv, Held
<1>6. \A q \in Requests \ {r} : pc[q] \in Held \cup Active => using[q] # c
  BY <1>1, <1>2 DEF Inv, WorkInv, ApartInv, Held, Active
<1>7. WorkInv'
  <2>1. ASSUME NEW q \in Requests \ {r}, pc[q] \in Held \cup Active
        PROVE  using[q] \in Conns /\ conn'[using[q]] = conn[using[q]]
    BY <1>2, <1>6, <2>1 DEF Inv, WorkInv
  <2> QED  BY <1>1, <1>2, <2>1 DEF Inv, WorkInv, Held, Active
<1>8. ApartInv'
  BY <1>1, <1>2, <1>6 DEF Inv, ApartInv, Held, Active
<1>9. PoolInv'
  <2>1. ASSUME NEW a \in Upstreams, NEW d \in Elems(idle[a])
        PROVE  d \in Conns /\ d # c /\ conn'[d] = conn[d]
    BY <1>1, <1>2, KnownConns DEF Inv, PoolInv
  <2> QED  BY <1>1, <1>2, <2>1 DEF Inv, PoolInv, Held, Active
<1>10. SentInv'
  <2>1. ASSUME NEW q \in Requests, NEW d \in delivered[q], conn[d] = "closed"
        PROVE  conn'[d] = "closed"
    BY <1>2, <2>1, KnownConns DEF Inv
  <2>2. ASSUME NEW q \in Requests \ {r}  PROVE Sent(q)'
    <3>1. Sent(q)
      BY DEF Inv, SentInv
    <3> QED  BY <1>2, <2>1, <3>1 DEF Sent
  <2>3. Sent(r)'
    <3>1. Sent(r) /\ (attempt[r] = 2 => c = Own(r, 2))
      BY <1>1 DEF Inv, SentInv, WorkInv
    <3>2. delivered'[r] = delivered[r] \cup {c}
      BY <1>1, <3>1 DEF Inv, TypeOK, Sent, Active
    <3>3. pc[r] = "send" => pc[r] \notin Active
      BY DEF Active
    <3> QED  BY <1>1, <1>2, <2>1, <3>1, <3>2, <3>3 DEF Sent
  <2> QED  BY <2>2, <2>3 DEF SentInv
<1> QED  BY <1>3, <1>4, <1>5, <1>7, <1>8, <1>9, <1>10 DEF Inv

LEMMA SendInv ==
  ASSUME Inv, NEW r \in Requests, Send(r)
  PROVE  Inv'
<1>1. CASE SendFails(r) /\ UNCHANGED conn
  BY <1>1, SendFailsInv DEF Send
<1>2. CASE ~(SendFails(r) /\ UNCHANGED conn)
  BY <1>2, ExchangeStep DEF Send, GoTo
<1> QED  BY <1>1, <1>2

LEMMA AwaitInv ==
  ASSUME Inv, NEW r \in Requests, Await(r)
  PROVE  Inv'
<1>1. CASE conn[using[r]] = "closed" /\ SendFails(r) /\ UNCHANGED conn
  BY <1>1, SendFailsInv DEF Await
<1>2. CASE ~(conn[using[r]] = "closed" /\ SendFails(r) /\ UNCHANGED conn)
  BY <1>2, ExchangeStep DEF Await, GoTo
<1> QED  BY <1>1, <1>2

LEMMA ReleaseInv ==
  ASSUME Inv, NEW r \in Requests, Release(r)
  PROVE  Inv'
<1> DEFINE c == using[r]
           stack == idle[addr[r]]
<1>1. /\ pc[r] = "release" /\ pc' = [pc EXCEPT ![r] = "body"]
      /\ UNCHANGED <<addr, attempt, using, result, conn, delivered>>
  BY DEF Release, GoTo
<1>2. /\ c \in Conns /\ addr[c[1]] = addr[r] /\ conn[c] \in {"body", "closed"}
      /\ addr[r] \in Upstreams /\ stack \in Seq(Conns)
  BY <1>1 DEF Inv, TypeOK, WorkInv, Held
<1>3. \A a \in Upstreams : c \notin Elems(idle[a])
  BY <1>1 DEF Inv, PoolInv, Held
<1>4. \A q \in Requests \ {r} :
        /\ pc'[q] = pc[q]
        /\ pc[q] \in Held \cup Active => using[q] # c
  <2>1. \A q \in Requests \ {r} : pc'[q] = pc[q]
    BY <1>1 DEF Inv, TypeOK
  <2> QED  BY <1>1, <2>1 DEF Inv, ApartInv, Held, Active
<1>5. pc'[r] = "body"
  BY <1>1 DEF Inv, TypeOK
<1>6. /\ idle' \in [Upstreams -> Seq(Conns)]
      /\ \A a \in Upstreams :
           /\ Len(idle'[a]) <= MaxIdle /\ Distinct(idle'[a])
           /\ Elems(idle'[a]) \subseteq Elems(idle[a]) \cup (IF a = addr[r] THEN {c} ELSE {})
  <2>1. CASE Len(stack) < MaxIdle
    <3> DEFINE t == Append(stack, c)
    <3>1. Distinct(stack) /\ Len(stack) \in Nat
      BY <1>2, LenProperties DEF Inv, PoolInv
    <3>2. /\ t \in Seq(Conns) /\ Len(t) = Len(stack) + 1
          /\ Elems(t) = Elems(stack) \cup {c} /\ Distinct(t)
      BY <1>2, <1>3, <3>1, PushStack
    <3>3. idle' = [idle EXCEPT ![addr[r]] = t]
      BY <2>1 DEF Release
    <3> HIDE DEF t
    <3>4. Len(t) <= MaxIdle
      BY <2>1, <3>1, <3>2, ForwardingAssumption DEF ForwardingAssumption
    <3>5. /\ idle' \in [Upstreams -> Seq(Conns)] /\ idle'[addr[r]] = t
          /\ \A a \in Upstreams \ {addr[r]} : idle'[a] = idle[a]
      BY <1>2, <3>2, <3>3 DEF Inv, TypeOK
    <3>6. \A a \in Upstreams : Len(idle[a]) <= MaxIdle /\ Distinct(idle[a])
      BY DEF Inv, PoolInv
    <3> QED  BY <3>2, <3>4, <3>5, <3>6
  <2>2. CASE ~(Len(stack) < MaxIdle)
    <3>1. idle' = idle
      BY <2>2 DEF Release
    <3> QED  BY <3>1 DEF Inv, TypeOK, PoolInv
  <2> QED  BY <2>1, <2>2
<1>7. TypeOK'
  BY <1>1, <1>6 DEF Inv, TypeOK, Steps
<1>8. ResultInv' /\ ApartInv'
  BY <1>1, <1>4, <1>5 DEF Inv, ResultInv, ApartInv, Held, Active
<1>9. FreshInv'
  BY <1>1, <1>4, <1>5 DEF Inv, FreshInv
<1>10. WorkInv'
  BY <1>1, <1>4, <1>5 DEF Inv, WorkInv, Held, Active
<1>11. PoolInv'
  <2>1. ASSUME NEW a \in Upstreams, NEW d \in Elems(idle'[a])
        PROVE  /\ addr[d[1]] = a
               /\ conn[d] \in {"ready", "body", "drained", "closed"}
               /\ conn[d] = "body" => \E q \in Requests : pc'[q] = "body" /\ using[q] = d
               /\ \A q \in Requests : pc'[q] \in Held => using[q] # d
    <3>1. CASE d \in Elems(idle[a])
      BY <1>1, <1>4, <1>5, <3>1 DEF Inv, PoolInv, Held
    <3>2. CASE d = c /\ a = addr[r]
      BY <1>2, <1>4, <1>5, <3>2 DEF Held
    <3> QED  BY <1>6, <2>1, <3>1, <3>2
  <2> QED  BY <1>1, <1>6, <2>1 DEF PoolInv
<1>12. SentInv'
  <2>1. ASSUME NEW q \in Requests  PROVE Sent(q)'
    <3>1. Sent(q) /\ (pc'[q] \in Active <=> pc[q] \in Active)
      BY <1>1, <1>4, <1>5 DEF Inv, SentInv, Active
    <3> QED  BY <1>1, <3>1 DEF Sent
  <2> QED  BY <2>1 DEF SentInv
<1> QED  BY <1>7, <1>8, <1>9, <1>10, <1>11, <1>12 DEF Inv

LEMMA ReadBodyInv ==
  ASSUME Inv, NEW r \in Requests, ReadBody(r)
  PROVE  Inv'
<1> DEFINE c == using[r]
<1>1. pc[r] = "body" /\ c \in Conns /\ pc[r] \in Active /\ UNCHANGED <<addr, idle>>
  BY DEF Inv, WorkInv, ReadBody, Active
<1>2. {"ok", "500"} \subseteq Results \ {"none"}
  BY DEF Results
<1>3. CASE conn[c] = "body" /\ conn' = [conn EXCEPT ![c] = "drained"] /\ Return(r, "ok")
  <2>1. /\ conn' \in [Conns -> ConnStates] /\ conn'[c] = "drained"
        /\ \A d \in Conns \ {c} : conn'[d] = conn[d]
    BY <1>1, <1>3 DEF Inv, TypeOK, ConnStates
  <2> QED  BY <1>1, <1>2, <1>3, <2>1, ReturnStep
<1>4. CASE conn[c] = "closed" /\ Return(r, "500") /\ UNCHANGED conn
  <2>1. conn' \in [Conns -> ConnStates]
    BY <1>4 DEF Inv, TypeOK
  <2> QED  BY <1>1, <1>2, <1>4, <2>1, ReturnStep
<1> QED  BY <1>3, <1>4 DEF ReadBody

(* What Drop does to the connections. *)
LEMMA DropConns ==
  ASSUME Inv, NEW r \in Requests, Drop(r)
  PROVE  /\ conn' \in [Conns -> ConnStates]
         /\ \A c \in Conns : conn'[c] # conn[c] =>
              /\ pc[r] \in Held \cup Active /\ c = using[r]
              /\ conn'[c] = "closed" \/ (pc[r] = "body" /\ conn[c] = "body" /\ conn'[c] = "drained")
         /\ pc[r] = "body" => conn'[using[r]] # "body"
         /\ pc[r] # "done"
<1>1. CASE pc[r] \in Held /\ conn' = [conn EXCEPT ![using[r]] = "closed"]
  <2>1. using[r] \in Conns
    BY <1>1 DEF Inv, WorkInv
  <2> QED  BY <1>1, <2>1 DEF Inv, TypeOK, ConnStates, Held
<1>2. CASE pc[r] = "body" /\ \E s \in {"drained", "closed"} :
             conn' = [conn EXCEPT ![using[r]] = IF @ = "body" THEN s ELSE @]
  <2>1. using[r] \in Conns
    BY <1>2 DEF Inv, WorkInv, Active
  <2> QED  BY <1>2, <2>1 DEF Inv, TypeOK, ConnStates, Active
<1>3. CASE pc[r] \in {"collect", "acquire", "connect"} /\ UNCHANGED conn
  BY <1>3 DEF Inv, TypeOK
<1> QED  BY <1>1, <1>2, <1>3 DEF Drop, Held

LEMMA CutInv ==
  ASSUME Inv, NEW r \in Requests, Cut(r)
  PROVE  Inv'
<1>1. "other" \in Results \ {"none"}
  BY DEF Results
<1> QED  BY <1>1, DropConns, ReturnStep DEF Cut

(* Every step keeps the invariant. *)
LEMMA NextInv == Inv /\ [Next]_vars => Inv'
<1> SUFFICES ASSUME Inv, [Next]_vars PROVE Inv'
  OBVIOUS
<1>1. CASE UNCHANGED vars
  BY <1>1 DEF vars, Inv, TypeOK, ResultInv, FreshInv, WorkInv, ApartInv, PoolInv,
              SentInv, Sent
<1>2. ASSUME NEW r \in Requests, Proxy(r)  PROVE Inv'
  BY <1>2, CollectInv, AcquireInv, ConnectInv, SendInv, AwaitInv, ReleaseInv, ReadBodyInv
    DEF Proxy
<1>3. ASSUME NEW r \in Requests, Cut(r)  PROVE Inv'
  BY <1>3, CutInv
<1>4. ASSUME NEW c \in Conns, UpstreamCloses(c)  PROVE Inv'
  BY <1>4, ConnStep DEF UpstreamCloses, Open
<1>5. ASSUME NEW c \in Conns, Settle(c)  PROVE Inv'
  BY <1>5, ConnStep DEF Settle
<1> QED  BY <1>1, <1>2, <1>3, <1>4, <1>5 DEF Next

LEMMA SpecInv == Spec => []Inv
  BY InitInv, NextInv, PTL DEF Spec

-----------------------------------------------------------------------------
(* The properties of the runs.                                             *)

(* Requests, connections and the pool keep their types (proxy.rs, pool.rs). *)
THEOREM ForwardingTypeCorrect == Spec => []TypeOK
  BY SpecInv, PTL DEF Inv

(* The pool never exceeds max_idle_per_host, never holds a sender twice,   *)
(* for another upstream, or one that a request still owns, whichever       *)
(* requests release and acquire at once (pool.rs:25-43).                   *)
THEOREM PoolBounded == Spec => []PoolBound
<1>1. Inv => PoolBound
  BY DEF Inv, PoolInv, PoolBound, Elems, Distinct, Held
<1> QED  BY <1>1, SpecInv, PTL

(* No request is ever behind another's unanswered one, and an answer that  *)
(* still streams on a pooled connection has its reader (proxy.rs:84).      *)
THEOREM PoolAnswered == Spec => []PooledIsAnswered
<1>1. Inv => PooledIsAnswered
  <2> SUFFICES ASSUME Inv, NEW c \in Pooled
               PROVE  /\ conn[c] # "busy"
                      /\ conn[c] = "body" => \E r \in Requests : pc[r] = "body" /\ using[r] = c
    BY DEF PooledIsAnswered
  <2>1. \E a \in Upstreams : c \in Elems(idle[a])
    BY DEF Pooled, Elems
  <2> QED  BY <2>1 DEF Inv, PoolInv
<1> QED  BY <1>1, SpecInv, PTL

(* A request goes out a second time only after the connection that took it *)
(* is gone, with any number of requests sharing the pool (proxy.rs:82-99). *)
THEOREM NoSecondWithoutLoss == Spec => []TwiceOnlyIfLost
<1>1. Inv => TwiceOnlyIfLost
  <2> SUFFICES ASSUME Inv, NEW r \in Requests, NEW c \in delivered[r], c # using[r]
               PROVE  conn[c] = "closed"
    BY DEF TwiceOnlyIfLost
  <2>1. Sent(r) /\ attempt[r] \in {1, 2}
    BY DEF Inv, SentInv, TypeOK
  <2>2. c # Own(r, 2)
    BY <2>1 DEF Inv, WorkInv, Sent
  <2> QED  BY <2>1, <2>2 DEF Sent
<1> QED  BY <1>1, SpecInv, PTL

(* forward answers 500 only for a client's body, an answer's body or a     *)
(* fresh connection that broke: never for the state of a pooled connection *)
(* (proxy.rs:80-106).                                                      *)
THEOREM StaleHidden == Spec => StaleNeverSurfaces
<1>1. ASSUME Inv, [Next]_vars, NEW r \in Requests,
             result[r] = "none", result'[r] = "500"
      PROVE  \/ pc[r] = "collect"
             \/ /\ conn[using[r]] = "closed"
                /\ pc[r] = "body" \/ using[r] = <<r, 2>>
  <2>1. ASSUME NEW q \in Requests, NEW res, Return(q, res)  PROVE q = r /\ res = "500"
    BY <1>1, <2>1 DEF Return, Inv, TypeOK
  <2>2. ASSUME SendFails(r), ~UNCHANGED result, pc[r] \in {"send", "await"},
               pc[r] = "send" => conn[using[r]] # "ready",
               pc[r] = "await" => conn[using[r]] = "closed"
        PROVE  conn[using[r]] = "closed" /\ using[r] = Own(r, 2)
    <3>1. attempt[r] = 2
      BY <2>2 DEF SendFails, RetryFrom
    <3> QED  BY <1>1, <2>2, <3>1 DEF Inv, WorkInv, Held
  <2>3. ~UNCHANGED result
    BY <1>1
  <2>4. ASSUME NEW q \in Requests, Proxy(q) \/ Cut(q)
        PROVE  \/ Collect(r) \/ ReadBody(r) \/ Send(r) \/ Await(r)
    <3>1. \E res : Return(q, res)
      BY <2>3, <2>4 DEF Proxy, Collect, Acquire, Connect, Send, Await, Release, ReadBody,
                        Cut, SendFails, RetryFrom
    <3>2. q = r /\ \A res : Return(q, res) => res = "500"
      BY <2>1, <3>1
    <3> QED  BY <2>3, <2>4, <3>2 DEF Proxy, Acquire, Connect, Release, Cut
  <2>5. CASE Collect(r)
    BY <2>5 DEF Collect
  <2>6. CASE ReadBody(r)
    <3>1. ~Return(r, "ok")
      BY <2>1
    <3> QED  BY <2>6, <3>1 DEF ReadBody
  <2>7. CASE Send(r) \/ Await(r)
    <3>1. conn[using[r]] = "closed" /\ using[r] = Own(r, 2)
      BY <2>2, <2>3, <2>7 DEF Send, Await
    <3> QED  BY <3>1 DEF Own
  <2> QED  BY <1>1, <2>3, <2>4, <2>5, <2>6, <2>7 DEF Next, vars, UpstreamCloses, Settle
<1>2. Inv /\ [Next]_vars =>
        [\A r \in Requests : result[r] = "none" /\ result'[r] = "500" =>
           \/ pc[r] = "collect"
           \/ /\ conn[using[r]] = "closed"
              /\ pc[r] = "body" \/ using[r] = <<r, 2>>]_vars
  BY <1>1
<1> QED  BY <1>2, SpecInv, PTL DEF Spec, StaleNeverSurfaces

-----------------------------------------------------------------------------
(* Forwarding implements Delivery.                                         *)

(* The phase of a request, read off its step. *)
PhaseIs(r) ==
  /\ pc[r] = "done" => Phase(r) = IF result[r] = "ok" THEN "ok" ELSE "failed"
  /\ pc[r] \in {"release", "body"} => Phase(r) = "answering"
  /\ pc[r] \in {"collect", "acquire", "connect", "send"} =>
       Phase(r) = IF delivered[r] = {} THEN "new" ELSE "lost"
  /\ pc[r] = "await" =>
       Phase(r) = IF delivered[r] = {using[r]}
                  THEN IF conn[using[r]] = "closed" THEN "lost" ELSE "written"
                  ELSE IF conn[using[r]] = "closed" THEN "gone" ELSE "rewritten"

PhaseTable == \A r \in Requests : PhaseIs(r)

LEMMA TwoElements ==
  ASSUME NEW c, NEW d
  PROVE  /\ Cardinality({c}) = 1
         /\ c # d => Cardinality({c, d}) # 1
<1>1. IsFiniteSet({c}) /\ Cardinality({c}) = 1
  BY FS_Singleton
<1>2. ASSUME c # d  PROVE Cardinality({c} \cup {d}) = 2
  BY <1>1, <1>2, FS_AddElement
<1>3. {c, d} = {c} \cup {d}
  OBVIOUS
<1> QED  BY <1>1, <1>2, <1>3

LEMMA PhaseFollows == Inv => PhaseTable
<1> SUFFICES ASSUME Inv, NEW r \in Requests PROVE PhaseIs(r)
  BY DEF PhaseTable
<1>1. /\ Sent(r) /\ result[r] \in Results /\ pc[r] \in Steps /\ attempt[r] \in {1, 2}
      /\ result[r] = "none" <=> pc[r] # "done"
  BY DEF Inv, SentInv, TypeOK, ResultInv
<1>2. CASE pc[r] = "done"
  BY <1>1, <1>2 DEF PhaseIs, Phase, Results
<1>3. CASE pc[r] \in {"release", "body"}
  BY <1>1, <1>3 DEF PhaseIs, Phase, Results
<1>4. CASE pc[r] \in {"collect", "acquire", "connect", "send"}
  <2>1. CASE delivered[r] = {}
    BY <1>1, <1>4, <2>1 DEF PhaseIs, Phase, Results
  <2>2. CASE delivered[r] # {}
    <3>1. PICK c \in delivered[r] : TRUE
      BY <2>2
    <3>2. delivered[r] = {c} /\ conn[c] = "closed"
      BY <1>1, <1>4, <3>1 DEF Sent, Active
    <3>3. Cardinality(delivered[r]) = 1
      BY <3>2, TwoElements
    <3> QED  BY <1>1, <1>4, <2>2, <3>2, <3>3 DEF PhaseIs, Phase, Results
  <2> QED  BY <2>1, <2>2
<1>5. CASE pc[r] = "await"
  <2>1. using[r] \in delivered[r] /\ (attempt[r] = 2 => using[r] = Own(r, 2))
    BY <1>1, <1>5 DEF Inv, WorkInv, Sent, Active
  <2>2. CASE delivered[r] = {using[r]}
    <3>1. Cardinality(delivered[r]) = 1
      BY <2>2, TwoElements
    <3> QED  BY <1>1, <1>5, <2>2, <3>1 DEF PhaseIs, Phase, Results
  <2>3. CASE delivered[r] # {using[r]}
    <3>1. PICK d \in delivered[r] : d # using[r]
      BY <2>1, <2>3
    <3>2. delivered[r] = {using[r], d} /\ conn[d] = "closed"
      BY <1>1, <1>5, <2>1, <3>1 DEF Sent, Active
    <3>3. Cardinality(delivered[r]) # 1
      BY <3>1, <3>2, TwoElements
    <3> QED  BY <1>1, <1>5, <2>3, <3>2, <3>3 DEF PhaseIs, Phase, Results
  <2> QED  BY <2>2, <2>3
<1> QED  BY <1>1, <1>2, <1>3, <1>4, <1>5 DEF Steps

(* One request changes its phase in a way that Delivery allows. *)
LEMMA PromiseStep ==
  ASSUME NEW r \in Requests, \A q \in Requests \ {r} : Phase(q)' = Phase(q),
         \/ Phase(r)' = Phase(r)
         \/ Phase(r) = "new" /\ Phase(r)' = "written"
         \/ Phase(r) = "lost" /\ Phase(r)' = "rewritten"
         \/ Phase(r) = "written" /\ Phase(r)' = "lost"
         \/ Phase(r) = "rewritten" /\ Phase(r)' = "gone"
         \/ Phase(r) \in {"written", "rewritten"} /\ Phase(r)' = "answering"
         \/ Phase(r) = "answering" /\ Phase(r)' = "ok"
         \/ Phase(r) \notin {"ok", "failed"} /\ Phase(r)' = "failed"
  PROVE  [Promise!Next]_Phases
<1>1. Phases' = [Phases EXCEPT ![r] = Phase(r)'] /\ Phases[r] = Phase(r)
  BY DEF Phases
<1>2. CASE Phase(r)' = Phase(r)
  BY <1>2 DEF Phases
<1>3. CASE Phase(r)' # Phase(r)
  <2>1. \/ Promise!Write(r) \/ Promise!Lose(r) \/ Promise!Answer(r)
        \/ Promise!Succeed(r) \/ Promise!Fail(r)
    BY <1>1, <1>3 DEF Promise!Write, Promise!Lose, Promise!Answer, Promise!Succeed,
                      Promise!Fail, Promise!Moves, Promise!Ended
  <2> QED  BY <2>1 DEF Promise!Next
<1> QED  BY <1>2, <1>3

(* A step of one request leaves the phases of the others. *)
LEMMA OtherPhases ==
  ASSUME Inv, PhaseTable, PhaseTable', NEW r \in Requests, Proxy(r) \/ Cut(r),
         NEW q \in Requests \ {r}
  PROVE  Phase(q)' = Phase(q)
<1>1. /\ pc'[q] = pc[q] /\ result'[q] = result[q]
      /\ using'[q] = using[q] /\ delivered'[q] = delivered[q]
  BY DEF Inv, TypeOK, Proxy, Collect, Acquire, Connect, Send, Await, Release, ReadBody,
         Cut, Return, GoTo, SendFails, RetryFrom
<1>2. ASSUME pc[q] = "await"  PROVE conn'[using[q]] = conn[using[q]]
  <2>1. using[q] \in Conns /\ conn[using[q]] # "none"
    BY <1>2 DEF Inv, WorkInv, Held
  <2>2. pc[r] \in Held \cup Active => using[r] # using[q]
    BY <1>2 DEF Inv, ApartInv, Held, Active
  <2>3. CASE Connect(r)
    <3>1. conn[<<r, attempt[r]>>] = "none"
      BY <2>3 DEF Inv, FreshInv, Connect, Own
    <3> QED  BY <2>1, <2>3, <3>1 DEF Connect, Inv, TypeOK
  <2>4. CASE Cut(r)
    BY <2>1, <2>2, <2>4, DropConns DEF Cut
  <2>5. CASE Send(r) \/ Await(r) \/ ReadBody(r)
    <3>1. using[r] # using[q]
      BY <2>2, <2>5 DEF Send, Await, ReadBody, Held, Active
    <3> QED  BY <2>1, <2>5, <3>1 DEF Send, Await, ReadBody, Inv, TypeOK
  <2> QED  BY <2>3, <2>4, <2>5 DEF Proxy, Collect, Acquire, Release
<1>3. PhaseIs(q) /\ PhaseIs(q)' /\ pc[q] \in Steps
  BY DEF PhaseTable, Inv, TypeOK
<1> QED  BY <1>1, <1>2, <1>3 DEF PhaseIs, Steps

(* A step of a request is a step of Delivery, or none. *)
LEMMA RequestRefines ==
  ASSUME Inv, Inv', PhaseTable, PhaseTable', NEW r \in Requests, Proxy(r) \/ Cut(r)
  PROVE  [Promise!Next]_Phases
<1>1. PhaseIs(r) /\ PhaseIs(r)' /\ Sent(r) /\ attempt[r] \in {1, 2}
  BY DEF PhaseTable, Inv, SentInv, TypeOK
<1>2. \A q \in Requests \ {r} : Phase(q)' = Phase(q)
  BY OtherPhases
<1>3. ASSUME NEW res \in {"500", "other"}, pc[r] # "done", Return(r, res)
      PROVE  Phase(r) \notin {"ok", "failed"} /\ Phase(r)' = "failed"
  <2>1. pc'[r] = "done" /\ result'[r] = res /\ pc[r] \in Steps
    BY <1>3 DEF Inv, TypeOK, Return, GoTo
  <2> QED  BY <1>1, <1>3, <2>1 DEF PhaseIs, Steps
<1>4. ASSUME pc[r] \in {"collect", "acquire", "connect", "send"},
             pc'[r] \in {"collect", "acquire", "connect", "send"}, UNCHANGED delivered
      PROVE  Phase(r)' = Phase(r)
  BY <1>1, <1>4 DEF PhaseIs
<1>5. CASE Collect(r) \/ Acquire(r) \/ Connect(r)
  <2>1. CASE \E res \in {"500", "other"} : Return(r, res)
    BY <1>2, <1>3, <1>5, <2>1, PromiseStep DEF Collect, Acquire, Connect
  <2>2. CASE ~\E res \in {"500", "other"} : Return(r, res)
    <3>1. /\ pc[r] \in {"collect", "acquire", "connect", "send"} /\ UNCHANGED delivered
          /\ pc'[r] \in {"collect", "acquire", "connect", "send"}
      BY <1>5, <2>2 DEF Collect, Acquire, Connect, GoTo, Inv, TypeOK
    <3> QED  BY <1>2, <1>4, <3>1, PromiseStep
  <2> QED  BY <2>1, <2>2
<1>6. CASE (Send(r) \/ Await(r)) /\ SendFails(r)
  <2>1. CASE Return(r, "500")
    BY <1>2, <1>3, <1>6, <2>1, PromiseStep DEF Send, Await
  <2>2. CASE ~Return(r, "500")
    <3>1. pc'[r] = "connect" /\ UNCHANGED delivered /\ attempt[r] = 1
      BY <1>6, <2>2 DEF SendFails, RetryFrom, GoTo, Inv, TypeOK
    <3>2. CASE Send(r)
      BY <1>2, <1>4, <3>1, <3>2, PromiseStep DEF Send
    <3>3. CASE Await(r)
      <4>1. pc[r] = "await" /\ conn[using[r]] = "closed" /\ delivered[r] = {using[r]}
        BY <1>1, <1>6, <3>1, <3>3 DEF Await, Sent, Active, SendFails, RetryFrom, GoTo, Inv, TypeOK
      <4>2. Phase(r) = "lost" /\ Phase(r)' = "lost"
        BY <1>1, <3>1, <4>1 DEF PhaseIs
      <4> QED  BY <1>2, <4>2, PromiseStep
    <3> QED  BY <1>6, <3>2, <3>3
  <2> QED  BY <2>1, <2>2
<1>7. CASE Send(r) /\ ~SendFails(r)
  <2> DEFINE c == using[r]
  <2>1. /\ pc[r] = "send" /\ pc'[r] = "await" /\ using'[r] = c /\ conn'[c] = "busy"
        /\ delivered'[r] = delivered[r] \cup {c} /\ c \in Conns
    BY <1>7 DEF Send, GoTo, Inv, TypeOK, WorkInv, Held
  <2>2. c \notin delivered[r]
    BY <1>1, <2>1 DEF Sent, Inv, WorkInv, Held, Active
  <2>3. /\ delivered[r] = {} => Phase(r) = "new" /\ Phase(r)' = "written"
        /\ delivered[r] # {} => Phase(r) = "lost" /\ Phase(r)' = "rewritten"
    BY <1>1, <2>1, <2>2 DEF PhaseIs
  <2> QED  BY <1>2, <2>3, PromiseStep
<1>8. CASE Await(r) /\ ~SendFails(r)
  <2>1. pc[r] = "await" /\ conn[using[r]] = "busy" /\ pc'[r] = "release"
    BY <1>8 DEF Await, GoTo, Inv, TypeOK
  <2>2. Phase(r) \in {"written", "rewritten"} /\ Phase(r)' = "answering"
    BY <1>1, <2>1 DEF PhaseIs
  <2> QED  BY <1>2, <2>2, PromiseStep
<1>9. CASE Release(r)
  <2>1. pc[r] = "release" /\ pc'[r] = "body"
    BY <1>9 DEF Release, GoTo, Inv, TypeOK
  <2> QED  BY <1>1, <1>2, <2>1, PromiseStep DEF PhaseIs
<1>10. CASE ReadBody(r)
  <2>1. CASE Return(r, "500")
    BY <1>2, <1>3, <1>10, <2>1, PromiseStep DEF ReadBody
  <2>2. CASE Return(r, "ok")
    <3>1. pc[r] = "body" /\ pc'[r] = "done" /\ result'[r] = "ok"
      BY <1>10, <2>2 DEF ReadBody, Return, GoTo, Inv, TypeOK
    <3>2. Phase(r) = "answering" /\ Phase(r)' = "ok"
      BY <1>1, <3>1 DEF PhaseIs
    <3> QED  BY <1>2, <3>2, PromiseStep
  <2> QED  BY <1>10, <2>1, <2>2 DEF ReadBody
<1>11. CASE Cut(r)
  BY <1>2, <1>3, <1>11, DropConns, PromiseStep DEF Cut
<1> QED  BY <1>5, <1>6, <1>7, <1>8, <1>9, <1>10, <1>11 DEF Proxy

(* A connection that closes loses at most one request. *)
LEMMA ConnRefines ==
  ASSUME Inv, PhaseTable, PhaseTable', NEW c \in Conns, UpstreamCloses(c) \/ Settle(c)
  PROVE  [Promise!Next]_Phases
<1>1. UNCHANGED <<pc, addr, attempt, using, result, idle, delivered>>
  BY DEF UpstreamCloses, Settle
<1>2. \A d \in Conns \ {c} : conn'[d] = conn[d]
  BY DEF Inv, TypeOK, UpstreamCloses, Settle
<1>3. ASSUME NEW q \in Requests, pc[q] = "await" => using[q] # c
      PROVE  Phase(q)' = Phase(q)
  <2>1. PhaseIs(q) /\ PhaseIs(q)' /\ pc[q] \in Steps
    BY DEF PhaseTable, Inv, TypeOK
  <2>2. pc[q] = "await" => conn'[using[q]] = conn[using[q]]
    BY <1>2, <1>3 DEF Inv, WorkInv, Held
  <2> QED  BY <1>1, <2>1, <2>2 DEF PhaseIs, Steps
<1>4. CASE \A q \in Requests : pc[q] = "await" => using[q] # c
  BY <1>3, <1>4 DEF Phases
<1>5. ASSUME NEW r \in Requests, pc[r] = "await", using[r] = c
      PROVE  [Promise!Next]_Phases
  <2>1. conn[c] \in {"busy", "closed"}
    BY <1>5 DEF Inv, WorkInv, Held
  <2>2. conn[c] = "busy" /\ conn'[c] = "closed"
    BY <2>1 DEF UpstreamCloses, Settle, Open, Inv, TypeOK
  <2>3. \A q \in Requests \ {r} : pc[q] = "await" => using[q] # c
    BY <1>5 DEF Inv, ApartInv, Held
  <2>4. PhaseIs(r) /\ PhaseIs(r)'
    BY DEF PhaseTable
  <2>5. \/ Phase(r) = "written" /\ Phase(r)' = "lost"
        \/ Phase(r) = "rewritten" /\ Phase(r)' = "gone"
    BY <1>1, <1>5, <2>2, <2>4 DEF PhaseIs
  <2> QED  BY <1>3, <2>3, <2>5, PromiseStep
<1> QED  BY <1>4, <1>5

(* Pool, retry and timeout implement Delivery: whatever requests share the *)
(* connections, none is sent a third time, none again after an answer, and *)
(* none succeeds without one (proxy.rs:80-113).                            *)
THEOREM ForwardingRefinement == Spec => ImplementsDelivery
<1>1. Init => Promise!Init
  BY DEF Init, Promise!Init, Phases, Phase
<1>2. Inv /\ Inv' /\ PhaseTable /\ PhaseTable' /\ [Next]_vars =>
        [Promise!Next]_Phases
  <2> SUFFICES ASSUME Inv, Inv', PhaseTable, PhaseTable', [Next]_vars
               PROVE  [Promise!Next]_Phases
    OBVIOUS
  <2>1. CASE UNCHANGED vars
    BY <2>1 DEF vars, Phases, Phase
  <2> QED  BY <2>1, RequestRefines, ConnRefines DEF Next
<1>3. Spec => []PhaseTable
  BY SpecInv, PhaseFollows, PTL
<1> QED  BY <1>1, <1>2, <1>3, SpecInv, PTL DEF Spec, ImplementsDelivery, Promise!Spec

=============================================================================
