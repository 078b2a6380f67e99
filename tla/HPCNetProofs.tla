---------------------------- MODULE HPCNetProofs ----------------------------
(***************************************************************************)
(* For every number of clients, of threads and of clients wanted, and for  *)
(* every set of faults: a server that prints a result has added each part  *)
(* of the interval once, or NAN, and with fewer threads than clients it    *)
(* never prints one.                                                       *)
(***************************************************************************)
EXTENDS HPCNet, FiniteSetTheorems, TLAPS

ServerAt == {"listen", "broadcast", "accept", "init", "send", "calc",
             "collect"} \cup Ended
ClientAt == {"bind", "recvfrom", "connect", "sendCpu", "readTask",
             "calc"} \cup Ended

TypeInv ==
  /\ num_threads \in Nat \ {0} /\ clients_limit \in Nat
  /\ pc \in [Procs -> ServerAt \cup ClientAt]
  /\ pc[Server] \in ServerAt
  /\ \A c \in Clients : pc[c] \in ClientAt
  /\ backlog \in Seq(Clients)
  /\ clifds \in Seq(Clients)
  /\ Len(clifds) <= clients_limit
  /\ num \in 0..clients_limit
  /\ up = [c \in Clients |-> up[c]]
  /\ down = [c \in Clients |-> down[c]]

(* A client connects once.                                                 *)
Unheard == {"bind", "recvfrom", "connect"}

OrderInv ==
  /\ \A i, j \in 1..Len(clifds) : clifds[i] = clifds[j] => i = j
  /\ \A i, j \in 1..Len(backlog) : backlog[i] = backlog[j] => i = j
  /\ \A i \in 1..Len(clifds), j \in 1..Len(backlog) : clifds[i] # backlog[j]
  /\ \A i \in 1..Len(clifds) : pc[clifds[i]] \notin Unheard
  /\ \A j \in 1..Len(backlog) : pc[backlog[j]] \notin Unheard

(* The last part of the first k tasks, the task of the client accepted     *)
(* after k others, and what is added up with the answers of the first k.   *)
LastPart(k) ==
  k * num_full_threads
    + IF k < num_extra_threads THEN k ELSE num_extra_threads

Task(k) == [a |-> LastPart(k), b |-> LastPart(k + 1)]

Summed(k) ==
  [p \in Parts |->
     IF p <= LastPart(k) \/ p > LastPart(clients_limit) THEN 1 ELSE 0]

ServerInv ==
  /\ pc[Server] \in {"listen", "broadcast", "accept"} => num = 0
  /\ pc[Server] \in {"listen", "broadcast", "accept", "init"} => task_b = 0
  /\ pc[Server] \in {"init", "send", "calc", "collect", "done"} =>
       Len(clifds) = clients_limit
  /\ pc[Server] = "send" => task_b = LastPart(num)
  /\ pc[Server] = "calc" => task_b = LastPart(clients_limit)
  /\ pc[Server] \in {"calc", "done"} => num = clients_limit
  /\ pc[Server] \notin {"collect", "done"} \cup Ended => result = Zero

ResultInv ==
  pc[Server] \in {"collect", "done"} =>
    /\ "alloc" \notin faults => result \in {NAN, Summed(num)}
    /\ \A k \in 0..num - 1 : Task(k).a # Task(k).b

(* What has passed between the server and a client: nothing but the number *)
(* of its CPUs, or, by the stage the server is at, its task and an answer  *)
(* to that.                                                                *)
Silent == {"bind", "recvfrom", "connect", "sendCpu"}

Alone(at, u, d) ==
  /\ d = <<>>
  /\ u \in {<<>>, <<"cpu">>}
  /\ at \in Silent => u = <<>>
  /\ at # "calc"

Line(stage, task, answers, at, u, d) ==
  /\ stage = "unread" => Alone(at, u, d)
  /\ stage # "unread" => at \notin Silent
  /\ stage = "read" => u = <<>> /\ d = <<>> /\ at # "calc"
  /\ stage \in {"sent", "added"} => d = <<task>>
  /\ stage \in {"sent", "added"} /\ at = "calc" => task.a # task.b
  /\ stage = "sent" =>
       \/ u = <<>>
       \/ /\ at \in Ended /\ task.a # task.b
          /\ \E res \in answers : u = <<res>>

Stage(at, n, i) ==
  CASE at = "init"            -> IF i <= n THEN "read" ELSE "unread"
    [] at = "send"            -> IF i <= n THEN "sent" ELSE "read"
    [] at = "calc"            -> "sent"
    [] at = "collect"         -> IF i <= n THEN "added" ELSE "sent"
    [] at = "done"            -> "added"
    [] OTHER                  -> "unread"

LineOf(i) ==
  Line(Stage(pc[Server], num, i), Task(i - 1), HpcIntegral(Task(i - 1)),
       pc[clifds[i]], up[clifds[i]], down[clifds[i]])

Accepted(c) == \E i \in 1..Len(clifds) : clifds[i] = c

ClientsInv ==
  /\ \A i \in 1..Len(clifds) : LineOf(i)
  /\ \A c \in Clients : ~Accepted(c) => Alone(pc[c], up[c], down[c])

(* A server that has failed or was killed owes nobody anything.            *)
Live == pc[Server] \notin {"failed", "killed"}

IInv ==
  /\ TypeInv
  /\ OrderInv
  /\ Live => ServerInv /\ ResultInv /\ ClientsInv

-----------------------------------------------------------------------------
USE SizesAssumption, ServerAssumption, FaultsAssumption

(* The tasks follow one another, and the server's own ends the interval.   *)
LEMMA Division ==
  ASSUME NEW a \in Nat, NEW d \in Nat \ {0}
  PROVE  /\ a \div d \in Nat /\ a % d \in 0..(d - 1)
         /\ d * (a \div d) + (a % d) = a
         /\ a < d => a \div d = 0 /\ a % d = a
<1>1. a \div d \in Int /\ a % d \in 0..(d - 1)
  OBVIOUS
<1>2. d * (a \div d) + (a % d) = a
  OBVIOUS
<1>3. ASSUME NEW q \in Int, NEW r \in 0..(d - 1), d * q + r = a
      PROVE  q >= 0
  BY <1>3
<1>4. a \div d \in Nat
  BY <1>1, <1>2, <1>3
<1>5. ASSUME NEW q \in Nat, NEW r \in Nat, d * q + r = a, a < d
      PROVE  q = 0 /\ r = a
  BY <1>5
<1>6. QED
  BY <1>1, <1>2, <1>4, <1>5

LEMMA Products ==
  /\ \A k, f \in Nat : k * f \in Nat /\ (k + 1) * f = k * f + f
  /\ \A k, n, f \in Nat : k <= n => k * f <= n * f
  OBVIOUS

LEMMA PartFacts ==
  ASSUME TypeInv
  PROVE  /\ num_full_threads \in Nat
         /\ \A k \in Nat : LastPart(k) \in Nat /\ NumLocalThreads(k) \in Nat
         /\ LastPart(0) = 0
         /\ \A k \in Nat : LastPart(k + 1) = LastPart(k) + NumLocalThreads(k)
         /\ \A k \in 0..clients_limit : LastPart(k) <= LastPart(clients_limit)
         /\ LastPart(clients_limit) + num_full_threads = num_threads
         /\ num_threads < clients_limit =>
              LastPart(clients_limit - 1) = LastPart(clients_limit)
<1>1. PICK f \in Nat, e \in 0..clients_limit :
        /\ f = num_full_threads /\ e = num_extra_threads
        /\ (clients_limit + 1) * f + e = num_threads
        /\ num_threads < clients_limit => f = 0 /\ e = num_threads
  <2>1. PICK a \in Nat, d \in Nat \ {0} :
          a = num_threads /\ d = clients_limit + 1 /\ d - 1 = clients_limit
    <3>1. /\ num_threads \in Nat /\ clients_limit + 1 \in Nat \ {0}
          /\ (clients_limit + 1) - 1 = clients_limit
      BY DEF TypeInv
    <3>2. QED
      BY <3>1
  <2>2. num_full_threads = a \div d /\ num_extra_threads = a % d
    BY <2>1 DEF num_full_threads, num_extra_threads
  <2>3. /\ a \div d \in Nat /\ a % d \in 0..(d - 1)
        /\ d * (a \div d) + (a % d) = a
        /\ a < d => a \div d = 0 /\ a % d = a
    BY Division
  <2>4. num_threads < clients_limit => a < d
    BY <2>1 DEF TypeInv
  <2>5. QED
    BY <2>1, <2>2, <2>3, <2>4
<1>2. PICK n \in Nat : n = clients_limit
  BY DEF TypeInv
<1>3. \A k : /\ LastPart(k) = k * f + IF k < e THEN k ELSE e
             /\ NumLocalThreads(k) = f + IF k < e THEN 1 ELSE 0
  BY <1>1 DEF LastPart, NumLocalThreads
<1>4. \A k \in Nat : LastPart(k) \in Nat /\ NumLocalThreads(k) \in Nat
  BY <1>1, <1>2, <1>3, Products
<1>5. LastPart(0) = 0
  BY <1>1, <1>2, <1>3
<1>6. \A k \in Nat : LastPart(k + 1) = LastPart(k) + NumLocalThreads(k)
  <2>1. SUFFICES ASSUME NEW k \in Nat
                 PROVE  LastPart(k + 1) = LastPart(k) + NumLocalThreads(k)
    OBVIOUS
  <2>2. k * f \in Nat /\ (k + 1) * f = k * f + f
    BY Products
  <2>3. /\ LastPart(k + 1) = k * f + f + IF k + 1 < e THEN k + 1 ELSE e
        /\ LastPart(k) = k * f + IF k < e THEN k ELSE e
        /\ NumLocalThreads(k) = f + IF k < e THEN 1 ELSE 0
    BY <1>3, <2>2
  <2>4. e \in Nat
    BY <1>1, <1>2
  <2>5. QED
    BY <2>2, <2>3, <2>4
<1>7. \A k \in 0..n : LastPart(k) <= LastPart(n)
  <2>1. SUFFICES ASSUME NEW k \in 0..n PROVE LastPart(k) <= LastPart(n)
    OBVIOUS
  <2>2. k * f \in Nat /\ n * f \in Nat /\ k * f <= n * f
    BY Products
  <2>3. e \in Nat
    BY <1>1, <1>2
  <2>4. QED
    BY <1>3, <2>2, <2>3
<1>8. LastPart(n) + f = num_threads
  <2>1. n * f \in Nat /\ (n + 1) * f = n * f + f
    BY Products
  <2>2. LastPart(n) = n * f + e /\ (n + 1) * f + e = num_threads
    BY <1>1, <1>2, <1>3
  <2>3. e \in Nat
    BY <1>1, <1>2
  <2>4. QED
    BY <2>1, <2>2, <2>3
<1>9. num_threads < n => LastPart(n - 1) = LastPart(n)
  <2>1. SUFFICES ASSUME num_threads < n PROVE LastPart(n - 1) = LastPart(n)
    OBVIOUS
  <2>2. f = 0 /\ e < n /\ e \in Nat
    BY <1>1, <1>2, <2>1
  <2>3. LastPart(n - 1) = (n - 1) * 0 + e /\ LastPart(n) = n * 0 + e
    BY <1>3, <2>2
  <2>4. QED
    BY <2>2, <2>3
<1>10. QED
  BY <1>1, <1>2, <1>4, <1>5, <1>6, <1>7, <1>8, <1>9

(* What a step does not change.                                            *)
LEMMA RigidFacts ==
  ASSUME UNCHANGED rigid
  PROVE  /\ UNCHANGED <<faults, num_threads, clients_limit>>
         /\ Zero' = Zero /\ NAN' = NAN
         /\ \A k : Task(k)' = Task(k)
         /\ \A k : LastPart(k)' = LastPart(k)
         /\ \A k : Summed(k)' = Summed(k)
         /\ \A t : HpcIntegral(t)' = HpcIntegral(t)
         /\ \A k : HpcIntegral(Task(k))' = HpcIntegral(Task(k))
<1>1. UNCHANGED <<faults, num_threads, clients_limit>>
  BY DEF rigid
<1>2. Parts' = Parts
  BY <1>1 DEF Parts
<1>3. /\ num_full_threads' = num_full_threads
      /\ num_extra_threads' = num_extra_threads
  BY <1>1 DEF num_full_threads, num_extra_threads
<1>4. Zero' = Zero /\ NAN' = NAN /\ MinusOne' = MinusOne
  BY <1>2 DEF Zero, NAN, MinusOne
<1>5. \A k : LastPart(k)' = LastPart(k)
  BY <1>3 DEF LastPart
<1>6. \A k : Task(k)' = Task(k)
  BY <1>5 DEF Task
<1>7. \A k : Summed(k)' = Summed(k)
  BY <1>1, <1>2, <1>5 DEF Summed
<1>8. \A t : Integral(t)' = Integral(t)
  BY <1>2 DEF Integral
<1>9. \A t : HpcIntegral(t)' = HpcIntegral(t)
  BY <1>1, <1>4, <1>8 DEF HpcIntegral
<1>10. \A k : HpcIntegral(Task(k))' = HpcIntegral(Task(k))
  <2>1. SUFFICES ASSUME NEW k
                 PROVE  HpcIntegral(Task(k))' = HpcIntegral(Task(k))
    OBVIOUS
  <2>2. PICK t : t = Task(k) /\ t = Task(k)'
    BY <1>6
  <2>3. HpcIntegral(t)' = HpcIntegral(t)
    BY <1>9
  <2>4. QED
    BY <2>2, <2>3, <1>1, <1>2, <1>4 DEF HpcIntegral, Integral
<1>11. QED
  BY <1>1, <1>4, <1>5, <1>6, <1>7, <1>9, <1>10

LEMMA GotoEffect ==
  ASSUME TypeInv, NEW p \in Procs, NEW to \in ServerAt \cup ClientAt,
         pc' = [pc EXCEPT ![p] = to]
  PROVE  /\ pc' \in [Procs -> ServerAt \cup ClientAt] /\ pc'[p] = to
         /\ \A q \in Procs \ {p} : pc'[q] = pc[q]
  BY DEF TypeInv

(* Messages of one sequence.                                               *)
LEMMA Singletons ==
  \A e : /\ Append(<<>>, e) = <<e>> /\ <<e>> # <<>>
         /\ Head(<<e>>) = e /\ Tail(<<e>>) = <<>>
  OBVIOUS

LEMMA TailFacts ==
  ASSUME NEW S, NEW s \in Seq(S), s # <<>>
  PROVE  /\ Head(s) \in S /\ Head(s) = s[1] /\ 1 \in 1..Len(s)
         /\ Tail(s) \in Seq(S) /\ Len(Tail(s)) = Len(s) - 1
         /\ \A i \in 1..Len(Tail(s)) :
              /\ i + 1 \in 1..Len(s) /\ i + 1 # 1
              /\ Tail(s)[i] = s[i + 1]
  OBVIOUS

LEMMA AppendFacts ==
  ASSUME NEW S, NEW s \in Seq(S), NEW e \in S
  PROVE  /\ Append(s, e) \in Seq(S)
         /\ Len(Append(s, e)) = Len(s) + 1
         /\ \A i \in 1..Len(s) : Append(s, e)[i] = s[i]
         /\ Append(s, e)[Len(s) + 1] = e
         /\ \A i \in 1..Len(Append(s, e)) : i \in 1..Len(s) \/ i = Len(s) + 1
         /\ \A i \in 1..Len(s) : i \in 1..Len(Append(s, e)) /\ i # Len(s) + 1
         /\ Len(s) + 1 \in 1..Len(Append(s, e))
  OBVIOUS

(* A step of the server, as long as it accepts nobody.                     *)
LEMMA ServerFrame ==
  ASSUME IInv, UNCHANGED <<rigid, backlog, clifds>>,
         NEW to \in ServerAt, pc' = [pc EXCEPT ![Server] = to],
         num' \in 0..clients_limit,
         up' = [c \in Clients |-> up'[c]],
         down' = [c \in Clients |-> down'[c]],
         Live' => /\ Live /\ ServerInv' /\ ResultInv'
                  /\ \A i \in 1..Len(clifds) :
                       Line(Stage(to, num', i), Task(i - 1),
                            HpcIntegral(Task(i - 1)), pc[clifds[i]],
                            up'[clifds[i]], down'[clifds[i]])
                  /\ \A c \in Clients : ~Accepted(c) =>
                       up'[c] = up[c] /\ down'[c] = down[c]
  PROVE  IInv'
<1>1. TypeInv /\ OrderInv
  BY DEF IInv
<1>2. /\ pc' \in [Procs -> ServerAt \cup ClientAt] /\ pc'[Server] = to
      /\ \A c \in Clients : pc'[c] = pc[c]
  BY <1>1, GotoEffect DEF Procs
<1>3. UNCHANGED <<num_threads, clients_limit>>
  BY RigidFacts
<1>4. /\ \A i \in 1..Len(clifds) : clifds[i] \in Clients
      /\ \A i \in 1..Len(backlog) : backlog[i] \in Clients
  BY <1>1 DEF TypeInv
<1>5. TypeInv'
  BY <1>1, <1>2, <1>3 DEF TypeInv
<1>6. OrderInv'
  BY <1>1, <1>2, <1>4 DEF OrderInv
<1>7. ASSUME Live' PROVE ClientsInv'
  <2>1. ASSUME NEW i \in 1..Len(clifds) PROVE LineOf(i)'
    <3>1. /\ Task(i - 1)' = Task(i - 1)
          /\ HpcIntegral(Task(i - 1))' = HpcIntegral(Task(i - 1))
      BY RigidFacts
    <3>2. pc'[clifds[i]] = pc[clifds[i]]
      BY <1>2, <1>4
    <3>3. QED
      BY <1>2, <1>7, <3>1, <3>2 DEF LineOf
  <2>2. ASSUME NEW c \in Clients, ~Accepted(c)'
        PROVE  Alone(pc[c], up[c], down[c])'
    <3>1. ~Accepted(c)
      BY <2>2 DEF Accepted
    <3>2. Alone(pc[c], up[c], down[c])
      BY <1>7, <3>1 DEF IInv, ClientsInv
    <3>3. pc'[c] = pc[c] /\ up'[c] = up[c] /\ down'[c] = down[c]
      BY <1>2, <1>7, <3>1
    <3>4. QED
      BY <3>2, <3>3
  <2>3. QED
    BY <2>1, <2>2 DEF ClientsInv
<1>8. QED
  BY <1>5, <1>6, <1>7 DEF IInv

(* A step of a client.                                                     *)
LEMMA ClientFrame ==
  ASSUME IInv, UNCHANGED <<rigid, clifds, num, task_b, result, down>>,
         NEW c \in Clients, NEW to \in ClientAt,
         pc' = [pc EXCEPT ![c] = to],
         to \in Unheard => pc[c] \in Unheard,
         \/ backlog' = backlog
         \/ /\ backlog' = Append(backlog, c)
            /\ pc[c] \in Unheard /\ to \notin Unheard,
         up' = [q \in Clients |-> up'[q]],
         \A q \in Clients \ {c} : up'[q] = up[q],
         Live => /\ \A i \in 1..Len(clifds) : clifds[i] = c =>
                      Line(Stage(pc[Server], num, i), Task(i - 1),
                           HpcIntegral(Task(i - 1)), to, up'[c], down[c])
                 /\ ~Accepted(c) => Alone(to, up'[c], down[c])
  PROVE  IInv'
<1>1. TypeInv /\ OrderInv /\ c \in Procs /\ c # Server
  BY DEF IInv, Procs
<1>2. /\ pc' \in [Procs -> ServerAt \cup ClientAt] /\ pc'[c] = to
      /\ \A q \in Procs \ {c} : pc'[q] = pc[q]
      /\ pc'[Server] = pc[Server]
  BY <1>1, GotoEffect DEF Procs
<1>3. UNCHANGED <<faults, num_threads, clients_limit>>
  BY RigidFacts
<1>4. /\ \A i \in 1..Len(clifds) : clifds[i] \in Clients
      /\ \A i \in 1..Len(backlog) : backlog[i] \in Clients
  BY <1>1 DEF TypeInv
<1>5. backlog' \in Seq(Clients)
  <2>1. backlog \in Seq(Clients)
    BY <1>1 DEF TypeInv
  <2>2. Append(backlog, c) \in Seq(Clients)
    BY ONLY <2>1, c \in Clients, AppendFacts
  <2>3. QED
    BY <2>1, <2>2
<1>6. TypeInv'
  BY <1>1, <1>2, <1>3, <1>5 DEF TypeInv, Procs
<1>7. OrderInv'
  <2>1. \A q \in Clients : pc[q] \notin Unheard => pc'[q] \notin Unheard
    BY <1>2 DEF Procs
  <2>2. CASE backlog' = backlog
    BY <1>1, <1>4, <2>1, <2>2 DEF OrderInv
  <2>3. CASE /\ backlog' = Append(backlog, c)
             /\ pc[c] \in Unheard /\ to \notin Unheard
    <3>1. /\ \A i \in 1..Len(backlog) : backlog'[i] = backlog[i]
          /\ backlog'[Len(backlog) + 1] = c
          /\ \A i \in 1..Len(backlog') :
               i \in 1..Len(backlog) \/ i = Len(backlog) + 1
      BY <1>1, <2>3, AppendFacts DEF TypeInv
    <3>2. /\ \A i \in 1..Len(backlog) : backlog[i] # c
          /\ \A i \in 1..Len(clifds) : clifds[i] # c
      BY <1>1, <2>3 DEF OrderInv
    <3>3. pc'[c] \notin Unheard
      BY <1>2, <2>3
    <3>4. QED
      BY <1>1, <1>4, <2>1, <3>1, <3>2, <3>3 DEF OrderInv
  <2>4. QED
    BY <2>2, <2>3
<1>8. ASSUME Live' PROVE Live /\ ServerInv' /\ ResultInv' /\ ClientsInv'
  <2>1. Live /\ ServerInv /\ ResultInv /\ ClientsInv
    BY <1>2, <1>8 DEF IInv, Live
  <2>2. ServerInv'
    BY <1>2, <1>3, <2>1, RigidFacts DEF ServerInv
  <2>3. ResultInv'
    BY <1>2, <1>3, <2>1, RigidFacts DEF ResultInv
  <2>4. ASSUME NEW i \in 1..Len(clifds) PROVE LineOf(i)'
    <3>1. /\ Task(i - 1)' = Task(i - 1)
          /\ HpcIntegral(Task(i - 1))' = HpcIntegral(Task(i - 1))
      BY RigidFacts
    <3>2. CASE clifds[i] = c
      BY <1>2, <2>1, <3>1, <3>2 DEF LineOf
    <3>3. CASE clifds[i] # c
      <4>1. LineOf(i)
        BY <2>1 DEF ClientsInv
      <4>2. /\ pc'[clifds[i]] = pc[clifds[i]] /\ up'[clifds[i]] = up[clifds[i]]
        BY <1>2, <1>4, <3>3 DEF Procs
      <4>3. QED
        BY <1>2, <3>1, <4>1, <4>2 DEF LineOf
    <3>4. QED
      BY <3>2, <3>3
  <2>5. ASSUME NEW q \in Clients, ~Accepted(q)'
        PROVE  Alone(pc[q], up[q], down[q])'
    <3>1. ~Accepted(q)
      BY <2>5 DEF Accepted
    <3>2. CASE q = c
      BY <1>2, <2>1, <3>1, <3>2
    <3>3. CASE q # c
      <4>1. Alone(pc[q], up[q], down[q])
        BY <2>1, <3>1 DEF ClientsInv
      <4>2. pc'[q] = pc[q] /\ up'[q] = up[q]
        BY <1>2, <3>3 DEF Procs
      <4>3. QED
        BY <4>1, <4>2
    <3>4. QED
      BY <3>2, <3>3
  <2>6. QED
    BY <2>1, <2>2, <2>3, <2>4, <2>5 DEF ClientsInv
<1>9. QED
  BY <1>6, <1>7, <1>8 DEF IInv
-----------------------------------------------------------------------------
(* A client goes on or ends and writes nothing.                            *)
LEMMA LineQuiet ==
  ASSUME NEW stage, NEW task, NEW answers, NEW at, NEW to, NEW u, NEW d,
         Line(stage, task, answers, at, u, d),
         \/ at = "bind" /\ to = "recvfrom"
         \/ at = "recvfrom" /\ to = "connect"
         \/ at = "connect" /\ to = "sendCpu"
         \/ at = "readTask" /\ to = "calc" /\ d # <<>> /\ Head(d).a # Head(d).b
         \/ to \in Ended
  PROVE  Line(stage, task, answers, to, u, d)
  BY Singletons DEF Line, Alone, Silent, Ended

LEMMA AloneIsUnread ==
  \A task, answers, at, u, d :
    Alone(at, u, d) <=> Line("unread", task, answers, at, u, d)
  BY DEF Line

LEMMA ClientQuiet ==
  ASSUME IInv, UNCHANGED rigid, NEW c \in Clients,
         \/ C_Bind(c) \/ C_Refused(c) \/ C_ReadTask(c) \/ C_ServerGone(c)
         \/ C_Connect(c) \/ Die(c)
  PROVE  IInv'
<1>1. UNCHANGED <<clifds, num, task_b, result, up, down>>
  BY DEF C_Bind, C_Refused, C_ReadTask, C_ServerGone, C_Connect, Die, net
<1>2. PICK to \in ClientAt : pc' = [pc EXCEPT ![c] = to]
  BY DEF C_Bind, C_Refused, C_ReadTask, C_ServerGone, C_Connect, Die, Goto,
         ClientAt, Ended
<1>3. pc'[c] = to
  BY <1>2, GotoEffect DEF IInv, Procs
<1>4. \/ pc[c] = "bind" /\ to = "recvfrom"
      \/ pc[c] = "connect" /\ to = "sendCpu"
      \/ /\ pc[c] = "readTask" /\ to = "calc" /\ down[c] # <<>>
         /\ Head(down[c]).a # Head(down[c]).b
      \/ to \in Ended
  <2>1. ASSUME NEW how \in ClientAt, pc' = [pc EXCEPT ![c] = how]
        PROVE  to = how
    BY <1>3, <2>1, GotoEffect DEF IInv, Procs
  <2>2. CASE C_Bind(c) \/ C_Connect(c)
    BY <2>1, <2>2 DEF C_Bind, C_Connect, Goto, ClientAt
  <2>3. CASE C_Refused(c) \/ C_ServerGone(c) \/ Die(c)
    BY <2>1, <2>3 DEF C_Refused, C_ServerGone, Die, Goto, ClientAt, Ended
  <2>4. CASE C_ReadTask(c)
    BY <2>1, <2>4 DEF C_ReadTask, Goto, ClientAt, Ended
  <2>5. QED
    BY <2>2, <2>3, <2>4
<1>5. \/ backlog' = backlog
      \/ /\ backlog' = Append(backlog, c)
         /\ pc[c] \in Unheard /\ to \notin Unheard
  <2>1. CASE C_Connect(c)
    <3>1. pc[c] = "connect" /\ to = "sendCpu" /\ backlog' = Append(backlog, c)
      BY <1>3, <2>1, GotoEffect DEF C_Connect, Goto, ClientAt, IInv, Procs
    <3>2. QED
      BY <3>1 DEF Unheard
  <2>2. CASE ~C_Connect(c)
    BY <2>2 DEF C_Bind, C_Refused, C_ReadTask, C_ServerGone, Die, net
  <2>3. QED
    BY <2>1, <2>2
<1>6. to \in Unheard => pc[c] \in Unheard
  BY <1>4 DEF Unheard, Ended
<1>7. ASSUME NEW i \in 1..Len(clifds), clifds[i] = c, Live
      PROVE  Line(Stage(pc[Server], num, i), Task(i - 1),
                  HpcIntegral(Task(i - 1)), to, up'[c], down[c])
  <2>1. Line(Stage(pc[Server], num, i), Task(i - 1),
             HpcIntegral(Task(i - 1)), pc[c], up[c], down[c])
    BY <1>7 DEF IInv, ClientsInv, LineOf
  <2>2. QED
    BY <1>1, <1>4, <2>1, LineQuiet
<1>8. ASSUME ~Accepted(c), Live PROVE Alone(to, up'[c], down[c])
  <2>1. Alone(pc[c], up[c], down[c])
    BY <1>8 DEF IInv, ClientsInv
  <2>2. QED
    BY <1>1, <1>4, <2>1, LineQuiet, AloneIsUnread
<1>9. up' = [q \in Clients |-> up'[q]]
  BY <1>1 DEF IInv, TypeInv
<1>10. QED
  BY <1>1, <1>2, <1>5, <1>6, <1>7, <1>8, <1>9, ClientFrame

(* A client sends the number of its CPUs.                                  *)
LEMMA SendCpuKeeps ==
  ASSUME IInv, UNCHANGED rigid, NEW c \in Clients, C_SendCpu(c)
  PROVE  IInv'
<1>1. /\ pc[c] = "sendCpu" /\ pc' = [pc EXCEPT ![c] = "readTask"]
      /\ "readTask" \in ClientAt /\ "readTask" \notin Unheard
      /\ UNCHANGED <<backlog, clifds, down, num, task_b, result>>
  BY DEF C_SendCpu, Goto, ClientAt, Unheard
<1>2. /\ up' = [q \in Clients |-> up'[q]] /\ up'[c] = Append(up[c], "cpu")
      /\ \A q \in Clients \ {c} : up'[q] = up[q]
  BY DEF C_SendCpu, IInv, TypeInv
<1>3. ASSUME NEW stage, NEW task, NEW answers,
             Line(stage, task, answers, pc[c], up[c], down[c])
      PROVE  Line(stage, task, answers, "readTask", up'[c], down[c])
  BY <1>1, <1>2, <1>3, Singletons DEF Line, Alone, Silent
<1>4. ASSUME NEW i \in 1..Len(clifds), clifds[i] = c, Live
      PROVE  Line(Stage(pc[Server], num, i), Task(i - 1),
                  HpcIntegral(Task(i - 1)), "readTask", up'[c], down[c])
  BY <1>3, <1>4 DEF IInv, ClientsInv, LineOf
<1>5. ASSUME ~Accepted(c), Live PROVE Alone("readTask", up'[c], down[c])
  <2>1. Alone(pc[c], up[c], down[c])
    BY <1>5 DEF IInv, ClientsInv
  <2>2. QED
    BY <1>3, <2>1, AloneIsUnread
<1>6. QED
  BY <1>1, <1>2, <1>4, <1>5, ClientFrame

(* A client answers the task it has been sent.                             *)
LEMMA AnswerKeeps ==
  ASSUME IInv, UNCHANGED rigid, NEW c \in Clients, C_Answer(c)
  PROVE  IInv'
<1>1. /\ pc[c] = "calc" /\ pc' = [pc EXCEPT ![c] = "done"]
      /\ "done" \in ClientAt /\ "done" \notin Unheard
      /\ UNCHANGED <<backlog, clifds, down, num, task_b, result>>
  BY DEF C_Answer, Goto, ClientAt, Unheard, Ended
<1>2. PICK res \in HpcIntegral(Head(down[c])) :
        up' = [up EXCEPT ![c] = Append(up[c], res)]
  BY DEF C_Answer
<1>3. /\ up' = [q \in Clients |-> up'[q]] /\ up'[c] = Append(up[c], res)
      /\ \A q \in Clients \ {c} : up'[q] = up[q]
  BY <1>2 DEF IInv, TypeInv
<1>4. ASSUME NEW i \in 1..Len(clifds), clifds[i] = c, Live
      PROVE  Line(Stage(pc[Server], num, i), Task(i - 1),
                  HpcIntegral(Task(i - 1)), "done", up'[c], down[c])
  <2>1. PICK stage, task, answers :
          /\ stage = Stage(pc[Server], num, i) /\ task = Task(i - 1)
          /\ answers = HpcIntegral(task)
    OBVIOUS
  <2>2. Line(stage, task, answers, "calc", up[c], down[c])
    BY <1>1, <1>4, <2>1 DEF IInv, ClientsInv, LineOf
  <2>3. /\ stage # "unread" /\ stage # "read"
        /\ stage \in {"sent", "added"} => down[c] = <<task>> /\ task.a # task.b
        /\ stage = "sent" => up[c] = <<>>
    BY <2>2 DEF Line, Alone, Ended
  <2>4. stage = "sent" => up'[c] = <<res>> /\ res \in answers
    BY <1>2, <1>3, <2>1, <2>3, Singletons
  <2>5. Line(stage, task, answers, "done", up'[c], down[c])
    BY <2>3, <2>4 DEF Line, Silent, Ended
  <2>6. QED
    BY <2>1, <2>5
<1>5. ASSUME ~Accepted(c), Live PROVE Alone("done", up'[c], down[c])
  BY <1>1, <1>5 DEF IInv, ClientsInv, Alone
<1>6. QED
  BY <1>1, <1>3, <1>4, <1>5, ClientFrame
-----------------------------------------------------------------------------
(* The server goes from one loop to the next, or fails.                    *)
LEMMA ServerQuiet ==
  ASSUME IInv, UNCHANGED rigid,
         \/ S_Listen \/ S_AcceptTimesOut \/ S_AllAccepted \/ S_AllInit
         \/ S_AllSent \/ S_Finish \/ S_ClientGone \/ Die(Server)
  PROVE  IInv'
<1>1. UNCHANGED <<backlog, clifds, task_b, result, up, down>>
  BY DEF S_Listen, S_AcceptTimesOut, S_AllAccepted, S_AllInit, S_AllSent,
         S_Finish, S_ClientGone, Die, net
<1>2. TypeInv /\ Server \in Procs
  BY DEF IInv, Procs
<1>3. PICK to \in ServerAt : pc' = [pc EXCEPT ![Server] = to]
  BY DEF S_Listen, S_AcceptTimesOut, S_AllAccepted, S_AllInit, S_AllSent,
         S_Finish, S_ClientGone, Die, Goto, ServerAt, Ended
<1>4. pc'[Server] = to
  BY <1>2, <1>3, GotoEffect
<1>5. \/ pc[Server] = "listen" /\ to = "broadcast" /\ num' = num
      \/ /\ pc[Server] = "accept" /\ to = "init" /\ num' = 0
         /\ Len(clifds) = clients_limit
      \/ /\ pc[Server] = "init" /\ to = "send" /\ num' = 0
         /\ num = clients_limit
      \/ /\ pc[Server] = "send" /\ to = "calc" /\ num' = num
         /\ num = clients_limit
      \/ /\ pc[Server] = "collect" /\ to = "done" /\ num' = num
         /\ num = clients_limit
      \/ to \in {"failed", "killed"} /\ num' = num
  <2>1. ASSUME NEW how \in ServerAt, pc' = [pc EXCEPT ![Server] = how]
        PROVE  to = how
    BY <1>2, <1>4, <2>1, GotoEffect
  <2>2. CASE S_Listen \/ S_AllAccepted \/ S_AllInit
    BY <2>1, <2>2 DEF S_Listen, S_AllAccepted, S_AllInit, Goto, ServerAt
  <2>3. CASE S_AllSent \/ S_Finish
    BY <2>1, <2>3 DEF S_AllSent, S_Finish, Goto, ServerAt, Ended
  <2>4. CASE S_AcceptTimesOut \/ S_ClientGone \/ Die(Server)
    BY <2>1, <2>4
       DEF S_AcceptTimesOut, S_ClientGone, Die, Goto, ServerAt, Ended
  <2>5. QED
    BY <2>2, <2>3, <2>4
<1>6. num \in 0..clients_limit /\ clients_limit \in Nat
  BY <1>2 DEF TypeInv
<1>7. num' \in 0..clients_limit
  BY <1>5, <1>6
<1>8. /\ up' = [c \in Clients |-> up'[c]]
      /\ down' = [c \in Clients |-> down'[c]]
  BY <1>1, <1>2 DEF TypeInv
<1>9. UNCHANGED clients_limit /\ UNCHANGED faults
  BY RigidFacts
<1>10. ASSUME Live'
       PROVE  /\ Live /\ ServerInv' /\ ResultInv'
              /\ \A i \in 1..Len(clifds) :
                   Line(Stage(to, num', i), Task(i - 1),
                        HpcIntegral(Task(i - 1)), pc[clifds[i]],
                        up'[clifds[i]], down'[clifds[i]])
  <2>1. /\ to \notin {"failed", "killed"}
        /\ pc[Server] \notin {"failed", "killed"}
    BY <1>4, <1>5, <1>10 DEF Live
  <2>2. ServerInv /\ ResultInv /\ ClientsInv /\ Live
    BY <2>1 DEF IInv, Live
  <2>3. ServerInv'
    BY <1>1, <1>4, <1>5, <1>6, <1>9, <2>1, <2>2, RigidFacts, PartFacts, <1>2
       DEF ServerInv, Ended
  <2>4. ResultInv'
    BY <1>1, <1>4, <1>5, <1>9, <2>1, <2>2, RigidFacts DEF ResultInv
  <2>5. ASSUME NEW i \in 1..Len(clifds)
        PROVE  Line(Stage(to, num', i), Task(i - 1),
                    HpcIntegral(Task(i - 1)), pc[clifds[i]],
                    up'[clifds[i]], down'[clifds[i]])
    <3>1. LineOf(i)
      BY <2>2 DEF ClientsInv
    <3>2. i <= clients_limit /\ i >= 1 /\ i \in Int /\ ~(i <= 0)
      BY <1>2, <1>6 DEF TypeInv
    <3>3. Stage(to, num', i) = Stage(pc[Server], num, i)
      BY <1>5, <2>1, <3>2 DEF Stage
    <3>4. QED
      BY <1>1, <3>1, <3>3 DEF LineOf
  <2>6. QED
    BY <2>2, <2>3, <2>4, <2>5
<1>11. QED
  BY <1>1, <1>3, <1>7, <1>8, <1>10, ServerFrame

(* The datagram makes nobody heard.                                        *)
LEMMA BroadcastKeeps ==
  ASSUME IInv, UNCHANGED rigid, S_Broadcast
  PROVE  IInv'
<1>1. TypeInv /\ OrderInv /\ pc[Server] = "broadcast"
  BY DEF IInv, S_Broadcast
<1>2. UNCHANGED <<net, num, task_b, result>>
  BY DEF S_Broadcast
<1>3. PICK hearing \in SUBSET {c \in Clients : pc[c] = "recvfrom"} :
        pc' = [p \in Procs |-> CASE p = Server -> "accept"
                                 [] p \in hearing -> "connect"
                                 [] OTHER -> pc[p]]
  BY DEF S_Broadcast
<1>4. /\ pc'[Server] = "accept"
      /\ \A c \in Clients : \/ pc'[c] = pc[c]
                            \/ pc[c] = "recvfrom" /\ pc'[c] = "connect"
      /\ pc' = [p \in Procs |-> pc'[p]]
  BY <1>3 DEF Procs
<1>5. UNCHANGED <<num_threads, clients_limit, faults>>
  BY RigidFacts
<1>6. TypeInv'
  <2>1. \A c \in Clients : pc'[c] \in ClientAt
    BY <1>1, <1>4 DEF TypeInv, ClientAt
  <2>2. pc'[Server] \in ServerAt
    BY <1>4 DEF ServerAt
  <2>3. pc' \in [Procs -> ServerAt \cup ClientAt]
    BY <1>4, <2>1, <2>2 DEF Procs
  <2>4. QED
    BY <1>1, <1>2, <1>5, <2>1, <2>2, <2>3 DEF TypeInv, net
<1>7. /\ \A i \in 1..Len(clifds) : clifds[i] \in Clients
      /\ \A i \in 1..Len(backlog) : backlog[i] \in Clients
      /\ \A c \in Clients : pc[c] \notin Unheard => pc'[c] \notin Unheard
  BY <1>1, <1>4 DEF TypeInv, Unheard
<1>8. OrderInv'
  BY <1>1, <1>2, <1>7 DEF OrderInv, net
<1>9. ServerInv /\ ResultInv /\ ClientsInv
  BY <1>1 DEF IInv, Live
<1>10. ServerInv'
  BY <1>1, <1>2, <1>4, <1>5, <1>9, RigidFacts DEF ServerInv, Ended
<1>11. ResultInv'
  BY <1>4 DEF ResultInv
<1>12. ASSUME NEW stage, NEW task, NEW answers, NEW c \in Clients,
              NEW u, NEW d,
              Line(stage, task, answers, pc[c], u, d)
       PROVE  Line(stage, task, answers, pc'[c], u, d)
  BY <1>4, <1>12, LineQuiet
<1>13. ASSUME NEW i \in 1..Len(clifds) PROVE LineOf(i)'
  <2>1. Line("unread", Task(i - 1), HpcIntegral(Task(i - 1)),
             pc[clifds[i]], up[clifds[i]], down[clifds[i]])
    BY <1>1, <1>9 DEF ClientsInv, LineOf, Stage
  <2>2. Line("unread", Task(i - 1), HpcIntegral(Task(i - 1)),
             pc'[clifds[i]], up[clifds[i]], down[clifds[i]])
    BY <1>7, <1>12, <2>1
  <2>3. Stage(pc[Server], num, i)' = "unread"
    BY <1>4 DEF Stage
  <2>4. QED
    BY <1>2, <2>2, <2>3, RigidFacts DEF LineOf, net
<1>14. ASSUME NEW c \in Clients, ~Accepted(c)'
       PROVE  Alone(pc[c], up[c], down[c])'
  <2>1. Alone(pc[c], up[c], down[c])
    BY <1>2, <1>9, <1>14 DEF ClientsInv, Accepted, net
  <2>2. Alone(pc'[c], up[c], down[c])
    BY <1>12, <2>1, AloneIsUnread
  <2>3. QED
    BY <1>2, <2>2 DEF net
<1>15. QED
  BY <1>2, <1>6, <1>8, <1>10, <1>11, <1>13, <1>14 DEF IInv, ClientsInv, net
-----------------------------------------------------------------------------
(* The first who waits is accepted.                                        *)
LEMMA AcceptKeeps ==
  ASSUME IInv, UNCHANGED rigid, S_Accept
  PROVE  IInv'
<1>1. /\ TypeInv /\ OrderInv /\ pc[Server] = "accept"
      /\ Len(clifds) < clients_limit /\ backlog # <<>>
      /\ backlog \in Seq(Clients) /\ clifds \in Seq(Clients)
      /\ clifds' = Append(clifds, Head(backlog)) /\ backlog' = Tail(backlog)
      /\ UNCHANGED <<pc, up, down, num, task_b, result>>
      /\ UNCHANGED <<num_threads, clients_limit, faults>>
  BY RigidFacts DEF IInv, TypeInv, S_Accept
<1>2. PICK c \in Clients : c = Head(backlog) /\ c = backlog[1]
  BY <1>1, TailFacts
<1>3. /\ clifds' \in Seq(Clients) /\ Len(clifds') = Len(clifds) + 1
      /\ \A i \in 1..Len(clifds) : clifds'[i] = clifds[i]
      /\ clifds'[Len(clifds) + 1] = c
      /\ \A i \in 1..Len(clifds') : i \in 1..Len(clifds) \/ i = Len(clifds) + 1
      /\ \A i \in 1..Len(clifds) : i \in 1..Len(clifds')
      /\ Len(clifds) + 1 \in 1..Len(clifds')
  BY <1>1, <1>2, AppendFacts
<1>4. /\ backlog' \in Seq(Clients) /\ 1 \in 1..Len(backlog)
      /\ \A i \in 1..Len(backlog') :
           /\ i + 1 \in 1..Len(backlog) /\ i + 1 # 1
           /\ backlog'[i] = backlog[i + 1]
  BY <1>1, TailFacts
<1>5. TypeInv'
  BY <1>1, <1>3, <1>4 DEF TypeInv
<1>6. OrderInv'
  <2>1. \A i \in 1..Len(clifds) : clifds[i] # c
    BY <1>1, <1>2, <1>4 DEF OrderInv
  <2>2. \A i \in 1..Len(backlog') : backlog'[i] # c
    BY <1>1, <1>2, <1>4 DEF OrderInv
  <2>3. pc[c] \notin Unheard
    BY <1>1, <1>2, <1>4 DEF OrderInv
  <2>4. \A i, j \in 1..Len(clifds') : clifds'[i] = clifds'[j] => i = j
    BY <1>1, <1>3, <2>1 DEF OrderInv
  <2>5. \A i, j \in 1..Len(backlog') : backlog'[i] = backlog'[j] => i = j
    <3>1. SUFFICES ASSUME NEW i \in 1..Len(backlog'),
                          NEW j \in 1..Len(backlog'),
                          backlog'[i] = backlog'[j]
                   PROVE  i = j
      OBVIOUS
    <3>2. i + 1 = j + 1
      BY <1>1, <1>4, <3>1 DEF OrderInv
    <3>3. QED
      BY <3>2
  <2>6. \A i \in 1..Len(clifds'), j \in 1..Len(backlog') :
          clifds'[i] # backlog'[j]
    BY <1>1, <1>3, <1>4, <2>2 DEF OrderInv
  <2>7. QED
    BY <1>1, <1>3, <1>4, <2>3, <2>4, <2>5, <2>6 DEF OrderInv
<1>7. ServerInv /\ ResultInv /\ ClientsInv
  BY <1>1 DEF IInv, Live
<1>8. ServerInv'
  BY <1>1, <1>7, RigidFacts DEF ServerInv
<1>9. ResultInv'
  BY <1>1 DEF ResultInv
<1>10. ASSUME NEW i \in 1..Len(clifds') PROVE LineOf(i)'
  <2>1. Stage(pc[Server], num, i)' = "unread"
    BY <1>1 DEF Stage
  <2>2. Alone(pc[clifds'[i]], up[clifds'[i]], down[clifds'[i]])
    <3>1. CASE i \in 1..Len(clifds)
      BY <1>1, <1>3, <1>7, <3>1 DEF ClientsInv, LineOf, Stage, Line
    <3>2. CASE i = Len(clifds) + 1
      <4>1. ~Accepted(c)
        BY <1>1, <1>2, <1>4 DEF OrderInv, Accepted
      <4>2. QED
        BY <1>3, <1>7, <3>2, <4>1 DEF ClientsInv
    <3>3. QED
      BY <1>3, <3>1, <3>2
  <2>3. QED
    BY <1>1, <2>1, <2>2, AloneIsUnread DEF LineOf
<1>11. ASSUME NEW q \in Clients, ~Accepted(q)'
       PROVE  Alone(pc[q], up[q], down[q])'
  <2>1. ~Accepted(q)
    BY <1>3, <1>11 DEF Accepted
  <2>2. QED
    BY <1>1, <1>7, <2>1 DEF ClientsInv
<1>12. QED
  BY <1>5, <1>6, <1>8, <1>9, <1>10, <1>11 DEF IInv, ClientsInv

(* The client whose turn it is, among those accepted.                      *)
LEMMA Turn ==
  ASSUME IInv, num < clients_limit, Live, Len(clifds) = clients_limit
  PROVE  /\ num + 1 \in 1..Len(clifds) /\ num + 1 \in 0..clients_limit
         /\ num \in Nat /\ num + 1 - 1 = num
         /\ clifds[num + 1] \in Clients /\ Accepted(clifds[num + 1])
         /\ LineOf(num + 1)
         /\ \A i \in 1..Len(clifds) :
              /\ clifds[i] \in Clients
              /\ i # num + 1 => /\ clifds[i] # clifds[num + 1]
                                /\ i <= num <=> i <= num + 1
<1>1. /\ num \in Nat /\ clients_limit \in Nat /\ clifds \in Seq(Clients)
      /\ num + 1 \in 1..Len(clifds)
  BY DEF IInv, TypeInv
<1>2. /\ LineOf(num + 1) /\ Accepted(clifds[num + 1])
      /\ \A i \in 1..Len(clifds) :
           i # num + 1 => clifds[i] # clifds[num + 1]
  BY <1>1 DEF IInv, ClientsInv, Accepted, OrderInv
<1>3. \A i \in 1..Len(clifds) : clifds[i] \in Clients
  BY <1>1
<1>4. QED
  BY <1>1, <1>2, <1>3

(* The number of a client's CPUs is taken off.                             *)
LEMMA ReadCpuKeeps ==
  ASSUME IInv, UNCHANGED rigid, S_ReadCpu
  PROVE  IInv'
<1>1. /\ pc[Server] = "init" /\ num < clients_limit /\ num' = num + 1
      /\ UNCHANGED <<pc, backlog, clifds, down, task_b, result>>
      /\ UNCHANGED <<num_threads, clients_limit, faults>>
      /\ Live /\ ServerInv /\ ResultInv /\ ClientsInv /\ TypeInv
      /\ Len(clifds) = clients_limit
  BY RigidFacts DEF S_ReadCpu, IInv, Live, ServerInv
<1>2. PICK j, c : j = num + 1 /\ c = clifds[j]
  OBVIOUS
<1>3. /\ j \in 1..Len(clifds) /\ j \in 0..clients_limit /\ c \in Clients
      /\ Accepted(c) /\ LineOf(j) /\ num \in Nat
      /\ \A i \in 1..Len(clifds) :
           /\ clifds[i] \in Clients
           /\ i # j => clifds[i] # c /\ (i <= num <=> i <= j)
  BY <1>1, <1>2, Turn
<1>4. /\ up[c] # <<>> /\ up' = [up EXCEPT ![c] = Tail(up[c])]
  BY <1>2 DEF S_ReadCpu
<1>5. /\ up' = [q \in Clients |-> up'[q]] /\ up'[c] = Tail(up[c])
      /\ \A q \in Clients \ {c} : up'[q] = up[q]
  BY <1>1, <1>3, <1>4 DEF TypeInv
<1>6. /\ pc = [pc EXCEPT ![Server] = "init"]
      /\ "init" \in ServerAt /\ down' = [q \in Clients |-> down'[q]]
  BY <1>1 DEF TypeInv, ServerAt
<1>7. ServerInv'
  BY <1>1, RigidFacts DEF ServerInv
<1>8. ResultInv'
  BY <1>1 DEF ResultInv
<1>9. ASSUME NEW i \in 1..Len(clifds)
      PROVE  Line(Stage("init", num', i), Task(i - 1),
                  HpcIntegral(Task(i - 1)), pc[clifds[i]],
                  up'[clifds[i]], down'[clifds[i]])
  <2>1. Line(Stage("init", num, i), Task(i - 1), HpcIntegral(Task(i - 1)),
             pc[clifds[i]], up[clifds[i]], down[clifds[i]])
    BY <1>1 DEF ClientsInv, LineOf
  <2>2. CASE i = j
    <3>1. Stage("init", num, i) = "unread" /\ Stage("init", num', i) = "read"
      BY <1>1, <1>2, <1>3, <2>2 DEF Stage
    <3>2. Alone(pc[c], up[c], down[c])
      BY <1>2, <2>1, <2>2, <3>1 DEF Line
    <3>3. /\ up[c] = <<"cpu">> /\ pc[c] \notin Silent /\ down[c] = <<>>
          /\ pc[c] # "calc"
      BY <1>4, <3>2 DEF Alone
    <3>4. up'[c] = <<>>
      BY <1>5, <3>3, Singletons
    <3>5. QED
      BY <1>1, <1>2, <2>2, <3>1, <3>3, <3>4 DEF Line
  <2>3. CASE i # j
    <3>1. Stage("init", num', i) = Stage("init", num, i)
      BY <1>1, <1>2, <1>3, <2>3 DEF Stage
    <3>2. up'[clifds[i]] = up[clifds[i]] /\ down'[clifds[i]] = down[clifds[i]]
      BY <1>1, <1>3, <1>5, <2>3
    <3>3. QED
      BY <2>1, <3>1, <3>2
  <2>4. QED
    BY <2>2, <2>3
<1>10. \A q \in Clients : ~Accepted(q) => up'[q] = up[q] /\ down'[q] = down[q]
  BY <1>1, <1>3, <1>5
<1>11. num' \in 0..clients_limit
  BY <1>1, <1>2, <1>3
<1>12. QED
  BY <1>1, <1>5, <1>6, <1>7, <1>8, <1>9, <1>10, <1>11, ServerFrame

(* A client is sent its task.                                              *)
LEMMA SendTaskKeeps ==
  ASSUME IInv, UNCHANGED rigid, S_SendTask
  PROVE  IInv'
<1>1. /\ pc[Server] = "send" /\ num < clients_limit /\ num' = num + 1
      /\ UNCHANGED <<pc, backlog, clifds, up, result>>
      /\ UNCHANGED <<num_threads, clients_limit, faults>>
      /\ Live /\ ServerInv /\ ResultInv /\ ClientsInv /\ TypeInv
      /\ Len(clifds) = clients_limit
      /\ task_b = LastPart(num)
  BY RigidFacts DEF S_SendTask, IInv, Live, ServerInv
<1>2. PICK j, c : j = num + 1 /\ c = clifds[j]
  OBVIOUS
<1>3. /\ j \in 1..Len(clifds) /\ j \in 0..clients_limit /\ c \in Clients
      /\ Accepted(c) /\ LineOf(j) /\ num \in Nat /\ j - 1 = num
      /\ \A i \in 1..Len(clifds) :
           /\ clifds[i] \in Clients
           /\ i # j => clifds[i] # c /\ (i <= num <=> i <= j)
  BY <1>1, <1>2, Turn
<1>4. /\ task_b' = LastPart(j)
      /\ down' = [down EXCEPT ![c] = Append(down[c], Task(j - 1))]
  <2>1. LastPart(num + 1) = LastPart(num) + NumLocalThreads(num)
    BY <1>1, <1>3, PartFacts
  <2>2. /\ task_b' = task_b + NumLocalThreads(num)
        /\ down' = [down EXCEPT ![c] =
                      Append(down[c], [a |-> task_b,
                                       b |-> task_b + NumLocalThreads(num)])]
    BY <1>2 DEF S_SendTask
  <2>3. Task(j - 1) = [a |-> LastPart(num), b |-> LastPart(num + 1)]
    BY <1>3 DEF Task
  <2>4. QED
    BY <1>1, <1>2, <2>1, <2>2, <2>3
<1>5. /\ down' = [q \in Clients |-> down'[q]]
      /\ down'[c] = Append(down[c], Task(j - 1))
      /\ \A q \in Clients \ {c} : down'[q] = down[q]
  BY <1>1, <1>3, <1>4 DEF TypeInv
<1>6. /\ pc = [pc EXCEPT ![Server] = "send"]
      /\ "send" \in ServerAt /\ up' = [q \in Clients |-> up'[q]]
  BY <1>1 DEF TypeInv, ServerAt
<1>7. ServerInv'
  <2>1. LastPart(num)' = LastPart(j)
    BY <1>1, <1>2 DEF LastPart, num_full_threads, num_extra_threads
  <2>2. Zero' = Zero
    BY RigidFacts
  <2>3. QED
    BY <1>1, <1>4, <2>1, <2>2 DEF ServerInv
<1>8. ResultInv'
  BY <1>1 DEF ResultInv
<1>9. ASSUME NEW i \in 1..Len(clifds)
      PROVE  Line(Stage("send", num', i), Task(i - 1),
                  HpcIntegral(Task(i - 1)), pc[clifds[i]],
                  up'[clifds[i]], down'[clifds[i]])
  <2>1. Line(Stage("send", num, i), Task(i - 1), HpcIntegral(Task(i - 1)),
             pc[clifds[i]], up[clifds[i]], down[clifds[i]])
    BY <1>1 DEF ClientsInv, LineOf
  <2>2. CASE i = j
    <3>1. Stage("send", num, i) = "read" /\ Stage("send", num', i) = "sent"
      BY <1>1, <1>2, <1>3, <2>2 DEF Stage
    <3>2. /\ up[c] = <<>> /\ pc[c] \notin Silent /\ down[c] = <<>>
          /\ pc[c] # "calc"
      BY <1>2, <2>1, <2>2, <3>1 DEF Line
    <3>3. down'[c] = <<Task(j - 1)>>
      BY <1>5, <3>2, Singletons
    <3>4. QED
      BY <1>1, <1>2, <2>2, <3>1, <3>2, <3>3 DEF Line
  <2>3. CASE i # j
    <3>1. Stage("send", num', i) = Stage("send", num, i)
      BY <1>1, <1>2, <1>3, <2>3 DEF Stage
    <3>2. up'[clifds[i]] = up[clifds[i]] /\ down'[clifds[i]] = down[clifds[i]]
      BY <1>1, <1>3, <1>5, <2>3
    <3>3. QED
      BY <2>1, <3>1, <3>2
  <2>4. QED
    BY <2>2, <2>3
<1>10. \A q \in Clients : ~Accepted(q) => up'[q] = up[q] /\ down'[q] = down[q]
  BY <1>1, <1>3, <1>5
<1>11. num' \in 0..clients_limit
  BY <1>1, <1>2, <1>3
<1>12. QED
  BY <1>1, <1>5, <1>6, <1>7, <1>8, <1>9, <1>10, <1>11, ServerFrame
-----------------------------------------------------------------------------
(* The server's own task begins the sum, and each answer adds its parts.   *)
LEMMA FirstSum ==
  ASSUME TypeInv
  PROVE  /\ num_full_threads = 0 => Zero = Summed(0)
         /\ Integral([a |-> LastPart(clients_limit),
                      b |-> LastPart(clients_limit) + num_full_threads])
              = Summed(0)
<1>1. PICK l \in Nat :
        /\ l = LastPart(clients_limit) /\ num_threads = l + num_full_threads
        /\ num_full_threads \in Nat
  <2>1. clients_limit \in Nat
    BY DEF TypeInv
  <2>2. QED
    BY <2>1, PartFacts
<1>2. /\ \A p \in Parts : p \in 1..num_threads /\ ~(p <= 0)
      /\ num_threads \in Nat
  BY DEF Parts, TypeInv
<1>3. Summed(0) = [p \in Parts |-> IF p > l THEN 1 ELSE 0]
  <2>1. LastPart(0) = 0
    BY PartFacts
  <2>2. QED
    BY <1>1, <1>2, <2>1 DEF Summed
<1>4. ASSUME num_full_threads = 0 PROVE Zero = Summed(0)
  <2>1. \A p \in Parts : ~(p > l)
    BY <1>1, <1>2, <1>4
  <2>2. QED
    BY <1>3, <2>1 DEF Zero
<1>5. Integral([a |-> l, b |-> l + num_full_threads]) = Summed(0)
  <2>1. \A p \in Parts : p <= l + num_full_threads
    BY <1>1, <1>2
  <2>2. QED
    BY <1>3, <2>1 DEF Integral
<1>6. QED
  BY <1>1, <1>4, <1>5

LEMMA NextSum ==
  ASSUME TypeInv, NEW k \in Nat, k < clients_limit
  PROVE  [p \in Parts |-> Summed(k)[p] + Integral(Task(k))[p]] = Summed(k + 1)
<1>1. /\ clients_limit \in Nat /\ k + 1 \in Nat
      /\ k \in 0..clients_limit /\ k + 1 \in 0..clients_limit
  BY DEF TypeInv
<1>2. PICK x \in Nat, y \in Nat, l \in Nat :
        /\ x = LastPart(k) /\ y = LastPart(k + 1)
        /\ l = LastPart(clients_limit)
        /\ x <= y /\ y <= l
  <2>1. /\ LastPart(k) \in Nat /\ LastPart(k + 1) \in Nat
        /\ LastPart(clients_limit) \in Nat /\ NumLocalThreads(k) \in Nat
        /\ LastPart(k + 1) = LastPart(k) + NumLocalThreads(k)
        /\ LastPart(k + 1) <= LastPart(clients_limit)
    BY <1>1, PartFacts
  <2>2. LastPart(k) <= LastPart(k + 1)
    BY <2>1
  <2>3. QED
    BY <2>1, <2>2
<1>3. ASSUME NEW p \in Parts
      PROVE  Summed(k)[p] + Integral(Task(k))[p] = Summed(k + 1)[p]
  <2>1. /\ Summed(k)[p] = IF p <= x \/ p > l THEN 1 ELSE 0
        /\ Integral(Task(k))[p] = IF p > x /\ p <= y THEN 1 ELSE 0
        /\ Summed(k + 1)[p] = IF p <= y \/ p > l THEN 1 ELSE 0
    BY <1>2 DEF Summed, Integral, Task
  <2>2. p \in Int
    BY DEF Parts
  <2>3. QED
    BY <1>2, <2>1, <2>2
<1>4. Summed(k + 1) = [p \in Parts |-> Summed(k + 1)[p]]
  BY DEF Summed
<1>5. QED
  BY <1>3, <1>4

(* The server computes its own task.                                       *)
LEMMA CalcKeeps ==
  ASSUME IInv, UNCHANGED rigid, S_Calc
  PROVE  IInv'
<1>1. /\ pc[Server] = "calc" /\ num' = 0
      /\ UNCHANGED <<backlog, clifds, up, down>>
      /\ UNCHANGED <<num_threads, clients_limit, faults>>
      /\ Live /\ ServerInv /\ ClientsInv /\ TypeInv
      /\ Len(clifds) = clients_limit /\ result = Zero
      /\ task_b = LastPart(clients_limit)
  BY RigidFacts DEF S_Calc, Goto, net, IInv, Live, ServerInv, Ended
<1>2. PICK to \in {"failed", "collect"} : pc' = [pc EXCEPT ![Server] = to]
  BY DEF S_Calc, Goto
<1>3. to \in ServerAt /\ pc'[Server] = to
  BY <1>1, <1>2, GotoEffect DEF ServerAt, Ended, Procs
<1>4. /\ up' = [q \in Clients |-> up'[q]]
      /\ down' = [q \in Clients |-> down'[q]] /\ num' \in 0..clients_limit
  BY <1>1 DEF TypeInv
<1>5. "alloc" \notin faults => result' \in {NAN, Summed(0)}
  <2>1. SUFFICES ASSUME "alloc" \notin faults
                 PROVE  result' \in {NAN, Summed(0)}
    OBVIOUS
  <2>2. CASE num_full_threads = 0
    BY <1>1, <2>2, FirstSum DEF S_Calc
  <2>3. CASE num_full_threads # 0
    <3>1. result' \in HpcIntegral([a |-> LastPart(clients_limit),
                           b |-> LastPart(clients_limit) + num_full_threads])
      BY <1>1, <2>3 DEF S_Calc
    <3>2. QED
      BY <1>1, <2>1, <3>1, FirstSum DEF HpcIntegral
  <2>4. QED
    BY <2>2, <2>3
<1>6. ASSUME Live'
      PROVE  /\ ServerInv' /\ ResultInv'
             /\ \A i \in 1..Len(clifds) :
                  Line(Stage(to, num', i), Task(i - 1),
                       HpcIntegral(Task(i - 1)), pc[clifds[i]],
                       up'[clifds[i]], down'[clifds[i]])
  <2>1. to = "collect"
    BY <1>3, <1>6 DEF Live
  <2>2. ServerInv'
    BY <1>1, <1>3, <2>1 DEF ServerInv
  <2>3. ResultInv'
    <3>1. Summed(num)' = Summed(0)
      BY <1>1 DEF Summed, LastPart, num_full_threads, num_extra_threads, Parts
    <3>2. NAN' = NAN
      BY RigidFacts
    <3>3. QED
      BY <1>1, <1>5, <3>1, <3>2 DEF ResultInv
  <2>4. ASSUME NEW i \in 1..Len(clifds)
        PROVE  Line(Stage(to, num', i), Task(i - 1),
                    HpcIntegral(Task(i - 1)), pc[clifds[i]],
                    up'[clifds[i]], down'[clifds[i]])
    <3>1. LineOf(i)
      BY <1>1 DEF ClientsInv
    <3>2. Stage(to, num', i) = "sent" /\ Stage(pc[Server], num, i) = "sent"
      BY <1>1, <2>1 DEF Stage, TypeInv
    <3>3. QED
      BY <1>1, <3>1, <3>2 DEF LineOf
  <2>5. QED
    BY <2>2, <2>3, <2>4
<1>7. QED
  BY <1>1, <1>2, <1>3, <1>4, <1>6, ServerFrame

(* The answer of the client whose turn it is is added.                     *)
LEMMA CollectKeeps ==
  ASSUME IInv, UNCHANGED rigid, S_Collect
  PROVE  IInv'
<1>1. /\ pc[Server] = "collect" /\ num < clients_limit /\ num' = num + 1
      /\ UNCHANGED <<pc, backlog, clifds, down, task_b>>
      /\ UNCHANGED <<num_threads, clients_limit, faults>>
      /\ Live /\ ServerInv /\ ResultInv /\ ClientsInv /\ TypeInv
      /\ Len(clifds) = clients_limit
  BY RigidFacts DEF S_Collect, IInv, Live, ServerInv
<1>2. PICK j, c : j = num + 1 /\ c = clifds[j]
  OBVIOUS
<1>3. /\ j \in 1..Len(clifds) /\ j \in 0..clients_limit /\ c \in Clients
      /\ Accepted(c) /\ LineOf(j) /\ num \in Nat /\ j - 1 = num
      /\ \A i \in 1..Len(clifds) :
           /\ clifds[i] \in Clients
           /\ i # j => clifds[i] # c /\ (i <= num <=> i <= j)
  BY <1>1, <1>2, Turn
<1>4. /\ up[c] # <<>> /\ up' = [up EXCEPT ![c] = Tail(up[c])]
      /\ result' = Add(result, Head(up[c]))
  BY <1>2 DEF S_Collect
<1>5. /\ up' = [q \in Clients |-> up'[q]] /\ up'[c] = Tail(up[c])
      /\ \A q \in Clients \ {c} : up'[q] = up[q]
  BY <1>1, <1>3, <1>4 DEF TypeInv
<1>6. /\ pc = [pc EXCEPT ![Server] = "collect"]
      /\ "collect" \in ServerAt /\ down' = [q \in Clients |-> down'[q]]
  BY <1>1 DEF TypeInv, ServerAt
<1>7. PICK res \in HpcIntegral(Task(num)) :
        /\ up[c] = <<res>> /\ pc[c] \in Ended
        /\ Task(num).a # Task(num).b /\ down[c] = <<Task(num)>>
  <2>1. Stage("collect", num, j) = "sent"
    BY <1>2, <1>3 DEF Stage
  <2>2. Line("sent", Task(num), HpcIntegral(Task(num)), pc[c], up[c], down[c])
    BY <1>1, <1>2, <1>3, <2>1 DEF LineOf
  <2>3. QED
    BY <1>4, <2>2 DEF Line
<1>8. ServerInv'
  BY <1>1 DEF ServerInv, Ended
<1>9. ResultInv'
  <2>1. /\ Summed(num)' = Summed(num + 1)
        /\ NAN' = NAN /\ \A k : Task(k)' = Task(k)
    BY <1>1, RigidFacts
       DEF Summed, LastPart, num_full_threads, num_extra_threads, Parts
  <2>2. ASSUME "alloc" \notin faults PROVE result' \in {NAN, Summed(num + 1)}
    <3>1. result \in {NAN, Summed(num)} /\ res \in {NAN, Integral(Task(num))}
      BY <1>1, <1>7, <2>2 DEF ResultInv, HpcIntegral
    <3>2. result' = Add(result, res)
      BY <1>4, <1>7, Singletons
    <3>3. CASE result = NAN \/ res = NAN
      BY <3>2, <3>3 DEF Add
    <3>4. CASE result # NAN /\ res # NAN
      <4>1. result' = [p \in Parts |-> Summed(num)[p] + Integral(Task(num))[p]]
        BY <3>1, <3>2, <3>4 DEF Add
      <4>2. QED
        BY <1>1, <1>3, <4>1, NextSum
    <3>5. QED
      BY <3>3, <3>4
  <2>3. ASSUME NEW k \in 0..num PROVE Task(k).a # Task(k).b
    <3>1. k = num \/ k \in 0..num - 1
      BY <1>3
    <3>2. QED
      BY <1>1, <1>7, <3>1 DEF ResultInv
  <2>4. num' - 1 = num
    BY <1>1, <1>3
  <2>5. QED
    BY <1>1, <2>1, <2>2, <2>3, <2>4 DEF ResultInv
<1>10. ASSUME NEW i \in 1..Len(clifds)
      PROVE  Line(Stage("collect", num', i), Task(i - 1),
                  HpcIntegral(Task(i - 1)), pc[clifds[i]],
                  up'[clifds[i]], down'[clifds[i]])
  <2>1. Line(Stage("collect", num, i), Task(i - 1), HpcIntegral(Task(i - 1)),
             pc[clifds[i]], up[clifds[i]], down[clifds[i]])
    BY <1>1 DEF ClientsInv, LineOf
  <2>2. CASE i = j
    <3>1. Stage("collect", num', i) = "added"
      BY <1>1, <1>2, <1>3, <2>2 DEF Stage
    <3>2. /\ down'[c] = <<Task(i - 1)>>
          /\ pc[c] \notin Silent /\ pc[c] # "calc"
      BY <1>1, <1>3, <1>7, <2>2 DEF Silent, Ended
    <3>3. QED
      BY <1>2, <2>2, <3>1, <3>2 DEF Line
  <2>3. CASE i # j
    <3>1. Stage("collect", num', i) = Stage("collect", num, i)
      BY <1>1, <1>2, <1>3, <2>3 DEF Stage
    <3>2. up'[clifds[i]] = up[clifds[i]] /\ down'[clifds[i]] = down[clifds[i]]
      BY <1>1, <1>3, <1>5, <2>3
    <3>3. QED
      BY <2>1, <3>1, <3>2
  <2>4. QED
    BY <2>2, <2>3
<1>11. \A q \in Clients : ~Accepted(q) => up'[q] = up[q] /\ down'[q] = down[q]
  BY <1>1, <1>3, <1>5
<1>12. num' \in 0..clients_limit
  BY <1>1, <1>2, <1>3
<1>13. QED
  BY <1>1, <1>5, <1>6, <1>8, <1>9, <1>10, <1>11, <1>12, ServerFrame
-----------------------------------------------------------------------------
LEMMA InitInv == Init => IInv
<1>1. SUFFICES ASSUME Init PROVE IInv
  OBVIOUS
<1>2. /\ pc[Server] = "listen" /\ \A c \in Clients : pc[c] = "bind"
      /\ pc \in [Procs -> {"listen", "bind"}]
      /\ Len(clifds) = 0 /\ Len(backlog) = 0
      /\ clifds \in Seq(Clients) /\ backlog \in Seq(Clients)
  BY <1>1 DEF Init, Procs
<1>3. num_threads \in Nat \ {0} /\ clients_limit \in Nat /\ num = 0
  <2>1. Cardinality(Clients) \in Nat
    BY FS_CardinalityType
  <2>2. QED
    BY <1>1, <2>1 DEF Init
<1>4. TypeInv
  BY <1>1, <1>2, <1>3 DEF Init, TypeInv, ServerAt, ClientAt
<1>5. OrderInv
  BY <1>2 DEF OrderInv
<1>6. ServerInv /\ ResultInv
  BY <1>1, <1>2 DEF Init, ServerInv, ResultInv, Ended
<1>7. ClientsInv
  BY <1>1, <1>2 DEF Init, ClientsInv, Alone
<1>8. QED
  BY <1>4, <1>5, <1>6, <1>7 DEF IInv

LEMMA NextInv == IInv /\ [Next]_vars => IInv'
<1>1. SUFFICES ASSUME IInv, [Next]_vars PROVE IInv'
  OBVIOUS
<1>2. CASE ServerStep
  BY <1>1, <1>2, ServerQuiet, BroadcastKeeps, AcceptKeeps, ReadCpuKeeps,
     SendTaskKeeps, CalcKeeps, CollectKeeps
     DEF ServerStep
<1>3. ASSUME NEW c \in Clients, ClientStep(c) PROVE IInv'
  BY <1>1, <1>3, ClientQuiet, SendCpuKeeps, AnswerKeeps DEF ClientStep
<1>4. ASSUME NEW p \in Procs, Die(p), UNCHANGED rigid PROVE IInv'
  BY <1>1, <1>4, ClientQuiet, ServerQuiet DEF Procs
<1>5. CASE UNCHANGED vars
  <2>1. /\ UNCHANGED <<pc, backlog, clifds, up, down, num, task_b, result>>
        /\ UNCHANGED rigid /\ UNCHANGED <<faults, num_threads, clients_limit>>
    BY <1>5 DEF vars, net, rigid
  <2>2. TypeInv' /\ OrderInv' /\ (Live' <=> Live)
    BY <1>1, <2>1 DEF IInv, TypeInv, OrderInv, Live
  <2>3. (ServerInv' <=> ServerInv) /\ (ResultInv' <=> ResultInv)
    BY <2>1, RigidFacts
       DEF ServerInv, ResultInv, Summed, Task, LastPart, num_full_threads,
           num_extra_threads, Parts
  <2>4. ClientsInv' <=> ClientsInv
    <3>1. \A i : LineOf(i)' <=> LineOf(i)
      BY <2>1, RigidFacts DEF LineOf
    <3>2. QED
      BY <2>1, <3>1 DEF ClientsInv, Accepted
  <2>5. QED
    BY <1>1, <2>2, <2>3, <2>4 DEF IInv
<1>6. QED
  BY <1>1, <1>2, <1>3, <1>4, <1>5 DEF Next

(* What a client has been sent is the task that follows those of the       *)
(* clients accepted before it, what it has sent is the answer to that, and *)
(* the server's result is the sum of the tasks whose answers it has read.  *)
THEOREM InductiveInvariant == Spec => []IInv
<1>1. Init => IInv
  BY InitInv
<1>2. IInv /\ [Next]_vars => IInv'
  BY NextInv
<1>3. QED
  BY <1>1, <1>2, PTL DEF Spec

(* A server that prints a result has added every part of the interval      *)
(* exactly once, or NAN, for every number of threads and of clients,       *)
(* unless a process was short of memory, where hpcIntegral returns -1.     *)
THEOREM WholeResult == Spec => []ResultIsWhole
<1>1. IInv => ResultIsWhole
  <2>1. SUFFICES ASSUME IInv, pc[Server] = "done", "alloc" \notin faults
                 PROVE  result \in {NAN, [p \in Parts |-> 1]}
    BY DEF ResultIsWhole
  <2>2. /\ result \in {NAN, Summed(num)} /\ num = clients_limit
        /\ clients_limit \in Nat /\ TypeInv
    BY <2>1 DEF IInv, Live, ServerInv, ResultInv, TypeInv
  <2>3. ASSUME NEW p \in Parts
        PROVE  p <= LastPart(clients_limit) \/ p > LastPart(clients_limit)
    <3>1. LastPart(clients_limit) \in Nat /\ p \in Int
      BY <2>2, PartFacts DEF Parts
    <3>2. QED
      BY <3>1
  <2>4. Summed(clients_limit) = [p \in Parts |-> 1]
    BY <2>3 DEF Summed
  <2>5. QED
    BY <2>2, <2>4
<1>2. QED
  BY <1>1, InductiveInvariant, PTL

(* With fewer threads than clients the server never prints a result: a     *)
(* client that gets no threads does not answer (line 541), and the server  *)
(* waits for every answer (line 612).                                      *)
THEOREM IdleClient == Spec => []IdleClientFailsAll
<1>1. IInv => IdleClientFailsAll
  <2>1. SUFFICES ASSUME IInv, num_threads < clients_limit, pc[Server] = "done"
                 PROVE  FALSE
    BY DEF IdleClientFailsAll
  <2>2. /\ TypeInv /\ num = clients_limit /\ clients_limit \in Nat
        /\ num_threads \in Nat \ {0}
        /\ \A k \in 0..num - 1 : Task(k).a # Task(k).b
    BY <2>1 DEF IInv, Live, ServerInv, ResultInv, TypeInv
  <2>3. /\ clients_limit - 1 \in 0..num - 1
        /\ clients_limit - 1 + 1 = clients_limit
    BY <2>1, <2>2
  <2>4. Task(clients_limit - 1).a = Task(clients_limit - 1).b
    BY <2>1, <2>2, <2>3, PartFacts DEF Task
  <2>5. QED
    BY <2>2, <2>3, <2>4
<1>2. QED
  BY <1>1, InductiveInvariant, PTL
=============================================================================
