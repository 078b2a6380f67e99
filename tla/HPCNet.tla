------------------------------- MODULE HPCNet -------------------------------
(***************************************************************************)
(* HPC.Net: a server divides an integral among itself and clients_limit    *)
(* clients.  It broadcasts its address once (UDP), accepts the clients     *)
(* (TCP, at most CHECK_TIMEOUT seconds for each), reads the number of CPUs *)
(* of each, sends each a task, computes its own, and adds up the answers,  *)
(* always in the order in which it accepted.                               *)
(*                                                                         *)
(* The interval is cut into num_threads parts of equal length, numbered    *)
(* from 1; a task is a run of parts and a result says how many times each  *)
(* part was integrated.  readn and writen transfer whole messages.         *)
(***************************************************************************)
EXTENDS Integers, Sequences, FiniteSets

CONSTANTS
  Clients,
  MaxThreads,   \* the largest num_threads
  Server,
  Faults        \* a subset of FaultKinds

FaultKinds == {"loss",   \* a datagram does not reach everybody who listens
               "late",   \* an accept waits CHECK_TIMEOUT for a slow client
               "calc",   \* hpcIntegral returns NAN
               "alloc",  \* hpcIntegral returns -1, as HPCIntegral says it may
               "die"}    \* a process is killed, or a call of its own fails

ASSUME SizesAssumption == MaxThreads \in Nat \ {0} /\ IsFiniteSet(Clients)
ASSUME ServerAssumption == Server \notin Clients
ASSUME FaultsAssumption == Faults \subseteq FaultKinds

VARIABLES
  faults,         \* what may go wrong in this run, and the arguments of the
  num_threads,    \* server: they do not change
  clients_limit,
  pc,             \* where each process is
  backlog,        \* the clients connected and not yet accepted
  clifds,         \* the clients accepted, in order
  num,            \* numcli: how many of them the current loop has served
  task_b,         \* the last part that has been given to somebody
  up, down,       \* what each client has sent and has been sent, unread
  result          \* of the server: how often each part was added

rigid == <<faults, num_threads, clients_limit>>
net == <<backlog, clifds, up, down>>
vars == <<rigid, pc, net, num, task_b, result>>

Ended == {"done", "failed", "killed"}
Procs == Clients \cup {Server}
Parts == 1..num_threads
Zero == [p \in Parts |-> 0]
NAN == [p \in Parts |-> -1]        \* absorbs what is added to it
MinusOne == [p \in Parts |-> 10]   \* a number like any other

Init ==
  /\ faults \in SUBSET Faults
  /\ num_threads \in 1..MaxThreads
  /\ clients_limit \in 0..Cardinality(Clients)
  /\ pc = [p \in Procs |-> IF p = Server THEN "listen" ELSE "bind"]
  /\ backlog = <<>> /\ clifds = <<>>
  /\ num = 0 /\ task_b = 0
  /\ up = [c \in Clients |-> <<>>] /\ down = [c \in Clients |-> <<>>]
  /\ result = Zero

Goto(p, from, to) == pc[p] = from /\ pc' = [pc EXCEPT ![p] = to]

(* A run of parts, integrated, and what else hpcIntegral may return.       *)
Integral(task) ==
  [p \in Parts |-> IF p > task.a /\ p <= task.b THEN 1 ELSE 0]

HpcIntegral(task) ==
  {Integral(task)} \cup (IF "calc" \in faults THEN {NAN} ELSE {})
                  \cup (IF "alloc" \in faults THEN {MinusOne} ELSE {})

Add(x, y) == IF NAN \in {x, y} THEN NAN ELSE [p \in Parts |-> x[p] + y[p]]

-----------------------------------------------------------------------------
(* A client: StartClient and hpcnetStartComputeUnit                        *)

(* It hears the broadcast only from here on.                               *)
C_Bind(c) ==
  /\ Goto(c, "bind", "recvfrom")
  /\ UNCHANGED <<net, num, task_b, result>>

C_Connect(c) ==
  /\ pc[Server] \notin Ended
  /\ Len(backlog) <= clients_limit      \* else the SYN is dropped and sent again
  /\ Goto(c, "connect", "sendCpu")
  /\ backlog' = Append(backlog, c)
  /\ UNCHANGED <<clifds, up, down, num, task_b, result>>

C_Refused(c) ==
  /\ pc[Server] \in Ended
  /\ Goto(c, "connect", "failed")
  /\ UNCHANGED <<net, num, task_b, result>>

C_SendCpu(c) ==
  /\ Goto(c, "sendCpu", "readTask")
  /\ up' = [up EXCEPT ![c] = Append(@, "cpu")]
  /\ UNCHANGED <<backlog, clifds, down, num, task_b, result>>

(* A task of no threads is answered like any other.                        *)
C_ReadTaskAnyway(c) ==
  /\ down[c] # <<>>
  /\ Goto(c, "readTask", "calc")
  /\ UNCHANGED <<net, num, task_b, result>>

(* num_threads <= 1: a client with one thread goes without an answer.      *)
C_ReadTaskOne(c) ==
  /\ down[c] # <<>>
  /\ Goto(c, "readTask",
          IF Head(down[c]).b - Head(down[c]).a <= 1 THEN "done" ELSE "calc")
  /\ UNCHANGED <<net, num, task_b, result>>

(* A client that gets a task of no threads closes its socket.              *)
C_ReadTask(c) ==
  /\ down[c] # <<>>
  /\ Goto(c, "readTask",
          IF Head(down[c]).a = Head(down[c]).b THEN "done" ELSE "calc")
  /\ UNCHANGED <<net, num, task_b, result>>

C_Answer(c) ==
  /\ Goto(c, "calc", "done")
  /\ \E res \in HpcIntegral(Head(down[c])) :
       up' = [up EXCEPT ![c] = Append(@, res)]
  /\ UNCHANGED <<backlog, clifds, down, num, task_b, result>>

(* The server has ended: read() fails, and so may write().                 *)
C_ServerGone(c) ==
  /\ pc[Server] \in Ended
  /\ \/ Goto(c, "readTask", "failed") /\ down[c] = <<>>
     \/ \E from \in {"sendCpu", "calc"} : Goto(c, from, "failed")
  /\ UNCHANGED <<net, num, task_b, result>>

-----------------------------------------------------------------------------
(* The server: StartServer, AcceptAndInitClients, InitCompUnits            *)

S_Listen ==
  /\ Goto(Server, "listen", "broadcast")
  /\ UNCHANGED <<net, num, task_b, result>>

(* One datagram: it reaches those who are bound to the port.               *)
S_Broadcast ==
  /\ pc[Server] = "broadcast"
  /\ LET listening == {c \in Clients : pc[c] = "recvfrom"} IN
     \E hearing \in (IF "loss" \in faults THEN SUBSET listening
                                          ELSE {listening}) :
       pc' = [p \in Procs |-> CASE p = Server -> "accept"
                                [] p \in hearing -> "connect"
                                [] OTHER -> pc[p]]
  /\ UNCHANGED <<net, num, task_b, result>>

S_Accept ==
  /\ pc[Server] = "accept"
  /\ Len(clifds) < clients_limit
  /\ backlog # <<>>
  /\ clifds' = Append(clifds, Head(backlog))
  /\ backlog' = Tail(backlog)
  /\ UNCHANGED <<pc, up, down, num, task_b, result>>

(* accept without SO_RCVTIMEO                                              *)
S_AcceptBlocks ==
  /\ FALSE
  /\ Goto(Server, "accept", "failed")
  /\ UNCHANGED <<net, num, task_b, result>>

(* CHECK_TIMEOUT passes where no client is about to connect.               *)
S_AcceptTimesOut ==
  /\ Len(clifds) < clients_limit
  /\ backlog = <<>>
  /\ "late" \in faults \/ \A c \in Clients : pc[c] # "connect"
  /\ Goto(Server, "accept", "failed")
  /\ UNCHANGED <<net, num, task_b, result>>

S_AllAccepted ==
  /\ Len(clifds) = clients_limit
  /\ Goto(Server, "accept", "init")
  /\ num' = 0
  /\ UNCHANGED <<net, task_b, result>>

S_ReadCpu ==
  /\ pc[Server] = "init"
  /\ num < clients_limit
  /\ LET c == clifds[num + 1] IN
     /\ up[c] # <<>>
     /\ up' = [up EXCEPT ![c] = Tail(@)]
  /\ num' = num + 1
  /\ UNCHANGED <<pc, backlog, clifds, down, task_b, result>>

S_AllInit ==
  /\ num = clients_limit
  /\ Goto(Server, "init", "send")
  /\ num' = 0
  /\ UNCHANGED <<net, task_b, result>>

-----------------------------------------------------------------------------
(* hpcnetCalcIntegral                                                      *)

num_full_threads == num_threads \div (clients_limit + 1)
num_extra_threads == num_threads % (clients_limit + 1)

NumLocalThreads(numcli) ==
  num_full_threads + IF numcli < num_extra_threads THEN 1 ELSE 0

(* writen to a client that has ended may work, fail, or raise SIGPIPE.     *)
S_SendTask ==
  /\ pc[Server] = "send"
  /\ num < clients_limit
  /\ LET c == clifds[num + 1]
         b == task_b + NumLocalThreads(num) IN
     /\ task_b' = b
     /\ down' = [down EXCEPT ![c] = Append(@, [a |-> task_b, b |-> b])]
  /\ num' = num + 1
  /\ UNCHANGED <<pc, backlog, clifds, up, result>>

S_AllSent ==
  /\ num = clients_limit
  /\ Goto(Server, "send", "calc")
  /\ UNCHANGED <<net, num, task_b, result>>

(* Its own task, where there is one; isfinite() refuses NAN here, and only *)
(* here: the answers of the clients are not looked at, nor -1 anywhere.    *)
S_Calc ==
  /\ num' = 0
  /\ task_b' = task_b + num_full_threads
  /\ result' \in IF num_full_threads = 0 THEN {result}
                 ELSE HpcIntegral([a |-> task_b, b |-> task_b'])
  /\ Goto(Server, "calc", IF result' = NAN THEN "failed" ELSE "collect")
  /\ UNCHANGED net

(* It reads from the first client as often as there are clients.           *)
S_CollectFirst ==
  /\ pc[Server] = "collect"
  /\ num < clients_limit
  /\ LET c == clifds[1] IN
     /\ up[c] # <<>>
     /\ result' = Add(result, Head(up[c]))
  /\ num' = num + 1
  /\ UNCHANGED <<pc, net, task_b>>

S_Collect ==
  /\ pc[Server] = "collect"
  /\ num < clients_limit
  /\ LET c == clifds[num + 1] IN
     /\ up[c] # <<>>
     /\ result' = Add(result, Head(up[c]))
     /\ up' = [up EXCEPT ![c] = Tail(@)]
  /\ num' = num + 1
  /\ UNCHANGED <<pc, backlog, clifds, down, task_b>>

S_Finish ==
  /\ num = clients_limit
  /\ Goto(Server, "collect", "done")
  /\ UNCHANGED <<net, num, task_b, result>>

(* The client whose turn it is has ended: readn sees the end of the        *)
(* stream, writen may fail.                                                *)
S_ClientGone ==
  /\ num < clients_limit
  /\ \E from \in {"init", "send", "collect"} : Goto(Server, from, "failed")
  /\ LET c == clifds[num + 1] IN
     /\ pc[c] \in Ended
     /\ pc[Server] # "send" => up[c] = <<>>
  /\ UNCHANGED <<net, num, task_b, result>>

-----------------------------------------------------------------------------
Die(p) ==
  /\ "die" \in faults
  /\ pc[p] \notin Ended
  /\ pc' = [pc EXCEPT ![p] = "killed"]
  /\ UNCHANGED <<net, num, task_b, result>>

ClientStep(c) ==
  /\ \/ C_Bind(c) \/ C_Connect(c) \/ C_Refused(c) \/ C_SendCpu(c)
     \/ C_ReadTask(c) \/ C_Answer(c) \/ C_ServerGone(c)
  /\ UNCHANGED rigid

ServerStep ==
  /\ \/ S_Listen \/ S_Broadcast \/ S_Accept \/ S_AcceptTimesOut
     \/ S_AllAccepted \/ S_ReadCpu \/ S_AllInit \/ S_SendTask \/ S_AllSent
     \/ S_Calc \/ S_Collect \/ S_Finish \/ S_ClientGone
  /\ UNCHANGED rigid

Next ==
  \/ ServerStep
  \/ \E c \in Clients : ClientStep(c)
  \/ \E p \in Procs : Die(p) /\ UNCHANGED rigid

Spec == Init /\ [][Next]_vars

(* Every process runs, and an accept ends after CHECK_TIMEOUT at the most. *)
FairSpec ==
  Spec /\ WF_vars(ServerStep) /\ \A c \in Clients : WF_vars(ClientStep(c))

-----------------------------------------------------------------------------
(* A server that prints a result has added every part of the interval      *)
(* exactly once, or NAN, whoever died, came late or had nothing to do,     *)
(* unless it or a client was short of memory and took -1 for an integral.  *)
ResultIsWhole ==
  (pc[Server] = "done" /\ "alloc" \notin faults) =>
     result \in {NAN, [p \in Parts |-> 1]}

(* With fewer threads than clients it never prints one: a client that gets *)
(* no threads does not answer (line 541), and the server waits for every   *)
(* answer (line 612).                                                      *)
IdleClientFailsAll == num_threads < clients_limit => pc[Server] # "done"

(* Where nothing goes wrong, the server succeeds once as many clients as   *)
(* it wants have heard its one broadcast, however they interleave, and     *)
(* even if more clients than that connect.                                 *)
Heard == {c \in Clients : pc[c] \in {"connect", "sendCpu", "readTask"}}

ServerSucceeds ==
  (/\ faults = {} /\ num_threads >= clients_limit
   /\ pc[Server] = "accept" /\ Cardinality(Heard) >= clients_limit)
  ~> pc[Server] = "done"

(* Whatever goes wrong, the server ends, and with it every client that     *)
(* heard of it.                                                            *)
EveryoneEnds ==
  /\ <>(pc[Server] \in Ended)
  /\ \A c \in Clients : pc[c] = "connect" ~> pc[c] \in Ended
=============================================================================
