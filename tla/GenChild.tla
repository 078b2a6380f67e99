------------------------------ MODULE GenChild ------------------------------
(***************************************************************************)
(* GenChildPrnt1_n/main.cpp: a parent forks numberChilds children, which   *)
(* share its standard output and have to print 1, 2, ... in order.  The    *)
(* turn is a message of a System V queue: child i waits for a message of   *)
(* type i - 1 and sends one of type i, child 1 does not wait, the parent   *)
(* waits for the last one, ends the line and removes the queue.            *)
(*                                                                         *)
(* Each type is sent at most once, so the queue is the set of the types in *)
(* it.                                                                     *)
(***************************************************************************)
EXTENDS Integers, Sequences

CONSTANTS
  numberChilds,   \* the argument; nothing refuses a number below 1
  Faults          \* a subset of FaultKinds

FaultKinds == {"fork",    \* fork() fails
               "kill"}    \* a process is killed

ASSUME NumberAssumption == numberChilds \in Int
ASSUME FaultsAssumption == Faults \subseteq FaultKinds

Children == 1..numberChilds
Parent == 0
EndOfLine == 0      \* how the parent's "\n" stands in the output

VARIABLES
  faults,     \* what may go wrong in this run: it does not change
  pc,         \* where each process is
  forked,     \* how many children there are
  queue,      \* the types of the messages in the queue
  queueAlive, \* the queue exists
  out         \* the standard output

vars == <<faults, pc, forked, queue, queueAlive, out>>

Ended == {"done", "failed", "killed"}

Init ==
  /\ faults \in SUBSET Faults
  /\ pc = [p \in Children \cup {Parent} |->
             IF p = Parent THEN "fork" ELSE "unborn"]
  /\ forked = 0
  /\ queue = {}
  /\ queueAlive = TRUE
  /\ out = <<>>

Goto(p, from, to) == pc[p] = from /\ pc' = [pc EXCEPT ![p] = to]

-----------------------------------------------------------------------------
(* Every child waits.                                                      *)
ForkAllWait ==
  /\ pc[Parent] = "fork"
  /\ forked < numberChilds
  /\ forked' = forked + 1
  /\ pc' = [pc EXCEPT ![forked + 1] = "recv"]
  /\ UNCHANGED <<faults, queue, queueAlive, out>>

(* The loop of forks.  Child 1 goes straight to its printf.                *)
Fork ==
  /\ pc[Parent] = "fork"
  /\ forked < numberChilds
  /\ forked' = forked + 1
  /\ pc' = [pc EXCEPT ![forked + 1] = IF forked = 0 THEN "print" ELSE "recv"]
  /\ UNCHANGED <<faults, queue, queueAlive, out>>

(* The parent returns at once: nobody will remove the queue.               *)
ForkFails ==
  /\ "fork" \in faults
  /\ forked < numberChilds
  /\ Goto(Parent, "fork", "failed")
  /\ UNCHANGED <<faults, forked, queue, queueAlive, out>>

AllForked ==
  /\ forked >= numberChilds
  /\ Goto(Parent, "fork", IF numberChilds > 0 THEN "recv" ELSE "newline")
  /\ UNCHANGED <<faults, forked, queue, queueAlive, out>>

(* msgrcv without a type: any message will do.                             *)
ReceiveAny(i) ==
  /\ queueAlive
  /\ Goto(i, "recv", "print")
  /\ \E m \in queue : queue' = queue \ {m}
  /\ UNCHANGED <<faults, forked, queueAlive, out>>

(* msgrcv (msqid, &msgBuf, 0, number - 1, 0).  That a removed queue fails  *)
(* here or in msgsnd is left out: RemovedQueueIsUnused shows that no child *)
(* meets it.                                                               *)
Receive(i) ==
  /\ queueAlive
  /\ i - 1 \in queue
  /\ Goto(i, "recv", "print")
  /\ queue' = queue \ {i - 1}
  /\ UNCHANGED <<faults, forked, queueAlive, out>>

PrintNumber(i) ==
  /\ Goto(i, "print", "send")
  /\ out' = Append(out, i)
  /\ UNCHANGED <<faults, forked, queue, queueAlive>>

Send(i) ==
  /\ queueAlive
  /\ Goto(i, "send", "done")
  /\ queue' = queue \cup {i}
  /\ UNCHANGED <<faults, forked, queueAlive, out>>

(* The parent waits for the first child's message.                         *)
ParentReceiveFirst ==
  /\ 1 \in queue
  /\ Goto(Parent, "recv", "newline")
  /\ queue' = queue \ {1}
  /\ UNCHANGED <<faults, forked, queueAlive, out>>

ParentReceive ==
  /\ numberChilds \in queue
  /\ Goto(Parent, "recv", "newline")
  /\ queue' = queue \ {numberChilds}
  /\ UNCHANGED <<faults, forked, queueAlive, out>>

Newline ==
  /\ Goto(Parent, "newline", "remove")
  /\ out' = Append(out, EndOfLine)
  /\ UNCHANGED <<faults, forked, queue, queueAlive>>

(* msgctl (msqid, IPC_RMID, nullptr)                                       *)
RemoveQueue ==
  /\ Goto(Parent, "remove", "done")
  /\ queueAlive' = FALSE
  /\ queue' = {}
  /\ UNCHANGED <<faults, forked, out>>

Kill(p) ==
  /\ "kill" \in faults
  /\ pc[p] \notin Ended \cup {"unborn"}
  /\ pc' = [pc EXCEPT ![p] = "killed"]
  /\ UNCHANGED <<faults, forked, queue, queueAlive, out>>

-----------------------------------------------------------------------------
ParentStep ==
  Fork \/ ForkFails \/ AllForked \/ ParentReceive \/ Newline \/ RemoveQueue
ChildStep(i) == Receive(i) \/ PrintNumber(i) \/ Send(i)

Stopped ==
  /\ \A p \in Children \cup {Parent} : pc[p] \in Ended \cup {"unborn"}
  /\ UNCHANGED vars

Next ==
  \/ ParentStep
  \/ \E i \in Children : ChildStep(i)
  \/ \E p \in Children \cup {Parent} : Kill(p)
  \/ Stopped

Spec == Init /\ [][Next]_vars

(* Every process runs until it ends.                                       *)
FairSpec ==
  /\ Spec
  /\ WF_vars(ParentStep)
  /\ \A i \in Children : WF_vars(ChildStep(i))

-----------------------------------------------------------------------------
TypeOK ==
  /\ faults \subseteq Faults
  /\ pc \in [Children \cup {Parent} ->
               {"fork", "unborn", "recv", "print", "send", "newline",
                "remove"} \cup Ended]
  /\ forked \in Nat /\ (forked = 0 \/ forked <= numberChilds)
  /\ queue \subseteq Children
  /\ queueAlive \in BOOLEAN
  /\ out \in Seq(Children \cup {EndOfLine})

(* Whoever is killed and whichever fork fails, the output is 1, 2, ... and *)
(* the line ends, if it ends, after the last number.                       *)
OutputInOrder ==
  \A k \in 1..Len(out) :
    \/ out[k] = k
    \/ out[k] = EndOfLine /\ k = Len(out) /\ k > numberChilds

(* The turn is never with two: of the processes that may print and the     *)
(* messages on their way there is at most one (stdout is shared, line 48). *)
OneTurn ==
  LET Holders == {p \in Children \cup {Parent} :
                    pc[p] \in {"print", "send", "newline"}} IN
  /\ \A p, q \in Holders : p = q
  /\ \A m, n \in queue : m = n
  /\ Holders = {} \/ queue = {}

(* The queue is removed when nobody can need it any more: every child has  *)
(* ended and no message is left, whoever was killed.                       *)
RemovedQueueIsUnused ==
  (pc[Parent] = "remove" \/ ~queueAlive) =>
     /\ queue = {}
     /\ \A i \in Children : pc[i] \in {"done", "killed"}

(* Where nothing fails, all the numbers are printed, the line is ended and *)
(* the queue removed.                                                      *)
AllPrinted ==
  faults = {} =>
    <>[](/\ pc[Parent] = "done" /\ ~queueAlive
         /\ Len(out) = numberChilds + 1)
=============================================================================
