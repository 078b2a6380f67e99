--------------------------- MODULE GenChildProofs ---------------------------
(***************************************************************************)
(* For every number of children, every fork that fails and every kill: the *)
(* type invariant and the three safety properties of GenChild.             *)
(***************************************************************************)
EXTENDS GenChild, TLAPS

Procs == Children \cup {Parent}
Holds(p) == pc[p] \in {"print", "send", "newline"}

ForkInv ==
  /\ \A i \in Children : pc[i] = "unborn" <=> i > forked
  /\ \A i \in Children : pc[i] \notin {"fork", "newline", "remove"}
  /\ pc[Parent] \notin {"unborn", "print", "send"}
  /\ forked = 0 => queue = {}
  /\ pc[Parent] = "fork" /\ forked = 0 => out = <<>>
  /\ pc[Parent] = "recv" => numberChilds > 0

(* Where the turn is tells how far the output is.                          *)
TurnInv ==
  /\ \A i \in Children : pc[i] = "print" => Len(out) = i - 1
  /\ \A i \in Children : pc[i] = "send" => Len(out) = i
  /\ \A m \in queue : Len(out) = m
  /\ \A p \in Procs : (Holds(p) \/ queue # {}) =>
                       \A k \in 1..Len(out) : out[k] = k
  /\ \A i \in Children :
       i <= Len(out) => pc[i] \in {"send", "done", "killed"}

EndInv ==
  /\ pc[Parent] = "newline" =>
       /\ numberChilds > 0 => Len(out) = numberChilds
       /\ numberChilds <= 0 => Len(out) = 0
  /\ pc[Parent] \in {"newline", "remove", "done"} =>
       /\ queue = {}
       /\ \A i \in Children : pc[i] \in {"done", "killed"}
  /\ ~queueAlive => pc[Parent] = "done"

IInv == /\ TypeOK /\ OutputInOrder /\ OneTurn
          /\ ForkInv /\ TurnInv /\ EndInv

USE NumberAssumption, FaultsAssumption

(* Before the first fork there is no turn to have.                         *)
LEMMA InitInv == Init => IInv
<1> SUFFICES ASSUME Init PROVE IInv
  OBVIOUS
<1>1. TypeOK
  BY DEF Init, Children, Parent, TypeOK, Ended
<1>2. /\ out = <<>> /\ queue = {} /\ queueAlive = TRUE /\ forked = 0
      /\ \A p \in Procs : pc[p] = IF p = Parent THEN "fork" ELSE "unborn"
  BY DEF Init, Procs
<1>3. /\ pc[Parent] = "fork"
      /\ \A i \in Children : pc[i] = "unborn" /\ i > 0
  BY <1>2 DEF Procs, Children, Parent
<1>4. /\ \A p \in Procs : ~Holds(p)
      /\ \A k \in 1..Len(out) : FALSE
      /\ Len(out) = 0
  BY <1>2, <1>3 DEF Holds, Procs
<1>5. OutputInOrder
  BY <1>4 DEF OutputInOrder
<1>6. OneTurn
  BY <1>2, <1>4 DEF OneTurn, Holds, Procs
<1>7. ForkInv
  BY <1>2, <1>3 DEF ForkInv
<1>8. TurnInv
  BY <1>2, <1>3, <1>4 DEF TurnInv, Children
<1>9. EndInv
  BY <1>2, <1>3 DEF EndInv
<1>10. QED
  BY <1>1, <1>5, <1>6, <1>7, <1>8, <1>9 DEF IInv

(* Every step hands the turn on to one process, or loses it for good.      *)
LEMMA NextInv == IInv /\ [Next]_vars => IInv'
<1> SUFFICES ASSUME IInv, [Next]_vars PROVE IInv'
  OBVIOUS
<1>0. OneTurn /\ TurnInv
  BY DEF IInv
<1> USE DEF IInv, TypeOK, OutputInOrder, OneTurn, ForkInv,
            TurnInv, EndInv, Holds, Procs, Children, Parent,
            EndOfLine, Ended, Goto, vars
<1>1. CASE Fork
  BY <1>1 DEF Fork
<1>2. CASE ForkFails
  BY <1>2 DEF ForkFails
<1>3. CASE AllForked
  BY <1>3 DEF AllForked
<1>4. ASSUME NEW i \in Children, Receive(i) PROVE IInv'
  <2>1. /\ pc[i] = "recv" /\ i - 1 \in queue
        /\ pc' = [pc EXCEPT ![i] = "print"] /\ queue' = queue \ {i - 1}
        /\ UNCHANGED <<faults, forked, queueAlive, out>>
    BY <1>4 DEF Receive
  <2>2. queue = {i - 1} /\ queue' = {}
    <3>1. \A m, n \in queue : m = n
      BY DEF OneTurn
    <3> QED BY ONLY <2>1, <3>1
  <2>3. /\ Len(out) = i - 1
        /\ \A p \in Procs : ~Holds(p)
        /\ \A n \in 1..Len(out) : out[n] = n
    BY <2>2
  <2>4. \A p \in Procs : pc'[p] = IF p = i THEN "print" ELSE pc[p]
    BY <2>1
  <2>5. TypeOK' /\ OutputInOrder'
    BY <2>1, <2>2
  <2>6. OneTurn'
    BY <2>2, <2>3, <2>4
  <2>7. ForkInv' /\ EndInv'
    BY <2>1, <2>2, <2>4
  <2>8. TurnInv'
    BY <2>1, <2>2, <2>3, <2>4
  <2> QED BY <2>5, <2>6, <2>7, <2>8
<1>5. ASSUME NEW i \in Children, PrintNumber(i) PROVE IInv'
  <2>1. /\ pc[i] = "print" /\ out' = Append(out, i)
        /\ pc' = [pc EXCEPT ![i] = "send"]
        /\ UNCHANGED <<faults, forked, queue, queueAlive>>
    BY <1>5 DEF PrintNumber
  <2>2. /\ Len(out) = i - 1 /\ queue = {}
        /\ \A p \in Procs : Holds(p) => p = i
        /\ \A n \in 1..Len(out) : out[n] = n
    <3>1. i \in Procs /\ Holds(i)
      BY <2>1
    <3>2. queue = {} /\ \A p \in Procs : Holds(p) => p = i
      BY ONLY <1>0, <3>1 DEF OneTurn, Holds, Procs
    <3>3. Len(out) = i - 1
      BY ONLY <1>0, <1>5, <2>1 DEF TurnInv
    <3>4. \A n \in 1..Len(out) : out[n] = n
      BY ONLY <1>0, <3>1, Zenon DEF TurnInv
    <3> QED BY ONLY <3>2, <3>3, <3>4
  <2>3. out \in Seq(Children \cup {EndOfLine})
    OBVIOUS
  <2>4. /\ out' \in Seq(Children \cup {EndOfLine})
        /\ Len(out') = Len(out) + 1
        /\ \A n \in 1..Len(out) : out'[n] = out[n]
        /\ out'[Len(out) + 1] = i
    BY <2>1, <2>3
  <2>5. Len(out') = i /\ \A n \in 1..i : out'[n] = n
    BY <2>2, <2>4
  <2>6. \A p \in Procs : pc'[p] = IF p = i THEN "send" ELSE pc[p]
    BY <2>1
  <2>7. TypeOK' /\ OutputInOrder'
    BY <2>1, <2>4, <2>5
  <2>8. OneTurn'
    BY <2>1, <2>2, <2>6
  <2>9. ForkInv' /\ EndInv'
    BY <2>1, <2>2, <2>6
  <2>10. TurnInv'
    BY <2>1, <2>2, <2>5, <2>6
  <2> QED BY <2>7, <2>8, <2>9, <2>10
<1>6. ASSUME NEW i \in Children, Send(i) PROVE IInv'
  <2>0. /\ pc[i] = "send" /\ queue' = queue \cup {i}
        /\ pc' = [pc EXCEPT ![i] = "done"] /\ out' = out
        /\ UNCHANGED <<faults, forked, queueAlive>>
    BY <1>6 DEF Send
  <2>1. /\ pc[i] = "send" /\ queue = {} /\ queue' = {i} /\ out' = out
        /\ pc' = [pc EXCEPT ![i] = "done"] /\ Len(out) = i
        /\ \A p \in Procs : Holds(p) => p = i
        /\ \A n \in 1..Len(out) : out[n] = n
        /\ UNCHANGED <<faults, forked, queueAlive>>
    <3>1. i \in Procs /\ Holds(i)
      BY <2>0
    <3>2. queue = {} /\ \A p \in Procs : Holds(p) => p = i
      BY ONLY <1>0, <3>1 DEF OneTurn, Holds, Procs
    <3>3. Len(out) = i
      BY ONLY <1>0, <1>6, <2>0 DEF TurnInv
    <3>4. \A n \in 1..Len(out) : out[n] = n
      BY ONLY <1>0, <3>1, Zenon DEF TurnInv
    <3> QED BY ONLY <2>0, <3>2, <3>3, <3>4
  <2>2. /\ \A p \in Procs : pc'[p] = IF p = i THEN "done" ELSE pc[p]
        /\ \A p \in Procs : pc'[p] \notin {"print", "send", "newline"}
    BY <2>1
  <2>3. TypeOK' /\ OutputInOrder'
    BY <2>1
  <2>4. OneTurn'
    BY <2>1, <2>2
  <2>5. ForkInv' /\ EndInv'
    BY <2>1, <2>2
  <2>6. TurnInv'
    BY <2>1, <2>2
  <2> QED BY <2>3, <2>4, <2>5, <2>6
<1>7. CASE ParentReceive
  <2>0. /\ pc[Parent] = "recv" /\ numberChilds \in queue
        /\ queue' = queue \ {numberChilds} /\ numberChilds > 0
        /\ pc' = [pc EXCEPT ![Parent] = "newline"]
        /\ UNCHANGED <<faults, forked, queueAlive, out>>
    BY <1>7 DEF ParentReceive
  <2>1. /\ queue = {numberChilds} /\ queue' = {}
        /\ pc[Parent] = "recv" /\ numberChilds > 0
        /\ pc' = [pc EXCEPT ![Parent] = "newline"] /\ out' = out
        /\ UNCHANGED <<faults, forked, queueAlive>>
    <3>1. \A m, n \in queue : m = n
      BY DEF OneTurn
    <3> QED BY ONLY <2>0, <3>1
  <2>7. /\ Len(out) = numberChilds
        /\ \A p \in Procs : ~Holds(p)
        /\ \A n \in 1..Len(out) : out[n] = n
    BY <2>1
  <2>2. /\ \A p \in Procs :
             pc'[p] = IF p = Parent THEN "newline" ELSE pc[p]
        /\ \A p \in Children : pc'[p] \in {"done", "killed"}
    BY <2>1, <2>7
  <2>3. TypeOK' /\ OutputInOrder'
    BY <2>1, <2>7
  <2>4. OneTurn'
    BY <2>1, <2>2, <2>7
  <2>5. ForkInv' /\ EndInv'
    BY <2>1, <2>2, <2>7
  <2>6. TurnInv'
    BY <2>1, <2>2, <2>7
  <2> QED BY <2>3, <2>4, <2>5, <2>6
<1>8. CASE Newline
  <2>1. /\ out' = Append(out, EndOfLine)
        /\ out \in Seq(Children \cup {EndOfLine})
        /\ EndOfLine \in Children \cup {EndOfLine}
    BY <1>8 DEF Newline
  <2>2. /\ out' \in Seq(Children \cup {EndOfLine})
        /\ Len(out') = Len(out) + 1
        /\ \A k \in 1..Len(out) : out'[k] = out[k]
        /\ out'[Len(out) + 1] = EndOfLine
    BY <2>1
  <2>3. /\ \A k \in 1..Len(out) : out[k] = k
        /\ Len(out) >= numberChilds
    BY <1>8 DEF Newline
  <2>4. OutputInOrder'
    BY <2>2, <2>3
  <2>5. TypeOK' /\ OneTurn' /\ ForkInv' /\ EndInv'
    BY <1>8, <2>2 DEF Newline
  <2>6. TurnInv'
    BY <1>8, <2>2 DEF Newline
  <2>7. QED
    BY <2>4, <2>5, <2>6
<1>9. CASE RemoveQueue
  BY <1>9 DEF RemoveQueue
<1>10. ASSUME NEW p \in Procs, Kill(p) PROVE IInv'
  BY <1>10 DEF Kill
<1>11. CASE UNCHANGED vars
  BY <1>11
<1>12. QED
  BY <1>1, <1>2, <1>3, <1>4, <1>5, <1>6, <1>7, <1>8, <1>9, <1>10, <1>11
     DEF Next, ParentStep, ChildStep, Stopped

(* The invariant holds of every reachable state of every instance.         *)
THEOREM InductiveInvariant == Spec => []IInv
<1>1. Init => IInv
  BY InitInv
<1>2. IInv /\ [Next]_vars => IInv'
  BY NextInv
<1>3. QED
  BY <1>1, <1>2, PTL DEF Spec

(* The queue only ever holds the numbers of children.                      *)
THEOREM TypeCorrect == Spec => []TypeOK
<1>1. IInv => TypeOK
  BY DEF IInv
<1>2. Spec => []IInv
  BY InductiveInvariant
<1>3. QED
  BY <1>1, <1>2, PTL

(* For any number of children the numbers come out in order, and nothing   *)
(* is out after the end of the line.                                       *)
THEOREM OrderedOutput == Spec => []OutputInOrder
<1>1. IInv => OutputInOrder
  BY DEF IInv
<1>2. Spec => []IInv
  BY InductiveInvariant
<1>3. QED
  BY <1>1, <1>2, PTL

(* No two processes ever have the standard output at once.                 *)
THEOREM Exclusion == Spec => []OneTurn
<1>1. IInv => OneTurn
  BY DEF IInv
<1>2. Spec => []IInv
  BY InductiveInvariant
<1>3. QED
  BY <1>1, <1>2, PTL

(* No child ever finds the queue removed.                                  *)
THEOREM RemovalIsSafe == Spec => []RemovedQueueIsUnused
<1>1. IInv => RemovedQueueIsUnused
  BY DEF IInv, EndInv, RemovedQueueIsUnused
<1>2. Spec => []IInv
  BY InductiveInvariant
<1>3. QED
  BY <1>1, <1>2, PTL
=============================================================================
