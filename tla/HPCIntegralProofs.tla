------------------------- MODULE HPCIntegralProofs -------------------------
(***************************************************************************)
(* For every machine, number of threads and set of faults: the sum of      *)
(* HPCIntegral is whole and the load of the workers and threads is even.   *)
(*                                                                         *)
(* The sum: the parts of the workers meet end to end (PartsInv) and what   *)
(* has been joined is what lies before the next worker's part (SumInv).    *)
(*                                                                         *)
(* The load: the ids that are parsed are those of the online CPUs, each    *)
(* once (ListParsed); a round takes one CPU of each core that has one      *)
(* left, where the copy is sorted, so that in every prefix of the table    *)
(* no core is two ahead of one that is not used up (Fair, RoundIsFair);    *)
(* the table ends with all the CPUs in it, and thread t has the CPU at     *)
(* t % Len(cpus) (LoadInv).                                                *)
(***************************************************************************)
EXTENDS HPCIntegral, FiniteSetTheorems, SequenceTheorems, WellFoundedInduction,
        TLAPS

Dummies == IF num_dummy = 0 THEN 1 ELSE num_dummy

Args == [a : Int, b : Int, done : BOOLEAN]

RigidInv == num_threads \in Nat \ {0} /\ num_dummy \in Nat

TypeInv ==
  /\ thread \in [Threads -> {"none", "runs", "done"}]
  /\ pc \in {"create", "join"} => int_args \in [Threads -> Args]
  /\ i \in Nat /\ a \in Int

(* Nothing has happened before the threads are created.                    *)
BeforeInv ==
  pc \in {"init", "sort", "rounds", "attr", "args", "create"} =>
    /\ res = [p \in Positions |-> 0]
    /\ pc # "create" => /\ a = 0 /\ i = 0
                        /\ thread = [t \in Threads |-> "none"]

DoneInv ==
  pc \in {"create", "join"} =>
    \A t \in Threads : thread[t] = "done" => int_args[t].done

(* The parts of the workers that have been created.                        *)
PartOK(t) ==
  int_args[t].a = t * Dummies /\ int_args[t].b = (t + 1) * Dummies

PartsInv ==
  /\ pc = "create" =>
       /\ i <= num_threads => a = i * Dummies
       /\ \A t \in Workers : t < i => PartOK(t)
  /\ pc = "join" => \A t \in Workers : PartOK(t)

Joined == IF i < num_threads THEN i ELSE num_threads

SumInv ==
  /\ pc = "join" =>
       res = [p \in Positions |-> IF p < Joined * Dummies THEN 1 ELSE 0]
  /\ SumIsWhole

IInv == RigidInv /\ TypeInv /\ BeforeInv /\ DoneInv /\ PartsInv /\ SumInv

-----------------------------------------------------------------------------
(* Parts of equal length meet end to end.                                  *)
LEMMA NextPart ==
  ASSUME NEW n \in Nat, NEW d \in Nat
  PROVE  (n + 1) * d = n * d + d
  BY SMT

LEMMA InitInv == Init => IInv
<1> SUFFICES ASSUME Init PROVE IInv
  OBVIOUS
<1>1. online \in SUBSET CPUs /\ num_threads \in Nat \ {0}
  BY MachineAssumption DEF Init
<1>2. Cardinality(online) \in Nat
  BY <1>1, MachineAssumption, FS_Subset, FS_CardinalityType
<1>3. RigidInv
  BY <1>1, <1>2 DEF RigidInv, num_dummy
<1>4. QED
  BY <1>3
     DEF Init, IInv, TypeInv, BeforeInv, DoneInv, PartsInv, SumInv, SumIsWhole

(* The machine and the argument do not change, and what is derived of them *)
(* does not either.                                                        *)
LEMMA RigidStays ==
  ASSUME UNCHANGED rigid
  PROVE  /\ num_threads' = num_threads /\ num_dummy' = num_dummy
         /\ Workers' = Workers /\ Threads' = Threads
         /\ Positions' = Positions /\ Dummies' = Dummies
         /\ NumAll' = NumAll
  BY DEF rigid, num_dummy, Workers, Threads, Positions, Dummies, NumAll

(* The number of threads, and the length of a part.                        *)
LEMMA Sizes ==
  ASSUME RigidInv
  PROVE  /\ num_threads \in Nat \ {0} /\ Dummies \in Nat \ {0} /\ NumAll \in Nat
         /\ num_threads <= NumAll
         /\ Workers = 0..num_threads - 1 /\ Threads = 0..NumAll - 1
         /\ Workers \subseteq Threads
         /\ Positions = 0..num_threads * Dummies - 1
  BY DEF RigidInv, Dummies, NumAll, Workers, Threads, Positions

(* The steps before there are arguments, and those that only end the call. *)
LEMMA QuietStep ==
  ASSUME IInv, UNCHANGED rigid,
         \/ InitTopology \/ Sort \/ SortRound \/ Sorted \/ DistributeAttr
         \/ AttrAllocFails \/ ArgsAllocFails \/ CreateFails \/ JoinFails
         \/ Fails("init", "init") \/ Fails("attr", "attr")
  PROVE  IInv'
  BY RigidStays
     DEF IInv, RigidInv, TypeInv, BeforeInv, DoneInv, PartsInv, PartOK, SumInv,
         SumIsWhole, InitTopology, Sort, SortRound, Sorted, DistributeAttr,
         AttrAllocFails, ArgsAllocFails, CreateFails, JoinFails, Fails, locals

(* The arguments are allocated before anything has happened.               *)
LEMMA AllocStep ==
  ASSUME IInv, UNCHANGED rigid, AllocArgs
  PROVE  IInv'
<1> USE RigidStays, Sizes
      DEF IInv, AllocArgs, locals
<1>1. TypeInv' /\ RigidInv' /\ BeforeInv'
  BY DEF TypeInv, RigidInv, BeforeInv, Args
<1>2. DoneInv'
  BY DEF BeforeInv, DoneInv
<1>3. PartsInv'
  BY DEF BeforeInv, PartsInv, PartOK
<1>4. SumInv'
  BY DEF SumInv, SumIsWhole
<1> QED BY <1>1, <1>2, <1>3, <1>4

(* A worker's part begins where the one before ends.                       *)
LEMMA CreateStep ==
  ASSUME IInv, UNCHANGED rigid, CreateThread
  PROVE  IInv'
<1>0. RigidInv
  BY DEF IInv
<1> USE <1>0, RigidStays, Sizes
<1>1. /\ pc = "create" /\ pc' = "create" /\ i < NumAll /\ i' = i + 1 /\ i \in Threads
      /\ int_args \in [Threads -> Args] /\ a \in Int /\ i \in Nat
  <2>1. i \in Nat /\ i < NumAll
    BY DEF IInv, TypeInv, CreateThread
  <2>2. i \in Threads
    BY <2>1
  <2> QED BY <2>1, <2>2 DEF IInv, TypeInv, CreateThread
<1>2. PartStart \in Int /\ PartLen(i) \in Int /\ a' \in Int /\ a' = PartStart + PartLen(i)
  BY <1>1 DEF IInv, RigidInv, PartStart, PartLen, CreateThread
<1>3. int_args' = [int_args EXCEPT ![i] = [a |-> PartStart, b |-> a', done |-> FALSE]]
  BY <1>1 DEF CreateThread, Args
<1>4. RigidInv' /\ TypeInv'
  BY <1>1, <1>2, <1>3, SMTT(30) DEF IInv, RigidInv, TypeInv, CreateThread, Args
<1>5. BeforeInv' /\ SumInv'
  BY <1>1 DEF IInv, BeforeInv, SumInv, SumIsWhole, CreateThread
<1>6. DoneInv'
  BY <1>1, <1>3 DEF IInv, TypeInv, DoneInv, CreateThread, Args
<1>7. PartsInv'
  <2>1. CASE i < num_threads
    <3>1. PartStart = i * Dummies /\ PartLen(i) = Dummies
      BY <1>1, <2>1 DEF IInv, PartsInv, PartStart, PartLen, Dummies
    <3>2. a' = (i + 1) * Dummies
      BY <1>1, <1>2, <3>1, NextPart
    <3>3. \A t \in Workers : t < i + 1 => PartOK(t)'
      <4> SUFFICES ASSUME NEW t \in Workers, t < i + 1 PROVE PartOK(t)'
        OBVIOUS
      <4>1. CASE t = i
        BY <1>1, <1>3, <3>1, <3>2, <4>1 DEF PartOK
      <4>2. CASE t # i
        <5>1. t < i /\ int_args'[t] = int_args[t]
          BY <1>1, <1>3, <4>2
        <5> QED BY <1>1, <5>1 DEF IInv, PartsInv, PartOK
      <4> QED BY <4>1, <4>2
    <3> QED BY <1>1, <3>2, <3>3 DEF PartsInv
  <2>2. CASE ~(i < num_threads)
    <3>1. \A t \in Workers : t # i /\ t < i /\ int_args'[t] = int_args[t]
      BY <1>1, <1>3, <2>2
    <3>2. \A t \in Workers : PartOK(t)'
      BY <1>1, <3>1 DEF IInv, PartsInv, PartOK
    <3> QED BY <1>1, <2>2, <3>2 DEF PartsInv
  <2> QED BY <2>1, <2>2
<1> QED BY <1>4, <1>5, <1>6, <1>7 DEF IInv

(* When all are created every worker has its part, and nothing is added.   *)
LEMMA AllCreatedStep ==
  ASSUME IInv, UNCHANGED rigid, AllCreated
  PROVE  IInv'
<1> USE RigidStays, Sizes DEF IInv, AllCreated
<1>1. RigidInv' /\ TypeInv' /\ BeforeInv' /\ DoneInv'
  BY DEF RigidInv, TypeInv, BeforeInv, DoneInv
<1>2. PartsInv'
  BY DEF PartsInv, PartOK
<1>3. SumInv'
  <2>1. res = [p \in Positions |-> 0] /\ Joined' = 0 /\ 0 * Dummies = 0
    BY DEF BeforeInv, Joined
  <2> QED BY <2>1 DEF SumInv, SumIsWhole
<1> QED BY <1>1, <1>2, <1>3

(* Joining a worker adds the next part, joining a dummy adds nothing.      *)
LEMMA JoinStep ==
  ASSUME IInv, UNCHANGED rigid, Join
  PROVE  IInv'
<1>0. RigidInv
  BY DEF IInv
<1> USE <1>0, RigidStays, Sizes
<1>1. /\ pc = "join" /\ pc' = "join" /\ i \in Threads /\ i' = i + 1 /\ i \in Nat
      /\ int_args[i].done
  <2>1. i \in Nat /\ i < NumAll
    BY DEF IInv, TypeInv, Join
  <2>2. i \in Threads
    BY <2>1
  <2> QED BY <2>1, <2>2 DEF IInv, DoneInv, Join
<1>2. RigidInv' /\ TypeInv' /\ BeforeInv' /\ DoneInv' /\ PartsInv'
  BY <1>1
     DEF IInv, RigidInv, TypeInv, BeforeInv, DoneInv, PartsInv, PartOK, Join
<1>3. res' = [p \in Positions |-> IF p < Joined' * Dummies THEN 1 ELSE 0]
  <2>1. CASE i < num_threads
    <3>1. Joined = i /\ Joined' = i + 1 /\ PartOK(i)
      <4>1. i \in Workers
        BY <1>1, <2>1
      <4>2. PartOK(i)
        BY <1>1, <4>1 DEF IInv, PartsInv
      <4>3. Joined = i
        BY <2>1 DEF Joined
      <4>4. Joined' = IF i + 1 < num_threads THEN i + 1 ELSE num_threads
        BY <1>1 DEF Joined
      <4>5. i + 1 < num_threads \/ i + 1 = num_threads
        BY <1>1, <2>1
      <4> QED BY <4>2, <4>3, <4>4, <4>5
    <3>2. (i + 1) * Dummies = i * Dummies + Dummies /\ i * Dummies \in Nat
      BY <1>1, NextPart DEF IInv
    <3>3. \A p \in Positions : res[p] = IF p < i * Dummies THEN 1 ELSE 0
      BY <1>1, <3>1 DEF IInv, SumInv
    <3>4. res' = [p \in Positions |->
                   res[p] + IF p >= i * Dummies /\ p < (i + 1) * Dummies
                              THEN 1 ELSE 0]
      BY <1>1, <2>1, <3>1 DEF Join, Added, PartOK
    <3> DEFINE lo == i * Dummies
               hi == (i + 1) * Dummies
    <3>5. lo \in Nat /\ hi \in Nat /\ lo <= hi
      BY <3>2 DEF IInv
    <3>6. \A p \in Positions :
            res[p] + (IF p >= lo /\ p < hi THEN 1 ELSE 0) = IF p < hi THEN 1 ELSE 0
      <4> HIDE DEF lo, hi
      <4>1. Positions \subseteq Nat
        BY DEF IInv
      <4>2. \A p \in Positions : res[p] = IF p < lo THEN 1 ELSE 0
        BY <3>3 DEF lo
      <4> QED BY <3>5, <4>1, <4>2
    <3> QED BY <3>1, <3>4, <3>6
  <2>2. CASE ~(i < num_threads)
    BY <1>1, <2>2 DEF IInv, SumInv, Joined, Join
  <2> QED BY <2>1, <2>2
<1>4. SumInv'
  BY <1>1, <1>3 DEF SumInv, SumIsWhole
<1> QED BY <1>2, <1>4 DEF IInv

(* After the last join the whole interval has been added.                  *)
LEMMA AllJoinedStep ==
  ASSUME IInv, UNCHANGED rigid, AllJoined
  PROVE  IInv'
<1>0. RigidInv
  BY DEF IInv
<1> USE <1>0, RigidStays, Sizes
<1>1. /\ pc = "join" /\ pc' = "value" /\ i = NumAll /\ res' = res
  BY DEF AllJoined, locals
<1>2. RigidInv' /\ TypeInv' /\ BeforeInv' /\ DoneInv' /\ PartsInv'
  BY <1>1
     DEF IInv, RigidInv, TypeInv, BeforeInv, DoneInv, PartsInv, AllJoined,
         locals
<1>3. Joined = num_threads
  BY <1>1 DEF IInv, Joined
<1>4. res = Whole
  BY <1>1, <1>3 DEF IInv, SumInv, Whole
<1>5. SumInv'
  BY <1>1, <1>4 DEF SumInv, SumIsWhole, Whole
<1> QED BY <1>2, <1>5 DEF IInv

(* A thread changes nothing but its own result.                            *)
LEMMA CalcStep ==
  ASSUME IInv, UNCHANGED rigid, NEW t \in Threads, Calc(t)
  PROVE  IInv'
<1>0. RigidInv
  BY DEF IInv
<1> USE <1>0, RigidStays, Sizes DEF locals
<1>1. /\ thread[t] = "runs" /\ thread' = [thread EXCEPT ![t] = "done"]
      /\ int_args' = [int_args EXCEPT ![t].done = TRUE]
      /\ pc' = pc /\ i' = i /\ a' = a /\ res' = res
  BY DEF Calc
<1>2. ASSUME pc \in {"create", "join"}
      PROVE  /\ int_args' \in [Threads -> Args]
             /\ \A w \in Threads : /\ int_args'[w].a = int_args[w].a
                                   /\ int_args'[w].b = int_args[w].b
             /\ \A w \in Threads :
                  int_args'[w].done = (w = t \/ int_args[w].done)
  <2>1. int_args \in [Threads -> Args]
    BY <1>2 DEF IInv, TypeInv
  <2> QED BY <1>1, <2>1 DEF Args
<1>3. RigidInv' /\ TypeInv'
  BY <1>1, <1>2 DEF IInv, RigidInv, TypeInv, Args
<1>4. BeforeInv' /\ SumInv'
  BY <1>1 DEF IInv, BeforeInv, SumInv, SumIsWhole, Joined, Whole
<1>5. DoneInv'
  BY <1>1, <1>2 DEF IInv, TypeInv, DoneInv, Args
<1>6. ASSUME pc \in {"create", "join"}
      PROVE  \A w \in Workers : PartOK(w) => PartOK(w)'
  BY <1>2, <1>6 DEF IInv, PartOK, Args
<1>7. PartsInv'
  BY <1>1, <1>6 DEF IInv, PartsInv
<1> QED BY <1>3, <1>4, <1>5, <1>7 DEF IInv

LEMMA NextInv == IInv /\ [Next]_vars => IInv'
<1> SUFFICES ASSUME IInv, [Next]_vars PROVE IInv'
  OBVIOUS
<1>1. CASE CallerStep
  BY <1>1, QuietStep, AllocStep, CreateStep, AllCreatedStep, JoinStep,
     AllJoinedStep
     DEF CallerStep
<1>2. ASSUME NEW t \in Threads, ThreadStep(t) PROVE IInv'
  BY <1>2, CalcStep DEF ThreadStep
<1>3. CASE UNCHANGED vars
  <2>1. UNCHANGED rigid
    BY <1>3 DEF vars, rigid
  <2> QED
    BY <1>3, <2>1, RigidStays
       DEF vars, locals, IInv, RigidInv, TypeInv, BeforeInv, DoneInv, PartsInv,
           PartOK, SumInv, SumIsWhole, Joined, Whole
<1> QED BY <1>1, <1>2, <1>3 DEF Next

(* What hpcIntegral is built on, at every step: the types, the parts of    *)
(* the workers and what has been added of them.                            *)
THEOREM InductiveInvariant == Spec => []IInv
  BY InitInv, NextInv, PTL DEF Spec

(* hpcIntegral returns an error or the sum of every part of the interval,  *)
(* counted once, for every machine and number of threads, whatever fails.  *)
THEOREM WholeSum == Spec => []SumIsWhole
<1>1. IInv => SumIsWhole
  BY DEF IInv, SumInv
<1> QED BY <1>1, InductiveInvariant, PTL

(* A set of numbers that is not empty has a least member.                  *)
LEMMA LeastNat ==
  ASSUME NEW T \in SUBSET Nat, T # {}
  PROVE  \E x \in T : \A y \in T : x <= y
<1> DEFINE R == OpToRel(<, Nat)
<1>1. IsWellFoundedOn(R, Nat)
  BY NatLessThanWellFounded
<1>2. \A x, y \in Nat : <<y, x>> \in R <=> y < x
  BY DEF OpToRel
<1> HIDE DEF R
<1>3. PICK x \in T : \A y \in T : ~ (<<y, x>> \in R)
  BY <1>1, WFMin
<1>4. ASSUME NEW y \in T PROVE x <= y
  <2>1. ~(y < x)
    BY <1>2, <1>3
  <2> QED BY <2>1
<1>5. QED
  BY <1>4

(* A set of numbers that holds 0, and with n also n + 1, is all of them.   *)
LEMMA Induction ==
  ASSUME NEW T \in SUBSET Nat, 0 \in T, \A n \in Nat : n \in T => n + 1 \in T
  PROVE  T = Nat
<1> SUFFICES ASSUME T # Nat PROVE FALSE
  OBVIOUS
<1>1. PICK x \in Nat \ T : \A y \in Nat \ T : x <= y
  BY LeastNat, Nat \ T # {}, Nat \ T \in SUBSET Nat
<1>2. x - 1 \in Nat /\ x - 1 \notin T
  BY <1>1
<1> QED BY <1>1, <1>2

-----------------------------------------------------------------------------
(* How many elements of a finite set of numbers are less than x.           *)
Rank(S, x) == Cardinality({y \in S : y < x})

(* A greater number has a greater rank.                                    *)
LEMMA RankOrder ==
  ASSUME NEW S \in SUBSET Int, IsFiniteSet(S), NEW x \in S, NEW y \in S, x < y
  PROVE  Rank(S, x) < Rank(S, y)
<1> DEFINE A == {z \in S : z < x}
           B == {z \in S : z < y}
<1>1. IsFiniteSet(A) /\ IsFiniteSet(B)
  BY FS_Subset
<1>2. A \cup {x} \subseteq B /\ x \notin A
  <2>1. x \in Int /\ y \in Int /\ \A z \in S : z \in Int
    OBVIOUS
  <2>2. \A z \in S : z < x => z < y
    BY <2>1
  <2>3. ~(x < x)
    BY <2>1
  <2> QED BY <2>2, <2>3
<1>3. IsFiniteSet(A \cup {x}) /\ Cardinality(A \cup {x}) = Cardinality(A) + 1
  BY <1>1, <1>2, FS_AddElement
<1>4. Cardinality(A \cup {x}) <= Cardinality(B)
  BY <1>1, <1>2, <1>3, FS_Subset
<1>5. Cardinality(A) \in Nat /\ Cardinality(B) \in Nat
  BY <1>1, FS_CardinalityType
<1> HIDE DEF A, B
<1>6. Cardinality(A) < Cardinality(B)
  BY <1>3, <1>4, <1>5
<1> QED BY <1>6 DEF Rank, A, B

(* Every rank below the size of the set is that of one element.            *)
LEMMA RankOnto ==
  ASSUME NEW S \in SUBSET Int, IsFiniteSet(S)
  PROVE  /\ Cardinality(S) \in Nat
         /\ \A x \in S : Rank(S, x) \in 0..Cardinality(S) - 1
         /\ \A x, y \in S : Rank(S, x) = Rank(S, y) => x = y
         /\ \A k \in 0..Cardinality(S) - 1 : \E x \in S : Rank(S, x) = k
<1>1. Cardinality(S) \in Nat
  BY FS_CardinalityType
<1>2. ASSUME NEW x \in S PROVE Rank(S, x) \in 0..Cardinality(S) - 1
  <2> DEFINE A == {y \in S : y < x}
  <2>1. IsFiniteSet(S \ {x}) /\ Cardinality(S \ {x}) = Cardinality(S) - 1
    BY FS_RemoveElement
  <2>2. A \subseteq S \ {x}
    OBVIOUS
  <2>3. IsFiniteSet(A) /\ Cardinality(A) <= Cardinality(S \ {x})
    BY <2>1, <2>2, FS_Subset
  <2>4. Cardinality(A) \in Nat
    BY <2>3, FS_CardinalityType
  <2> HIDE DEF A
  <2>5. Cardinality(A) \in 0..Cardinality(S) - 1
    BY <1>1, <2>1, <2>3, <2>4
  <2> QED BY <2>5 DEF A, Rank
<1>3. ASSUME NEW x \in S, NEW y \in S, Rank(S, x) = Rank(S, y) PROVE x = y
  <2>1. x \in Int /\ y \in Int /\ Rank(S, x) \in Int /\ Rank(S, y) \in Int
    BY <1>1, <1>2
  <2>2. ~(x < y) /\ ~(y < x)
    BY <1>3, <2>1, RankOrder
  <2> QED BY <2>1, <2>2
<1> DEFINE T == 0..Cardinality(S) - 1
           f == [x \in S |-> Rank(S, x)]
<1>4. f \in Injection(S, T)
  BY <1>2, <1>3 DEF Injection, IsInjective
<1>5. IsFiniteSet(T) /\ Cardinality(T) = Cardinality(S)
  BY <1>1, FS_Interval, SMTT(30)
<1>6. f \in Surjection(S, T)
  BY <1>4, <1>5, FS_Injection
<1>7. \A k \in T : \E x \in S : f[x] = k
  BY <1>6 DEF Surjection
<1> QED BY <1>1, <1>2, <1>3, <1>7

(* Nth goes through the set, each element once.                            *)
LEMMA NthEnumerates ==
  ASSUME NEW S \in SUBSET Int, IsFiniteSet(S)
  PROVE  /\ Cardinality(S) \in Nat
         /\ \A n \in 1..Cardinality(S) : Nth(S, n) \in S
         /\ \A m, n \in 1..Cardinality(S) : Nth(S, m) = Nth(S, n) => m = n
         /\ \A x \in S : \E n \in 1..Cardinality(S) : Nth(S, n) = x
<1>1. Cardinality(S) \in Nat
  BY RankOnto
<1>2. ASSUME NEW n \in 1..Cardinality(S)
      PROVE  Nth(S, n) \in S /\ Rank(S, Nth(S, n)) = n - 1
  <2>1. n - 1 \in 0..Cardinality(S) - 1
    BY <1>1
  <2>2. \E x \in S : Cardinality({y \in S : y < x}) = n - 1
    BY <2>1, RankOnto DEF Rank
  <2> QED BY <2>2 DEF Nth, Rank
<1>3. ASSUME NEW m \in 1..Cardinality(S), NEW n \in 1..Cardinality(S),
             Nth(S, m) = Nth(S, n)
      PROVE  m = n
  <2>1. m - 1 = n - 1
    BY <1>2, <1>3
  <2> QED BY <2>1
<1>4. ASSUME NEW x \in S PROVE \E n \in 1..Cardinality(S) : Nth(S, n) = x
  <2> DEFINE n == Rank(S, x) + 1
  <2>1. Rank(S, x) \in 0..Cardinality(S) - 1
    BY RankOnto
  <2>2. n \in 1..Cardinality(S) /\ n - 1 = Rank(S, x)
    BY <1>1, <2>1
  <2> HIDE DEF n
  <2>3. Nth(S, n) \in S /\ Rank(S, Nth(S, n)) = Rank(S, x)
    BY <1>2, <2>2
  <2>4. \A u, v \in S : Rank(S, u) = Rank(S, v) => u = v
    BY RankOnto
  <2>5. Nth(S, n) = x
    BY <2>3, <2>4
  <2> QED BY <2>2, <2>5
<1> QED BY <1>1, <1>2, <1>3, <1>4

-----------------------------------------------------------------------------
(* The sequence holds each element of the set once.                        *)
Lists(ids, S) ==
  /\ ids \in Seq(S)
  /\ \A m, n \in 1..Len(ids) : ids[m] = ids[n] => m = n
  /\ \A x \in S : \E n \in 1..Len(ids) : ids[n] = x

(* Two lists of disjoint sets, one after the other, list both.             *)
LEMMA ListsJoin ==
  ASSUME NEW S, NEW T, NEW p, NEW q, Lists(p, S), Lists(q, T), S \cap T = {}
  PROVE  Lists(p \o q, S \cup T)
<1> DEFINE U == S \cup T
<1>1. p \in Seq(U) /\ q \in Seq(U) /\ p \in Seq(S) /\ q \in Seq(T)
  <2>1. \A h \in 1..Len(p) : p[h] \in S
    BY DEF Lists
  <2>2. \A h \in 1..Len(q) : q[h] \in T
    BY DEF Lists
  <2> QED BY <2>1, <2>2 DEF Lists
<1>2. Len(p) \in Nat /\ Len(q) \in Nat
  BY <1>1
<1>3. p \o q \in Seq(U) /\ Len(p \o q) = Len(p) + Len(q)
  BY <1>1
<1>4. \A h \in 1..Len(p) + Len(q) :
        (p \o q)[h] = IF h <= Len(p) THEN p[h] ELSE q[h - Len(p)]
  BY <1>1
<1> DEFINE r == p \o q
<1> HIDE DEF r, U
<1>5. ASSUME NEW m \in 1..Len(r), NEW n \in 1..Len(r), r[m] = r[n] PROVE m = n
  <2>1. m \in Int /\ n \in Int /\ m \in 1..Len(p) + Len(q) /\ n \in 1..Len(p) + Len(q)
    BY <1>2, <1>3 DEF r
  <2>2. CASE m <= Len(p) /\ n <= Len(p)
    <3>1. p[m] = p[n] /\ m \in 1..Len(p) /\ n \in 1..Len(p)
      BY <1>2, <1>4, <1>5, <2>1, <2>2 DEF r
    <3> QED BY <3>1 DEF Lists
  <2>3. CASE ~(m <= Len(p)) /\ ~(n <= Len(p))
    <3>1. /\ q[m - Len(p)] = q[n - Len(p)]
          /\ m - Len(p) \in 1..Len(q) /\ n - Len(p) \in 1..Len(q)
      BY <1>2, <1>4, <1>5, <2>1, <2>3 DEF r
    <3>2. m - Len(p) = n - Len(p)
      BY <3>1 DEF Lists
    <3> QED BY <1>2, <2>1, <3>2
  <2>4. CASE m <= Len(p) /\ ~(n <= Len(p))
    <3>1. p[m] = q[n - Len(p)] /\ m \in 1..Len(p) /\ n - Len(p) \in 1..Len(q)
      BY <1>2, <1>4, <1>5, <2>1, <2>4 DEF r
    <3>2. p[m] \in S /\ q[n - Len(p)] \in T
      BY <1>1, <3>1
    <3> QED BY <3>1, <3>2
  <2>5. CASE ~(m <= Len(p)) /\ n <= Len(p)
    <3>1. q[m - Len(p)] = p[n] /\ n \in 1..Len(p) /\ m - Len(p) \in 1..Len(q)
      BY <1>2, <1>4, <1>5, <2>1, <2>5 DEF r
    <3>2. p[n] \in S /\ q[m - Len(p)] \in T
      BY <1>1, <3>1
    <3> QED BY <3>1, <3>2
  <2> QED BY <2>2, <2>3, <2>4, <2>5
<1>6. ASSUME NEW x \in U PROVE \E n \in 1..Len(r) : r[n] = x
  <2>1. CASE x \in S
    <3>1. PICK n \in 1..Len(p) : p[n] = x
      BY <2>1 DEF Lists
    <3>2. n \in 1..Len(p) + Len(q) /\ n <= Len(p)
      BY <1>2
    <3>3. r[n] = x /\ n \in 1..Len(r)
      BY <1>3, <1>4, <3>1, <3>2 DEF r
    <3> QED BY <3>3
  <2>2. CASE x \in T
    <3>1. PICK n \in 1..Len(q) : q[n] = x
      BY <2>2 DEF Lists
    <3>2. /\ n + Len(p) \in 1..Len(p) + Len(q) /\ ~(n + Len(p) <= Len(p))
          /\ n + Len(p) - Len(p) = n
      BY <1>2
    <3>3. r[n + Len(p)] = x /\ n + Len(p) \in 1..Len(r)
      BY <1>3, <1>4, <3>1, <3>2 DEF r
    <3> QED BY <3>3
  <2> QED BY <2>1, <2>2 DEF U
<1> QED BY <1>3, <1>5, <1>6 DEF Lists, r, U

(* A list of a set is as long as the set is large.                         *)
LEMMA ListsLen ==
  ASSUME NEW S, NEW ids, Lists(ids, S)
  PROVE  IsFiniteSet(S) /\ Cardinality(S) = Len(ids) /\ Len(ids) \in Nat
<1> DEFINE D == 1..Len(ids)
<1>1. ids \in [D -> S] /\ Len(ids) \in Nat
  BY DEF Lists
<1>2. ids \in Bijection(D, S)
  BY <1>1 DEF Lists, Bijection, Injection, Surjection, IsInjective
<1>3. IsFiniteSet(D) /\ Cardinality(D) = Len(ids)
  <2>1. \A k \in Nat : IsFiniteSet(1..k) /\ Cardinality(1..k) = k
    BY FS_Interval
  <2> QED BY <1>1, <2>1
<1>4. ExistsBijection(D, S)
  BY <1>2 DEF ExistsBijection
<1> QED BY <1>1, <1>3, <1>4, FS_Bijection

(* The last of a run is there.                                             *)
LEMMA RunEnds ==
  ASSUME NEW on \in SUBSET Nat, IsFiniteSet(on), NEW c \in on
  PROVE  /\ LastOfRun(on, c) \in on /\ c <= LastOfRun(on, c)
         /\ c..LastOfRun(on, c) \subseteq on
         /\ LastOfRun(on, c) + 1 \notin on
<1> DEFINE T == {d \in Nat : c < d /\ d \notin on}
<1>1. c \in Nat
  OBVIOUS
<1>2. T # {}
  <2> SUFFICES ASSUME \A d \in Nat : c < d => d \in on PROVE FALSE
    OBVIOUS
  <2> DEFINE n == Cardinality(on)
             I == (c + 1)..(c + n + 1)
  <2>1. n \in Nat
    BY FS_CardinalityType
  <2>2. Cardinality(I) = n + 1
    <3>1. \A x, y \in Int : Cardinality(x..y) = IF x > y THEN 0 ELSE y - x + 1
      BY FS_Interval
    <3>2. c + 1 \in Int /\ c + n + 1 \in Int /\ ~(c + 1 > c + n + 1)
      BY <1>1, <2>1
    <3>3. (c + n + 1) - (c + 1) + 1 = n + 1
      BY <1>1, <2>1
    <3> HIDE DEF n
    <3> QED BY <3>1, <3>2, <3>3
  <2>3. I \subseteq on
    BY <1>1, <2>1
  <2>4. Cardinality(I) <= n
    BY <2>3, FS_Subset
  <2> HIDE DEF n, I
  <2> QED BY <2>1, <2>2, <2>4
<1>3. PICK e \in T : \A d \in T : e <= d
  BY <1>2, LeastNat, T \in SUBSET Nat
<1>4. e \in Nat /\ c < e /\ e \notin on
  BY <1>3
<1>5. \A d \in Nat : c <= d /\ d < e => d \in on
  <2>1. \A d \in Nat : d \in T => ~(d < e)
    BY <1>3
  <2> QED BY <1>1, <1>4, <2>1
<1>6. /\ e - 1 \in on /\ c <= e - 1
      /\ c..(e - 1) \subseteq on /\ (e - 1) + 1 \notin on
  <2>1. e - 1 \in Nat /\ c <= e - 1 /\ e - 1 < e /\ (e - 1) + 1 = e
    BY <1>1, <1>4
  <2>2. \A d \in c..(e - 1) : d \in Nat /\ c <= d /\ d < e
    BY <1>1, <1>4
  <2> QED BY <1>4, <1>5, <2>1, <2>2
<1>7. \E d \in on : c <= d /\ c..d \subseteq on /\ d + 1 \notin on
  BY <1>6
<1> QED BY <1>7 DEF LastOfRun

(* The CPUs of a run.                                                      *)
Run(on, c) == c..LastOfRun(on, c)

(* The runs of the kernel's list are disjoint, and make up the online CPUs.*)
LEMMA RunsArePieces ==
  ASSUME NEW on \in SUBSET Nat, IsFiniteSet(on)
  PROVE  /\ \A c \in FirstOfRuns(on) : Run(on, c) \subseteq on
         /\ \A c, d \in FirstOfRuns(on) :
              c # d => Run(on, c) \cap Run(on, d) = {}
         /\ \A x \in on : \E c \in FirstOfRuns(on) : x \in Run(on, c)
<1> DEFINE F == FirstOfRuns(on)
<1>1. \A c \in F : c \in on /\ c \in Nat /\ c - 1 \notin on
  BY DEF FirstOfRuns
<1>2. ASSUME NEW c \in F
      PROVE  /\ LastOfRun(on, c) \in Nat /\ c <= LastOfRun(on, c)
             /\ Run(on, c) \subseteq on
             /\ LastOfRun(on, c) + 1 \notin on
  BY <1>1, RunEnds DEF Run
<1>3. ASSUME NEW c \in F, NEW d \in F, c < d
      PROVE  Run(on, c) \cap Run(on, d) = {}
  <2> DEFINE e == LastOfRun(on, c)
  <2>1. c \in Nat /\ d \in Nat /\ e \in Nat
    BY <1>1, <1>2
  <2>2. c..e \subseteq on /\ d - 1 \notin on
    BY <1>1, <1>2 DEF Run
  <2>3. d - 1 \in c..e <=> d - 1 <= e
    BY <1>3, <2>1
  <2>4. e < d
    BY <2>1, <2>2, <2>3
  <2>5. \A x \in c..e : ~(d <= x)
    BY <2>1, <2>4
  <2> QED BY <2>5 DEF Run
<1>4. ASSUME NEW c \in F, NEW d \in F, c # d
      PROVE  Run(on, c) \cap Run(on, d) = {}
  <2>1. c < d \/ d < c
    BY <1>1, <1>4
  <2> QED BY <1>3, <2>1
<1>5. ASSUME NEW x \in on PROVE \E c \in F : x \in Run(on, c)
  <2> DEFINE T == {c \in Nat : c <= x /\ c..x \subseteq on}
  <2>1. x \in T
    OBVIOUS
  <2>2. PICK c \in T : \A d \in T : c <= d
    BY <2>1, LeastNat, T \in SUBSET Nat
  <2>3. c \in Nat /\ c <= x /\ c..x \subseteq on /\ x \in Nat /\ c \in on
    BY <2>2
  <2>4. c - 1 \notin on
    <3> SUFFICES ASSUME c - 1 \in on PROVE FALSE
      OBVIOUS
    <3>1. c - 1 \in Nat /\ c - 1 <= x
      BY <2>3
    <3>2. \A y \in (c - 1)..x : y = c - 1 \/ y \in c..x
      BY <2>3
    <3>3. c - 1 \in T
      BY <2>3, <3>1, <3>2
    <3>4. c <= c - 1
      BY <2>2, <3>3
    <3> QED BY <2>3, <3>4
  <2>5. c \in F
    BY <2>3, <2>4 DEF FirstOfRuns
  <2>6. /\ LastOfRun(on, c) \in Nat /\ c <= LastOfRun(on, c)
        /\ LastOfRun(on, c) + 1 \notin on
    BY <1>2, <2>5
  <2> DEFINE e == LastOfRun(on, c)
  <2>7. x <= e
    <3>1. e + 1 \in c..x <=> e + 1 <= x
      BY <2>3, <2>6
    <3> QED BY <2>3, <2>6, <3>1
  <2>8. x \in c..e
    BY <2>3, <2>6, <2>7
  <2> QED BY <2>5, <2>8 DEF Run
<1> QED BY <1>2, <1>4, <1>5

(* A token of a run becomes the CPUs of the run.                           *)
LEMMA TokenLists ==
  ASSUME NEW lo \in Nat, NEW hi \in Nat, lo <= hi
  PROVE  Lists(TokenCPUs([lo |-> lo, hi |-> hi]), lo..hi)
<1> DEFINE n == hi - lo + 1
           ids == [h \in 1..n |-> lo + h - 1]
<1>1. n \in Nat /\ (IF lo < hi THEN hi - lo + 1 ELSE 1) = n
  OBVIOUS
<1>2. TokenCPUs([lo |-> lo, hi |-> hi]) = ids
  BY <1>1 DEF TokenCPUs
<1> HIDE DEF n
<1>3. \A h \in 1..n : ids[h] = lo + h - 1 /\ lo + h - 1 \in lo..hi
  BY <1>1 DEF n
<1>4. ids \in [1..n -> lo..hi]
  BY <1>3
<1>5. ids \in Seq(lo..hi) /\ Len(ids) = n
  BY <1>1, <1>4
<1>6. \A h, j \in 1..n : ids[h] = ids[j] => h = j
  BY <1>1, <1>3
<1>7. ASSUME NEW x \in lo..hi PROVE \E h \in 1..n : ids[h] = x
  <2>1. x - lo + 1 \in 1..n /\ lo + (x - lo + 1) - 1 = x
    BY DEF n
  <2> QED BY <1>3, <2>1
<1> HIDE DEF ids
<1> QED BY <1>2, <1>5, <1>6, <1>7 DEF Lists

(* The ids are those of the tokens before, and then those of the next.     *)
LEMMA IdsExist ==
  ASSUME NEW tokens, NEW n \in Nat
  PROVE  \E f : f = [h \in 0..n |->
                       IF h = 0 THEN <<>> ELSE f[h - 1] \o TokenCPUs(tokens[h])]
<1> DEFINE Is(f, m) ==
             f = [h \in 0..m |->
                    IF h = 0 THEN <<>> ELSE f[h - 1] \o TokenCPUs(tokens[h])]
           T == {m \in Nat : \E f : Is(f, m)}
<1>1. 0 \in T
  <2>1. Is([h \in 0..0 |-> <<>>], 0)
    OBVIOUS
  <2> QED BY <2>1
<1>2. ASSUME NEW m \in Nat, m \in T PROVE m + 1 \in T
  <2>1. PICK f : Is(f, m)
    BY <1>2
  <2> DEFINE g == [h \in 0..(m + 1) |->
                     IF h = m + 1 THEN f[m] \o TokenCPUs(tokens[m + 1]) ELSE f[h]]
  <2>2. ASSUME NEW h \in 0..(m + 1)
        PROVE  g[h] = IF h = 0 THEN <<>> ELSE g[h - 1] \o TokenCPUs(tokens[h])
    <3>1. CASE h = m + 1
      <4>1. h \in 0..(m + 1) /\ h # 0 /\ h - 1 = m /\ m \in 0..(m + 1) /\ m # m + 1
        BY <3>1
      <4>2. g[m + 1] = f[m] \o TokenCPUs(tokens[m + 1]) /\ g[m] = f[m]
        BY <4>1, <3>1
      <4> HIDE DEF g
      <4> QED BY <3>1, <4>1, <4>2
    <3>2. CASE h # m + 1
      <4>1. h \in 0..m /\ h - 1 \in -1..(m - 1) /\ h - 1 # m + 1
        BY <3>2
      <4>2. g[h] = f[h] /\ (h # 0 => g[h - 1] = f[h - 1])
        BY <4>1
      <4>3. f[h] = IF h = 0 THEN <<>> ELSE f[h - 1] \o TokenCPUs(tokens[h])
        BY <2>1, <4>1
      <4> QED BY <4>2, <4>3
    <3> QED BY <3>1, <3>2
  <2>3. Is(g, m + 1)
    BY <2>2
  <2> HIDE DEF g, Is
  <2> QED BY <2>3
<1> HIDE DEF T
<1>3. T = Nat
  BY <1>1, <1>2, Induction DEF T
<1> QED BY <1>3 DEF T

(* The kernel's list, parsed, holds each on CPU once.                  *)
LEMMA ListParsed ==
  ASSUME NEW on \in SUBSET Nat, IsFiniteSet(on)
  PROVE  Lists(FillLogicCPU(Runs(on)), on)
<1> DEFINE F == FirstOfRuns(on)
           m == Cardinality(F)
           X(h) == Run(on, Nth(F, h))
           tokens == Runs(on)
           ids == CHOOSE f : f = [h \in 0..Len(tokens) |->
                    IF h = 0 THEN <<>> ELSE f[h - 1] \o TokenCPUs(tokens[h])]
<1>1. F \in SUBSET Int /\ F \in SUBSET on /\ F \in SUBSET Nat /\ IsFiniteSet(F)
  <2>1. F \in SUBSET on
    BY DEF FirstOfRuns
  <2>2. IsFiniteSet(F)
    BY <2>1, FS_Subset
  <2>3. on \in SUBSET Int
    OBVIOUS
  <2> HIDE DEF F
  <2> QED BY <2>1, <2>2, <2>3
<1>2. m \in Nat
  BY <1>1, FS_CardinalityType
<1>3. /\ \A n \in 1..m : Nth(F, n) \in F
      /\ \A k, n \in 1..m : Nth(F, k) = Nth(F, n) => k = n
      /\ \A x \in F : \E n \in 1..m : Nth(F, n) = x
  BY <1>1, NthEnumerates
<1>4. /\ tokens = [h \in 1..m |-> [lo |-> Nth(F, h), hi |-> LastOfRun(on, Nth(F, h))]]
      /\ Len(tokens) = m
  BY <1>2 DEF Runs
<1>5. ids = [h \in 0..m |-> IF h = 0 THEN <<>> ELSE ids[h - 1] \o TokenCPUs(tokens[h])]
  <2> HIDE DEF m, tokens
  <2>1. \E f : f = [h \in 0..Len(tokens) |->
                   IF h = 0 THEN <<>> ELSE f[h - 1] \o TokenCPUs(tokens[h])]
    <3>1. Len(tokens) \in Nat
      BY <1>2, <1>4
    <3> QED BY ONLY <3>1, IdsExist
  <2>2. ids = [h \in 0..Len(tokens) |->
                 IF h = 0 THEN <<>> ELSE ids[h - 1] \o TokenCPUs(tokens[h])]
    BY <2>1
  <2> HIDE DEF ids
  <2> QED BY <1>4, <2>2
<1>6. FillLogicCPU(tokens) = ids[m]
  BY <1>4 DEF FillLogicCPU
<1>7. ASSUME NEW h \in 1..m PROVE Lists(TokenCPUs(tokens[h]), X(h))
  <2> DEFINE lo == Nth(F, h)
             hi == LastOfRun(on, lo)
  <2>1. lo \in on /\ lo \in Nat
    BY <1>1, <1>3
  <2>2. hi \in Nat /\ lo <= hi
    BY <2>1, RunEnds
  <2>3. tokens[h] = [lo |-> lo, hi |-> hi] /\ X(h) = lo..hi
    BY <1>4 DEF Run
  <2> HIDE DEF lo, hi, tokens, X
  <2> QED BY <2>1, <2>2, <2>3, TokenLists
<1>8. \A h, j \in 1..m : h # j => X(h) \cap X(j) = {}
  BY <1>3, RunsArePieces
<1> DEFINE U(n) == UNION {X(h) : h \in 1..n}
           T == {n \in Nat : n <= m => Lists(ids[n], U(n))}
<1> HIDE DEF ids, tokens, m, F, X
<1>9. 0 \in T
  <2>1. ids[0] = <<>>
    BY <1>2, <1>5
  <2>2. U(0) = {}
    OBVIOUS
  <2>3. Lists(<<>>, {})
    BY DEF Lists
  <2> QED BY <2>1, <2>2, <2>3
<1>10. ASSUME NEW n \in Nat, n \in T, n + 1 <= m
       PROVE  Lists(ids[n + 1], U(n + 1))
  <2>1. n + 1 \in 1..m /\ n + 1 \in 0..m /\ n + 1 # 0 /\ (n + 1) - 1 = n /\ n <= m
    BY <1>2, <1>10
  <2>2. ids[n + 1] = ids[n] \o TokenCPUs(tokens[n + 1])
    <3>1. ids[n + 1] = ids[(n + 1) - 1] \o TokenCPUs(tokens[n + 1])
      BY <1>5, <2>1
    <3> QED BY <2>1, <3>1
  <2>3. Lists(ids[n], U(n)) /\ Lists(TokenCPUs(tokens[n + 1]), X(n + 1))
    BY <1>7, <1>10, <2>1
  <2>4. U(n) \cap X(n + 1) = {}
    <3>1. \A h \in 1..n : h \in 1..m /\ h # n + 1
      BY <1>2, <1>10
    <3> QED BY <1>8, <2>1, <3>1
  <2>5. U(n + 1) = U(n) \cup X(n + 1)
    <3>1. 1..(n + 1) = (1..n) \cup {n + 1}
      OBVIOUS
    <3> QED BY <3>1
  <2> HIDE DEF U
  <2> QED BY <2>2, <2>3, <2>4, <2>5, ListsJoin
<1>11. T = Nat
  <2>1. ASSUME NEW n \in Nat, n \in T PROVE n + 1 \in T
    <3>1. CASE n + 1 <= m
      <4> HIDE DEF U
      <4> QED BY <1>10, <2>1, <3>1
    <3>2. CASE ~(n + 1 <= m)
      BY <3>2
    <3> QED BY <3>1, <3>2
  <2>2. T \in SUBSET Nat
    OBVIOUS
  <2> HIDE DEF T
  <2> QED BY <1>9, <2>1, <2>2, Induction
<1>12. Lists(ids[m], U(m))
  BY <1>2, <1>11
<1>13. U(m) = on
  <2>1. \A h \in 1..m : X(h) \subseteq on
    BY <1>3, RunsArePieces DEF X, F
  <2>2. \A x \in on : \E h \in 1..m : x \in X(h)
    BY <1>3, RunsArePieces DEF X, F
  <2> QED BY <2>1, <2>2
<1> QED BY <1>6, <1>12, <1>13 DEF tokens

-----------------------------------------------------------------------------
(* The machine: its online CPUs on and the core co of each.                *)
Machine(on, co) ==
  on \in SUBSET Nat /\ IsFiniteSet(on) /\ co \in [on -> Nat \cup {Unknown}]

Cores(on, co) == {co[e] : e \in on} \ {Unknown}
Total(on, co, c) == Cardinality({e \in on : co[e] = c})

(* A table with each CPU and its core, once at the most.                   *)
Entries(on) == [id : on, core_id : Int]

Table(cs, on, co) ==
  /\ cs \in Seq(Entries(on))
  /\ \A n \in 1..Len(cs) : cs[n].core_id = co[cs[n].id]
  /\ \A m, n \in 1..Len(cs) : cs[m].id = cs[n].id => m = n

Known(cs) == \A n \in 1..Len(cs) : cs[n].core_id # Unknown

(* How many of the first m CPUs of the table are of core c.                *)
OfCore(cs, m, c) == {t \in 0..m - 1 : cs[t + 1].core_id = c}
Count(cs, m, c) == Cardinality(OfCore(cs, m, c))

(* No prefix of the table favours a core that has a CPU left elsewhere.    *)
Fair(cs, on, co) ==
  \A m \in 0..Len(cs) : \A c, d \in Cores(on, co) :
    Count(cs, m, c) > Count(cs, m, d) + 1 => Count(cs, m, d) = Total(on, co, d)

(* After r rounds each core has given r CPUs or all it has.                *)
Rounds(cs, on, co) ==
  \E r \in Nat : \A c \in Cores(on, co) :
    Count(cs, Len(cs), c) = IF r < Total(on, co, c) THEN r ELSE Total(on, co, c)

(* The copy: of the CPUs that are not in the table, each with its core.    *)
Left(cp, cs, on, co) ==
  /\ cp \in Seq(Entries(on)) /\ Len(cp) = Cardinality(on)
  /\ \A m, n \in 1..Len(cp) : cp[m].id = cp[n].id => m = n
  /\ \A n \in 1..Len(cp) : cp[n].core_id \in {Taken, co[cp[n].id]}
  /\ \A n \in 1..Len(cp) : cp[n].core_id = Taken <=>
       \E m \in 1..Len(cs) : cs[m].id = cp[n].id

(* What is left of the copy is sorted.                                     *)
Ordered(cp) ==
  \A m, n \in 1..Len(cp) :
    m < n /\ cp[m].core_id # Taken /\ cp[n].core_id # Taken =>
      cp[m].core_id <= cp[n].core_id

Bundle(cp, cs, on, co) ==
  /\ Machine(on, co) /\ Table(cs, on, co) /\ Known(cs)
  /\ Left(cp, cs, on, co)

-----------------------------------------------------------------------------
(* What a sequence of CPUs holds.                                          *)
LEMMA Typed ==
  ASSUME NEW on, NEW cs, cs \in Seq(Entries(on))
  PROVE  /\ Len(cs) \in Nat /\ DOMAIN cs = 1..Len(cs)
         /\ \A n \in 1..Len(cs) : cs[n] \in Entries(on)
         /\ \A n \in 1..Len(cs) : cs[n].id \in on /\ cs[n].core_id \in Int
<1>1. /\ Len(cs) \in Nat /\ DOMAIN cs = 1..Len(cs)
      /\ \A n \in 1..Len(cs) : cs[n] \in Entries(on)
  OBVIOUS
<1>2. \A e \in Entries(on) : e.id \in on /\ e.core_id \in Int
  BY DEF Entries
<1> QED BY <1>1, <1>2

(* The cores that are known are numbers, and the CPUs can be counted.      *)
LEMMA MachineFacts ==
  ASSUME NEW on, NEW co, Machine(on, co)
  PROVE  /\ Cardinality(on) \in Nat
         /\ \A e \in on : co[e] \in Int /\ co[e] # Taken
         /\ \A c : /\ IsFiniteSet({e \in on : co[e] = c})
                   /\ Total(on, co, c) \in Nat
         /\ \A c \in Cores(on, co) : c \in Nat
<1>1. Cardinality(on) \in Nat
  BY FS_CardinalityType DEF Machine
<1>2. ASSUME NEW e \in on PROVE co[e] \in Int /\ co[e] # Taken
  <2>1. co[e] \in Nat \cup {-1}
    BY DEF Machine, Unknown
  <2> QED BY <2>1 DEF Taken
<1>3. ASSUME NEW c
      PROVE  IsFiniteSet({e \in on : co[e] = c}) /\ Total(on, co, c) \in Nat
  <2> DEFINE A == {e \in on : co[e] = c}
  <2>1. A \in SUBSET on
    OBVIOUS
  <2> HIDE DEF A
  <2>2. IsFiniteSet(A) /\ Cardinality(A) \in Nat
    BY <2>1, FS_Subset, FS_CardinalityType DEF Machine
  <2> QED BY <2>2 DEF A, Total
<1>4. \A c \in Cores(on, co) : c \in Nat
  BY DEF Machine, Cores
<1> QED BY <1>1, <1>2, <1>3, <1>4

(* The count of a prefix is a number, and that of the empty one is 0.      *)
LEMMA CountFacts ==
  ASSUME NEW cs, NEW c
  PROVE  /\ \A m \in Nat : IsFiniteSet(OfCore(cs, m, c)) /\ Count(cs, m, c) \in Nat
         /\ Count(cs, 0, c) = 0
<1>1. ASSUME NEW m \in Nat
      PROVE  IsFiniteSet(OfCore(cs, m, c)) /\ Count(cs, m, c) \in Nat
  <2>1. OfCore(cs, m, c) \in SUBSET (0..m - 1) /\ IsFiniteSet(0..m - 1)
    BY FS_Interval DEF OfCore
  <2> QED BY <2>1, FS_Subset, FS_CardinalityType DEF Count
<1>2. OfCore(cs, 0, c) = {}
  BY DEF OfCore
<1> QED BY <1>1, <1>2, FS_EmptySet DEF Count

(* A table has no more CPUs of a core than there are.                      *)
LEMMA CountBound ==
  ASSUME NEW on, NEW co, NEW cs, Machine(on, co), Table(cs, on, co),
         NEW m \in 0..Len(cs), NEW c
  PROVE  Count(cs, m, c) <= Total(on, co, c)
<1> DEFINE S == OfCore(cs, m, c)
           T == {e \in on : co[e] = c}
           f == [t \in S |-> cs[t + 1].id]
<1>1. \A t \in S : t \in Nat /\ t + 1 \in 1..Len(cs) /\ cs[t + 1].core_id = c
  BY DEF OfCore, Table
<1>2. \A t \in S : f[t] \in T
  <2>1. \A n \in 1..Len(cs) : cs[n].id \in on /\ cs[n].core_id = co[cs[n].id]
    BY Typed DEF Table
  <2> QED BY <1>1, <2>1
<1>3. \A t, u \in S : f[t] = f[u] => t = u
  <2>1. \A k, n \in 1..Len(cs) : cs[k].id = cs[n].id => k = n
    BY DEF Table
  <2>2. ASSUME NEW t \in S, NEW u \in S, f[t] = f[u] PROVE t = u
    <3>1. t + 1 = u + 1
      BY <1>1, <2>1, <2>2
    <3> QED BY <1>1, <3>1
  <2> QED BY <2>2
<1>4. IsFiniteSet(T)
  <2>1. T \in SUBSET on
    OBVIOUS
  <2> HIDE DEF T
  <2> QED BY <2>1, FS_Subset DEF Machine
<1> HIDE DEF S, T
<1>5. f \in Injection(S, T)
  BY <1>2, <1>3 DEF Injection, IsInjective
<1>6. Cardinality(S) <= Cardinality(T)
  BY <1>4, <1>5, FS_Injection
<1> QED BY <1>6 DEF S, T, Count, Total

(* And all of them only if none is left.                                   *)
LEMMA CountLess ==
  ASSUME NEW on, NEW co, NEW cs, Machine(on, co), Table(cs, on, co), NEW c,
         Count(cs, Len(cs), c) < Total(on, co, c)
  PROVE  \E e \in on : co[e] = c /\ \A n \in 1..Len(cs) : cs[n].id # e
<1> SUFFICES ASSUME \A e \in on : co[e] = c => \E n \in 1..Len(cs) : cs[n].id = e
             PROVE  FALSE
  OBVIOUS
<1> DEFINE S == OfCore(cs, Len(cs), c)
           T == {e \in on : co[e] = c}
           f == [t \in S |-> cs[t + 1].id]
<1>1. Len(cs) \in Nat
  BY DEF Table
<1>2. \A n \in 1..Len(cs) : cs[n].id \in on /\ cs[n].core_id = co[cs[n].id]
  BY Typed DEF Table
<1>3. \A t \in S : f[t] \in T
  <2>1. \A t \in S : t + 1 \in 1..Len(cs) /\ cs[t + 1].core_id = c
    BY <1>1 DEF OfCore
  <2> QED BY <1>2, <2>1
<1>4. ASSUME NEW e \in T PROVE \E t \in S : f[t] = e
  <2>1. PICK n \in 1..Len(cs) : cs[n].id = e
    OBVIOUS
  <2>2. cs[n].core_id = c
    BY <1>2, <2>1
  <2>3. n - 1 \in 0..Len(cs) - 1 /\ (n - 1) + 1 = n
    BY <1>1
  <2>4. n - 1 \in S
    BY <2>2, <2>3 DEF OfCore
  <2>5. f[n - 1] = e
    BY <2>1, <2>3, <2>4
  <2> QED BY <2>4, <2>5
<1>5. IsFiniteSet(S) /\ Count(cs, Len(cs), c) \in Nat
  BY <1>1, CountFacts
<1>6. Total(on, co, c) \in Nat
  BY MachineFacts
<1> HIDE DEF S, T
<1>7. f \in Surjection(S, T)
  BY <1>3, <1>4 DEF Surjection
<1>8. Cardinality(T) <= Cardinality(S)
  BY <1>5, <1>7, FS_Surjection
<1> QED BY <1>5, <1>6, <1>8 DEF S, T, Count, Total

(* The copy has every CPU.                                                 *)
LEMMA CopyIsAll ==
  ASSUME NEW cp, NEW on, Cardinality(on) = Len(cp), IsFiniteSet(on),
         cp \in Seq(Entries(on)),
         \A m, n \in 1..Len(cp) : cp[m].id = cp[n].id => m = n
  PROVE  \A e \in on : \E n \in 1..Len(cp) : cp[n].id = e
<1> DEFINE D == 1..Len(cp)
           f == [n \in D |-> cp[n].id]
<1>1. Len(cp) \in Nat
  BY Typed
<1>2. IsFiniteSet(D) /\ Cardinality(D) = Len(cp)
  <2>1. \A k \in Nat : IsFiniteSet(1..k) /\ Cardinality(1..k) = k
    BY ONLY FS_Interval
  <2> QED BY ONLY <1>1, <2>1
<1>3. \A n \in D : f[n] \in on
  BY Typed
<1>4. \A m, n \in D : f[m] = f[n] => m = n
  OBVIOUS
<1> HIDE DEF D
<1>5. f \in Injection(D, on)
  BY <1>3, <1>4 DEF Injection, IsInjective
<1>6. f \in Surjection(D, on)
  BY <1>2, <1>5, FS_Injection
<1> QED BY <1>6 DEF Surjection, D

-----------------------------------------------------------------------------
(* A round takes one CPU of a core at the most, and where the copy is      *)
(* sorted one of each core that has one left.                              *)
LEMMA TakesFacts ==
  ASSUME NEW cp, NEW cs, NEW on, NEW co, Bundle(cp, cs, on, co)
  PROVE  /\ Takes(cp) \in SUBSET (1..Len(cp)) /\ IsFiniteSet(Takes(cp))
         /\ \A n \in Takes(cp) : /\ cp[n].core_id \in Nat
                                 /\ cp[n].core_id = co[cp[n].id]
                                 /\ \A m \in 1..Len(cs) : cs[m].id # cp[n].id
         /\ \A m, n \in Takes(cp) : cp[m].core_id = cp[n].core_id => m = n
         /\ Ordered(cp) =>
              \A k \in 1..Len(cp) : cp[k].core_id \in Nat =>
                \E n \in Takes(cp) : cp[n].core_id = cp[k].core_id
<1>1. /\ DOMAIN cp = 1..Len(cp) /\ Len(cp) \in Nat
      /\ \A n \in 1..Len(cp) : cp[n].core_id \in Int
  BY Typed DEF Bundle, Left
<1>2. Takes(cp) \in SUBSET (1..Len(cp))
  BY <1>1 DEF Takes
<1>3. IsFiniteSet(Takes(cp))
  <2>1. \A k \in Nat : IsFiniteSet(1..k)
    BY ONLY FS_Interval
  <2>2. IsFiniteSet(1..Len(cp))
    BY <1>1, <2>1
  <2> QED BY ONLY <1>2, <2>2, FS_Subset
<1>4. ASSUME NEW n \in Takes(cp)
      PROVE  /\ cp[n].core_id \in Nat
             /\ cp[n].core_id = co[cp[n].id]
             /\ \A m \in 1..Len(cs) : cs[m].id # cp[n].id
  <2>1. n \in 1..Len(cp) /\ cp[n].core_id > -1
    BY <1>2 DEF Takes
  <2>2. cp[n].core_id \in Nat /\ cp[n].core_id # Taken
    BY <1>1, <2>1 DEF Taken
  <2> QED BY <2>1, <2>2 DEF Bundle, Left
<1>5. ASSUME NEW m \in Takes(cp), NEW n \in Takes(cp),
             cp[m].core_id = cp[n].core_id
      PROVE  m = n
  <2>1. m \in 1..Len(cp) /\ n \in 1..Len(cp)
    BY <1>2
  <2>2. /\ \A k \in 1..m - 1 : cp[k].core_id < cp[m].core_id
        /\ \A k \in 1..n - 1 : cp[k].core_id < cp[n].core_id
    BY DEF Takes
  <2>3. ~(cp[m].core_id < cp[n].core_id) /\ ~(cp[n].core_id < cp[m].core_id)
    BY <1>4, <1>5
  <2>4. m \notin 1..n - 1 /\ n \notin 1..m - 1
    BY <2>2, <2>3
  <2> QED BY <2>1, <2>4
<1>6. ASSUME Ordered(cp), NEW k \in 1..Len(cp), cp[k].core_id \in Nat
      PROVE  \E n \in Takes(cp) : cp[n].core_id = cp[k].core_id
  <2> DEFINE c == cp[k].core_id
             T == {n \in 1..Len(cp) : cp[n].core_id = c}
  <2>1. PICK n \in T : \A m \in T : n <= m
    <3>1. T \in SUBSET Nat /\ k \in T
      OBVIOUS
    <3> HIDE DEF T
    <3> QED BY <3>1, LeastNat
  <2>2. n \in 1..Len(cp) /\ cp[n].core_id = c /\ c \in Nat /\ c # Taken
    BY <1>6, <2>1 DEF Taken
  <2>3. ASSUME NEW m \in 1..n - 1 PROVE cp[m].core_id < c
    <3>1. m \in 1..Len(cp) /\ m < n /\ ~(n <= m)
      BY <1>1, <2>2
    <3>2. cp[m].core_id # c
      BY <2>1, <3>1
    <3>3. CASE cp[m].core_id = Taken
      BY <2>2, <3>3 DEF Taken
    <3>4. CASE cp[m].core_id # Taken
      <4>1. cp[m].core_id <= cp[n].core_id
        BY <1>6, <2>2, <3>1, <3>4 DEF Ordered
      <4> QED BY <1>1, <2>2, <3>1, <3>2, <4>1
    <3> QED BY <3>3, <3>4
  <2> HIDE DEF c, T
  <2>4. n \in Takes(cp)
    BY <1>1, <2>2, <2>3 DEF Takes
  <2> QED BY <2>2, <2>4 DEF c
<1> QED BY <1>2, <1>3, <1>4, <1>5, <1>6

(* What the round adds to the table.                                       *)
RoundLen(cp) == Cardinality(Takes(cp))

(* The CPUs of a round are those taken, each once.                         *)
LEMMA RoundFacts ==
  ASSUME NEW cp, NEW cs, NEW on, NEW co, Bundle(cp, cs, on, co)
  PROVE  /\ RoundLen(cp) \in Nat
         /\ RoundOf(cp) \in Seq(Entries(on)) /\ Len(RoundOf(cp)) = RoundLen(cp)
         /\ \A n \in 1..RoundLen(cp) :
              /\ Nth(Takes(cp), n) \in Takes(cp)
              /\ RoundOf(cp)[n] = cp[Nth(Takes(cp), n)]
         /\ \A m, n \in 1..RoundLen(cp) :
              Nth(Takes(cp), m) = Nth(Takes(cp), n) => m = n
         /\ \A k \in Takes(cp) : \E n \in 1..RoundLen(cp) : Nth(Takes(cp), n) = k
<1> DEFINE T == Takes(cp)
           k == RoundLen(cp)
<1>1. T \in SUBSET (1..Len(cp)) /\ IsFiniteSet(T) /\ T \in SUBSET Int
  BY TakesFacts
<1>2. /\ k \in Nat
      /\ \A n \in 1..k : Nth(T, n) \in T
      /\ \A m, n \in 1..k : Nth(T, m) = Nth(T, n) => m = n
      /\ \A x \in T : \E n \in 1..k : Nth(T, n) = x
  BY <1>1, NthEnumerates DEF RoundLen
<1>3. RoundOf(cp) = [n \in 1..k |-> cp[Nth(T, n)]]
  BY DEF RoundOf, RoundLen
<1>4. \A n \in 1..Len(cp) : cp[n] \in Entries(on)
  BY Typed DEF Bundle, Left
<1> HIDE DEF k, T
<1>5. \A n \in 1..k : cp[Nth(T, n)] \in Entries(on)
  BY <1>1, <1>2, <1>4
<1>6. RoundOf(cp) \in Seq(Entries(on)) /\ Len(RoundOf(cp)) = k
  BY <1>2, <1>3, <1>5
<1>7. \A n \in 1..k : RoundOf(cp)[n] = cp[Nth(T, n)]
  BY <1>3
<1> QED BY <1>2, <1>6, <1>7 DEF k, T

(* The table after the round.                                              *)
After(cp, cs) == cs \o RoundOf(cp)

(* The table after a round: as it was, then the round.                     *)
LEMMA AfterFacts ==
  ASSUME NEW cp, NEW cs, NEW on, NEW co, Bundle(cp, cs, on, co)
  PROVE  /\ Len(cs) \in Nat /\ RoundLen(cp) \in Nat
         /\ After(cp, cs) \in Seq(Entries(on))
         /\ Len(After(cp, cs)) = Len(cs) + RoundLen(cp)
         /\ \A n \in 1..Len(cs) : After(cp, cs)[n] = cs[n]
         /\ \A n \in 1..RoundLen(cp) :
              After(cp, cs)[Len(cs) + n] = cp[Nth(Takes(cp), n)]
         /\ \A n \in 1..Len(After(cp, cs)) :
              \/ n \in 1..Len(cs)
              \/ \E k \in 1..RoundLen(cp) : n = Len(cs) + k
<1> DEFINE r == RoundOf(cp)
           E == Entries(on)
<1>1. cs \in Seq(E) /\ r \in Seq(E) /\ Len(r) = RoundLen(cp) /\ RoundLen(cp) \in Nat
  BY RoundFacts DEF Bundle, Table
<1>2. \A n \in 1..RoundLen(cp) : r[n] = cp[Nth(Takes(cp), n)]
  BY RoundFacts
<1> HIDE DEF r, E
<1>3. /\ Len(cs) \in Nat
      /\ cs \o r \in Seq(E) /\ Len(cs \o r) = Len(cs) + Len(r)
      /\ \A n \in 1..Len(cs) : (cs \o r)[n] = cs[n]
      /\ \A n \in 1..Len(r) : (cs \o r)[Len(cs) + n] = r[n]
  BY <1>1
<1>4. ASSUME NEW n \in 1..(Len(cs) + Len(r)), n \notin 1..Len(cs)
      PROVE  \E k \in 1..Len(r) : n = Len(cs) + k
  <2>1. n - Len(cs) \in 1..Len(r) /\ n = Len(cs) + (n - Len(cs))
    BY <1>1, <1>3, <1>4
  <2> QED BY <2>1
<1> QED BY <1>1, <1>2, <1>3, <1>4 DEF After, r, E

(* A round adds online CPUs that the table has not got.                    *)
LEMMA TableGrows ==
  ASSUME NEW cp, NEW cs, NEW on, NEW co, Bundle(cp, cs, on, co)
  PROVE  Table(After(cp, cs), on, co) /\ Known(After(cp, cs))
<1> DEFINE c2 == After(cp, cs)
           k == RoundLen(cp)
           N(n) == Nth(Takes(cp), n)
<1>1. /\ Len(cs) \in Nat /\ k \in Nat
      /\ c2 \in Seq(Entries(on)) /\ Len(c2) = Len(cs) + k
      /\ \A n \in 1..Len(cs) : c2[n] = cs[n]
      /\ \A n \in 1..k : c2[Len(cs) + n] = cp[N(n)]
      /\ \A n \in 1..Len(c2) : \/ n \in 1..Len(cs)
                               \/ \E h \in 1..k : n = Len(cs) + h
  BY AfterFacts
<1>2. \A n \in 1..k : /\ cp[N(n)].core_id \in Nat
                      /\ cp[N(n)].core_id = co[cp[N(n)].id]
                      /\ \A m \in 1..Len(cs) : cs[m].id # cp[N(n)].id
                      /\ N(n) \in 1..Len(cp)
  BY RoundFacts, TakesFacts
<1>3. \A m, n \in 1..k : cp[N(m)].id = cp[N(n)].id => m = n
  <2>1. \A m, n \in 1..Len(cp) : cp[m].id = cp[n].id => m = n
    BY DEF Bundle, Left
  <2>2. \A m, n \in 1..k : N(m) = N(n) => m = n
    BY RoundFacts
  <2> QED BY <1>2, <2>1, <2>2
<1>4. /\ \A n \in 1..Len(cs) : cs[n].core_id = co[cs[n].id] /\ cs[n].core_id # Unknown
      /\ \A m, n \in 1..Len(cs) : cs[m].id = cs[n].id => m = n
  BY DEF Bundle, Table, Known
<1> HIDE DEF c2, k, N
<1>5. ASSUME NEW n \in 1..Len(c2)
      PROVE  c2[n].core_id = co[c2[n].id] /\ c2[n].core_id # Unknown
  <2>1. CASE n \in 1..Len(cs)
    BY <1>1, <1>4, <2>1
  <2>2. ASSUME NEW h \in 1..k, n = Len(cs) + h
        PROVE  c2[n].core_id = co[c2[n].id] /\ c2[n].core_id # Unknown
    <3>1. c2[n] = cp[N(h)] /\ cp[N(h)].core_id \in Nat
      BY <1>1, <1>2, <2>2
    <3>2. cp[N(h)].core_id # Unknown
      BY <3>1 DEF Unknown
    <3> QED BY <1>2, <3>1, <3>2
  <2> QED BY <1>1, <2>1, <2>2
<1>6. ASSUME NEW m \in 1..Len(c2), NEW n \in 1..Len(c2), c2[m].id = c2[n].id
      PROVE  m = n
  <2>1. CASE m \in 1..Len(cs) /\ n \in 1..Len(cs)
    BY <1>1, <1>4, <1>6, <2>1
  <2>2. ASSUME NEW h \in 1..k, n = Len(cs) + h, m \in 1..Len(cs) PROVE FALSE
    BY <1>1, <1>2, <1>6, <2>2
  <2>3. ASSUME NEW h \in 1..k, m = Len(cs) + h, n \in 1..Len(cs) PROVE FALSE
    BY <1>1, <1>2, <1>6, <2>3
  <2>4. ASSUME NEW h \in 1..k, m = Len(cs) + h, NEW g \in 1..k, n = Len(cs) + g
        PROVE  m = n
    <3>1. cp[N(h)].id = cp[N(g)].id
      BY <1>1, <1>6, <2>4
    <3> QED BY <1>3, <2>4, <3>1
  <2> QED BY <1>1, <2>1, <2>2, <2>3, <2>4
<1> QED BY <1>1, <1>5, <1>6 DEF Table, Known, c2

(* The CPUs that the round took are those that the copy has lost.          *)
LEMMA LeftShrinks ==
  ASSUME NEW cp, NEW cs, NEW on, NEW co, Bundle(cp, cs, on, co)
  PROVE  /\ Left(AfterRound(cp), After(cp, cs), on, co)
         /\ Ordered(cp) => Ordered(AfterRound(cp))
<1> DEFINE c2 == After(cp, cs)
           p2 == AfterRound(cp)
           k == RoundLen(cp)
           T == Takes(cp)
           N(n) == Nth(T, n)
<1>1. /\ cp \in Seq(Entries(on)) /\ Len(cp) \in Nat /\ DOMAIN cp = 1..Len(cp)
      /\ Len(cp) = Cardinality(on)
      /\ \A n \in 1..Len(cp) : cp[n] \in Entries(on)
      /\ \A n \in 1..Len(cp) : cp[n].id \in on /\ cp[n].core_id \in Int
  BY Typed DEF Bundle, Left
<1>2. p2 = [n \in 1..Len(cp) |->
              IF n \in T THEN [cp[n] EXCEPT !.core_id = Taken] ELSE cp[n]]
  BY <1>1 DEF AfterRound
<1>3. \A e \in Entries(on) : LET f == [e EXCEPT !.core_id = Taken] IN
        f \in Entries(on) /\ f.id = e.id /\ f.core_id = Taken
  BY DEF Entries, Taken
<1> HIDE DEF T
<1>4. \A n \in 1..Len(cp) :
        /\ p2[n] \in Entries(on) /\ p2[n].id = cp[n].id
        /\ p2[n].core_id = IF n \in T THEN Taken ELSE cp[n].core_id
  BY <1>1, <1>2, <1>3
<1>5. p2 \in Seq(Entries(on)) /\ Len(p2) = Len(cp)
  <2> HIDE DEF p2
  <2>1. p2 \in [1..Len(cp) -> Entries(on)]
    BY <1>2, <1>4
  <2> QED BY <1>1, <2>1
<1>6. /\ Len(cs) \in Nat /\ k \in Nat
      /\ Len(c2) = Len(cs) + k
      /\ \A n \in 1..Len(cs) : c2[n] = cs[n]
      /\ \A n \in 1..k : c2[Len(cs) + n] = cp[N(n)]
      /\ \A n \in 1..Len(c2) : \/ n \in 1..Len(cs)
                               \/ \E h \in 1..k : n = Len(cs) + h
  BY AfterFacts DEF T
<1>7. /\ \A n \in 1..k : N(n) \in T
      /\ \A m \in T : \E n \in 1..k : N(n) = m
      /\ T \in SUBSET (1..Len(cp))
  BY RoundFacts, TakesFacts DEF T
<1>8. /\ \A m, n \in 1..Len(cp) : cp[m].id = cp[n].id => m = n
      /\ \A n \in 1..Len(cp) : cp[n].core_id \in {Taken, co[cp[n].id]}
      /\ \A n \in 1..Len(cp) : cp[n].core_id = Taken <=>
           \E m \in 1..Len(cs) : cs[m].id = cp[n].id
  BY DEF Bundle, Left
<1> HIDE DEF c2, p2, k, N
<1>9. ASSUME NEW n \in 1..Len(cp)
      PROVE  p2[n].core_id = Taken <=> \E m \in 1..Len(c2) : c2[m].id = p2[n].id
  <2>1. CASE n \in T
    <3>1. PICK m \in 1..k : N(m) = n
      BY <1>7, <2>1
    <3>2. Len(cs) + m \in 1..Len(c2) /\ c2[Len(cs) + m] = cp[n]
      BY <1>6, <3>1
    <3> QED BY <1>4, <2>1, <3>2
  <2>2. CASE n \notin T
    <3>1. ASSUME NEW m \in 1..Len(cs), cs[m].id = cp[n].id
          PROVE  \E h \in 1..Len(c2) : c2[h].id = cp[n].id
      <4>1. m \in 1..Len(c2) /\ c2[m] = cs[m]
        BY <1>6
      <4> QED BY <3>1, <4>1
    <3>2. ASSUME NEW m \in 1..Len(c2), c2[m].id = cp[n].id
          PROVE  \E h \in 1..Len(cs) : cs[h].id = cp[n].id
      <4>1. CASE m \in 1..Len(cs)
        BY <1>6, <3>2, <4>1
      <4>2. ASSUME NEW h \in 1..k, m = Len(cs) + h PROVE FALSE
        <5>1. cp[N(h)].id = cp[n].id /\ N(h) \in T /\ N(h) \in 1..Len(cp)
          BY <1>6, <1>7, <3>2, <4>2
        <5>2. N(h) = n
          BY <1>8, <5>1
        <5> QED BY <2>2, <5>1, <5>2
      <4> QED BY <1>6, <4>1, <4>2
    <3> QED BY <1>4, <1>8, <2>2, <3>1, <3>2
  <2> QED BY <2>1, <2>2
<1>10. \A n \in 1..Len(cp) : p2[n].core_id \in {Taken, co[p2[n].id]}
  BY <1>4, <1>8
<1>11. \A m, n \in 1..Len(cp) : p2[m].id = p2[n].id => m = n
  BY <1>4, <1>8
<1>12. ASSUME Ordered(cp) PROVE Ordered(p2)
  <2>1. \A n \in 1..Len(cp) :
          p2[n].core_id = Taken \/ p2[n].core_id = cp[n].core_id
    BY <1>4
  <2> QED BY <1>4, <1>5, <1>12, <2>1 DEF Ordered
<1> HIDE DEF Taken
<1>13. Left(p2, c2, on, co)
  BY <1>1, <1>5, <1>9, <1>10, <1>11 DEF Left
<1> QED BY <1>12, <1>13 DEF p2, c2

-----------------------------------------------------------------------------
(* A round adds one at the most to each core's count.                      *)
LEMMA CountBefore ==
  ASSUME NEW cp, NEW cs, NEW on, NEW co, Bundle(cp, cs, on, co),
         NEW m \in 0..Len(cs), NEW c
  PROVE  Count(After(cp, cs), m, c) = Count(cs, m, c)
<1>1. Len(cs) \in Nat /\ \A n \in 1..Len(cs) : After(cp, cs)[n] = cs[n]
  BY AfterFacts
<1>2. \A t \in 0..m - 1 : t + 1 \in 1..Len(cs)
  BY <1>1
<1>3. OfCore(After(cp, cs), m, c) = OfCore(cs, m, c)
  BY <1>1, <1>2 DEF OfCore
<1> QED BY <1>3 DEF Count

(* Within a round a core's count grows by one at the most.                 *)
LEMMA CountInRound ==
  ASSUME NEW cp, NEW cs, NEW on, NEW co, Bundle(cp, cs, on, co),
         NEW p \in 0..RoundLen(cp), NEW c
  PROVE  LET n == Count(cs, Len(cs), c)
             q == Count(After(cp, cs), Len(cs) + p, c)
             one == \E h \in 1..p : cp[Nth(Takes(cp), h)].core_id = c
         IN  q = IF one THEN n + 1 ELSE n
<1> DEFINE c2 == After(cp, cs)
           L == Len(cs)
           k == RoundLen(cp)
           N(h) == Nth(Takes(cp), h)
           A == OfCore(cs, L, c)
           B == OfCore(c2, L + p, c)
<1>1. /\ L \in Nat /\ k \in Nat /\ p \in Nat /\ p <= k
      /\ \A n \in 1..L : c2[n] = cs[n]
      /\ \A n \in 1..k : c2[L + n] = cp[N(n)]
  BY AfterFacts
<1>2. \A g, h \in 1..k : cp[N(g)].core_id = cp[N(h)].core_id => g = h
  <2>1. \A g, h \in 1..k : N(g) = N(h) => g = h
    BY RoundFacts
  <2>2. \A h \in 1..k : N(h) \in Takes(cp)
    BY RoundFacts
  <2>3. \A x, y \in Takes(cp) : cp[x].core_id = cp[y].core_id => x = y
    BY TakesFacts
  <2> HIDE DEF N
  <2> QED BY <2>1, <2>2, <2>3
<1>3. IsFiniteSet(A) /\ Cardinality(A) = Count(cs, L, c)
  BY <1>1, CountFacts DEF Count
<1> HIDE DEF c2, L, k, N
<1>4. \A t \in 0..L - 1 : t \in A <=> t \in B
  <2>1. \A t \in 0..L - 1 : t + 1 \in 1..L /\ t \in 0..(L + p) - 1
    BY <1>1
  <2> QED BY <1>1, <2>1 DEF OfCore
<1>5. /\ \A t \in A : t \in 0..L - 1
      /\ \A t \in B : t \in 0..(L + p) - 1
      /\ \A t \in B : t \in 0..L - 1 \/ \E h \in 1..p : t = L + h - 1
  <2>1. \A t \in 0..(L + p) - 1 : t \in 0..L - 1 \/ t - L + 1 \in 1..p
    BY <1>1
  <2>2. \A t \in 0..(L + p) - 1 : t = L + (t - L + 1) - 1
    BY <1>1
  <2>3. A \subseteq 0..L - 1 /\ B \subseteq 0..(L + p) - 1
    BY DEF OfCore
  <2> HIDE DEF A, B
  <2> QED BY <2>1, <2>2, <2>3
<1>6. \A h \in 1..p : L + h - 1 \in B <=> cp[N(h)].core_id = c
  <2>1. \A h \in 1..p : /\ h \in 1..k /\ L + h - 1 \in 0..(L + p) - 1
                        /\ (L + h - 1) + 1 = L + h
    BY <1>1
  <2> QED BY <1>1, <2>1 DEF OfCore
<1>7. ASSUME NEW h \in 1..p, cp[N(h)].core_id = c
      PROVE  Cardinality(B) = Cardinality(A) + 1
  <2>1. \A g \in 1..p : L + g - 1 \in B => g = h
    <3>1. \A g \in 1..p : g \in 1..k
      BY <1>1
    <3> QED BY <1>2, <1>6, <1>7, <3>1
  <2>2. L + h - 1 \in B /\ L + h - 1 \notin 0..L - 1
    BY <1>1, <1>6, <1>7
  <2> HIDE DEF A, B
  <2>3. B = A \cup {L + h - 1} /\ L + h - 1 \notin A
    BY <1>4, <1>5, <2>1, <2>2
  <2> QED BY <1>3, <2>3, FS_AddElement
<1>8. ASSUME \A h \in 1..p : cp[N(h)].core_id # c
      PROVE  Cardinality(B) = Cardinality(A)
  <2>1. B = A
    <3> HIDE DEF A, B
    <3> QED BY <1>4, <1>5, <1>6, <1>8
  <2> QED BY <2>1
<1>9. Cardinality(B) = IF \E h \in 1..p : cp[N(h)].core_id = c
                         THEN Cardinality(A) + 1 ELSE Cardinality(A)
  BY <1>7, <1>8
<1> QED BY <1>3, <1>9 DEF Count, c2, L, N

(* The next count of a core, n or n + 1 by whether the round has come to   *)
(* it, where it had r or all its CPUs before.                              *)
LEMMA Balanced ==
  ASSUME NEW r \in Nat, NEW tc \in Nat, NEW td \in Nat,
         NEW nc \in Nat, NEW nd \in Nat, NEW qc \in Nat, NEW qd \in Nat,
         nc = (IF r < tc THEN r ELSE tc), nd = (IF r < td THEN r ELSE td),
         qc \in {nc, nc + 1}, qd \in {nd, nd + 1}, qc <= tc, qd <= td,
         qc > qd + 1
  PROVE  qd = td
  OBVIOUS

(* A round keeps every prefix fair.                                        *)
LEMMA RoundIsFair ==
  ASSUME NEW cp, NEW cs, NEW on, NEW co, Bundle(cp, cs, on, co),
         Fair(cs, on, co), Rounds(cs, on, co)
  PROVE  Fair(After(cp, cs), on, co)
<1> DEFINE c2 == After(cp, cs)
           L == Len(cs)
           k == RoundLen(cp)
<1>1. L \in Nat /\ k \in Nat /\ Len(c2) = L + k
  BY AfterFacts
<1>2. PICK r \in Nat : \A c \in Cores(on, co) :
        Count(cs, L, c) = IF r < Total(on, co, c) THEN r ELSE Total(on, co, c)
  BY DEF Rounds
<1> SUFFICES ASSUME NEW m \in 0..Len(c2),
                    NEW c \in Cores(on, co), NEW d \in Cores(on, co),
                    Count(c2, m, c) > Count(c2, m, d) + 1
             PROVE  Count(c2, m, d) = Total(on, co, d)
  BY DEF Fair
<1>3. CASE m <= L
  <2>1. m \in 0..L
    BY <1>1, <1>3
  <2>2. Count(c2, m, c) = Count(cs, m, c) /\ Count(c2, m, d) = Count(cs, m, d)
    BY <2>1, CountBefore
  <2> QED BY <2>1, <2>2 DEF Fair
<1>4. CASE ~(m <= L)
  <2>1. PICK p \in 0..k : m = L + p
    <3>1. m - L \in 0..k /\ m = L + (m - L)
      BY <1>1, <1>4
    <3> QED BY <3>1
  <2>2. Machine(on, co) /\ Table(c2, on, co)
    BY TableGrows DEF Bundle
  <2>3. \A e : Total(on, co, e) \in Nat
    BY <2>2, MachineFacts
  <2>4. \A e : Count(cs, L, e) \in Nat /\ Count(c2, m, e) \in Nat
    <3>1. m \in Nat
      BY <1>1
    <3> QED BY <1>1, <3>1, CountFacts
  <2>5. \A e : Count(c2, m, e) <= Total(on, co, e)
    BY <2>2, CountBound
  <2>6. \A e : Count(c2, m, e) \in {Count(cs, L, e), Count(cs, L, e) + 1}
    BY <2>1, CountInRound
  <2> HIDE DEF c2, L, k
  <2> QED BY <1>2, <2>3, <2>4, <2>5, <2>6, Balanced
<1> QED BY <1>3, <1>4

(* At the end of a round each core has given one CPU more, or all it has.  *)
LEMMA RoundIsWhole ==
  ASSUME NEW cp, NEW cs, NEW on, NEW co, Bundle(cp, cs, on, co),
         Ordered(cp), Rounds(cs, on, co)
  PROVE  Rounds(After(cp, cs), on, co)
<1> DEFINE c2 == After(cp, cs)
           L == Len(cs)
           k == RoundLen(cp)
           N(h) == Nth(Takes(cp), h)
<1>1. L \in Nat /\ k \in Nat /\ Len(c2) = L + k
  BY AfterFacts
<1>2. PICK r \in Nat : \A c \in Cores(on, co) :
        Count(cs, L, c) = IF r < Total(on, co, c) THEN r ELSE Total(on, co, c)
  BY DEF Rounds
<1>3. /\ Machine(on, co) /\ Table(cs, on, co) /\ Table(c2, on, co)
      /\ Left(cp, cs, on, co)
  BY TableGrows DEF Bundle
<1>4. ASSUME NEW c \in Cores(on, co)
      PROVE  Count(c2, L + k, c) = IF r + 1 < Total(on, co, c) THEN r + 1
                                     ELSE Total(on, co, c)
  <2> DEFINE t == Total(on, co, c)
             n == Count(cs, L, c)
             q == Count(c2, L + k, c)
  <2>1. t \in Nat /\ n \in Nat /\ q \in Nat /\ n = (IF r < t THEN r ELSE t)
    <3>1. L + k \in Nat
      BY <1>1
    <3> QED BY <1>1, <1>2, <1>3, <3>1, MachineFacts, CountFacts
  <2>2. q <= t
    <3>1. L + k \in 0..Len(c2)
      BY <1>1
    <3> QED BY <1>3, <3>1, CountBound
  <2>3. q \in {n, n + 1}
    <3>1. k \in 0..RoundLen(cp)
      BY <1>1
    <3> QED BY <3>1, CountInRound
  <2>4. CASE r < t
    <3>1. n < t
      BY <2>1, <2>4
    <3>2. PICK e \in on : co[e] = c /\ \A m \in 1..L : cs[m].id # e
      BY <1>3, <3>1, CountLess
    <3>3. PICK m \in 1..Len(cp) : cp[m].id = e
      BY <1>3, CopyIsAll DEF Left, Machine
    <3>4. cp[m].core_id = c
      BY <1>3, <3>2, <3>3 DEF Left
    <3>5. c \in Nat
      BY <1>3, MachineFacts
    <3>6. PICK w \in Takes(cp) : cp[w].core_id = c
      BY <3>4, <3>5, TakesFacts
    <3>7. PICK h \in 1..k : N(h) = w
      BY RoundFacts
    <3>8. q = n + 1
      <4>1. k \in 0..RoundLen(cp)
        BY <1>1
      <4>2. \E g \in 1..k : cp[N(g)].core_id = c
        BY <3>6, <3>7
      <4> QED BY <4>1, <4>2, CountInRound
    <3> HIDE DEF q, n, t
    <3>9. q = IF r + 1 < t THEN r + 1 ELSE t
      BY <2>1, <2>2, <2>4, <3>8
    <3> QED BY <3>9 DEF q, t
  <2>5. CASE ~(r < t)
    <3> HIDE DEF q, n, t
    <3>1. q = IF r + 1 < t THEN r + 1 ELSE t
      BY <2>1, <2>2, <2>3, <2>5
    <3> QED BY <3>1 DEF q, t
  <2> QED BY <2>4, <2>5
<1>5. r + 1 \in Nat
  OBVIOUS
<1> QED BY <1>1, <1>4, <1>5 DEF Rounds

-----------------------------------------------------------------------------
(* How often k comes up when m numbers are dealt out to n in turn.         *)
Dealt(m, n, k) == {t \in 0..m - 1 : t % n = k}

(* Division with remainder.                                                *)
LEMMA Quotient ==
  ASSUME NEW n \in Nat \ {0}, NEW t \in Nat
  PROVE  /\ t \div n \in Nat /\ t % n \in 0..n - 1
         /\ t = n * (t \div n) + (t % n)
  BY SMT

(* Division with remainder, from the quotient and the remainder.           *)
LEMMA QuotientOf ==
  ASSUME NEW n \in Nat \ {0}, NEW q \in Nat, NEW k \in 0..n - 1
  PROVE  (n * q + k) \div n = q /\ (n * q + k) % n = k /\ n * q + k \in Nat
  BY SMT

(* Multiples below a bound are those of the quotients below it.            *)
LEMMA QuotientOrder ==
  ASSUME NEW n \in Nat \ {0}, NEW q \in Nat, NEW p \in Nat, NEW k \in Nat,
         NEW h \in 0..n - 1
  PROVE  (n * q + k <= n * p + h + k) <=> q <= p
<1>1. q <= p => n * q <= n * p
  BY SMT
<1>2. q >= p + 1 => n * q >= n * (p + 1)
  BY SMT
<1>3. n * (p + 1) = n * p + n
  BY SMT
<1> DEFINE x == n * q
           y == n * p
           z == n * (p + 1)
<1>4. x \in Nat /\ y \in Nat /\ z \in Nat
  BY SMT
<1> HIDE DEF x, y, z
<1>5. /\ q <= p => x <= y
      /\ q >= p + 1 => x >= z
      /\ z = y + n
  BY <1>1, <1>2, <1>3 DEF x, y, z
<1>6. (x + k <= y + h + k) <=> q <= p
  BY <1>4, <1>5
<1> QED BY <1>6 DEF x, y

(* How many of m are dealt to the k-th of n.                               *)
LEMMA DealtCount ==
  ASSUME NEW n \in Nat \ {0}, NEW m \in Nat, n <= m, NEW k \in 0..n - 1
  PROVE  /\ IsFiniteSet(Dealt(m, n, k))
         /\ (m - 1 - k) \div n \in Nat
         /\ Cardinality(Dealt(m, n, k)) = (m - 1 - k) \div n + 1
<1> DEFINE x == m - 1 - k
           p == x \div n
           h == x % n
           Q == 0..p
           S == Dealt(m, n, k)
           f == [q \in Q |-> n * q + k]
<1>1. x \in Nat /\ x + k = m - 1 /\ k \in Nat
  OBVIOUS
<1>2. p \in Nat /\ h \in 0..n - 1 /\ x = n * p + h
  <2> HIDE DEF x
  <2> QED BY <1>1, Quotient
<1> HIDE DEF x, p, h
<1>3. ASSUME NEW q \in Nat
      PROVE  n * q + k <= m - 1 <=> q <= p
  <2>1. (n * q + k <= n * p + h + k) <=> q <= p
    BY <1>1, <1>2, QuotientOrder
  <2>2. n * p + h + k = m - 1
    BY <1>1, <1>2
  <2> QED BY <2>1, <2>2
<1>4. ASSUME NEW q \in Q PROVE n * q + k \in S
  <2>1. q \in Nat /\ q <= p
    BY <1>2
  <2>2. n * q + k \in Nat /\ (n * q + k) % n = k /\ n * q + k <= m - 1
    BY <1>3, <2>1, QuotientOf
  <2> DEFINE y == n * q + k
  <2> HIDE DEF y
  <2>3. y \in 0..m - 1 /\ y % n = k
    BY <2>2 DEF y
  <2>4. y \in S
    BY <2>3 DEF Dealt
  <2> QED BY <2>4 DEF y
<1>5. ASSUME NEW t \in S PROVE \E q \in Q : n * q + k = t
  <2>1. t \in Nat /\ t <= m - 1 /\ t % n = k
    BY DEF Dealt
  <2>2. t \div n \in Nat /\ t = n * (t \div n) + k
    BY <2>1, Quotient
  <2>3. t \div n <= p
    BY <1>3, <2>1, <2>2
  <2>4. t \div n \in Q
    BY <1>2, <2>2, <2>3
  <2> QED BY <2>2, <2>4
<1>6. ASSUME NEW q \in Q, NEW u \in Q, n * q + k = n * u + k PROVE q = u
  <2>1. q \in Nat /\ u \in Nat
    BY <1>2
  <2> QED BY <1>6, <2>1, QuotientOf
<1>7. IsFiniteSet(Q) /\ Cardinality(Q) = p + 1
  <2>1. \A z \in Nat : IsFiniteSet(0..z) /\ Cardinality(0..z) = z + 1
    BY FS_Interval
  <2> QED BY <1>2, <2>1
<1> HIDE DEF Q, S
<1>8. f \in Injection(Q, S) /\ f \in Surjection(Q, S)
  BY <1>4, <1>5, <1>6 DEF Injection, Surjection, IsInjective
<1>9. IsFiniteSet(S) /\ Cardinality(S) = Cardinality(Q)
  BY <1>7, <1>8, FS_Surjection
<1> QED BY <1>2, <1>7, <1>9 DEF S, p, x

(* Nobody gets two more than another.                                      *)
LEMMA DealtEvenly ==
  ASSUME NEW n \in Nat \ {0}, NEW m \in Nat, n <= m,
         NEW k \in 0..n - 1, NEW h \in 0..n - 1
  PROVE  /\ Cardinality(Dealt(m, n, k)) >= 1
         /\ Cardinality(Dealt(m, n, k)) <= Cardinality(Dealt(m, n, h)) + 1
<1> DEFINE x == m - 1 - k
           y == m - 1 - h
<1>1. x \in Nat /\ y \in Nat /\ x < y + n
  OBVIOUS
<1>2. x \div n \in Nat /\ y \div n \in Nat
  BY DealtCount
<1>3. /\ Cardinality(Dealt(m, n, k)) = x \div n + 1
      /\ Cardinality(Dealt(m, n, h)) = y \div n + 1
  BY DealtCount
<1> HIDE DEF x, y
<1>4. x \div n <= y \div n + 1
  BY <1>1, SMT
<1> QED BY <1>2, <1>3, <1>4

-----------------------------------------------------------------------------
(* qsort leaves the same CPUs, and nothing is in the new table yet.        *)
LEMMA SortKeeps ==
  ASSUME NEW on, NEW co, NEW cs, NEW cp, Machine(on, co), Table(cs, on, co),
         Len(cs) = Cardinality(on), cp \in Orders(cs)
  PROVE  /\ Bundle(cp, <<>>, on, co)
         /\ cp \in SortCoreId(cs) => Ordered(cp)
         /\ Fair(<<>>, on, co) /\ Rounds(<<>>, on, co)
<1> DEFINE D == 1..Len(cs)
<1>1. /\ Len(cs) \in Nat /\ DOMAIN cs = D
      /\ \A n \in D : cs[n] \in Entries(on) /\ cs[n].core_id = co[cs[n].id]
      /\ \A n \in D : cs[n].id \in on /\ cs[n].core_id \in Int
      /\ \A m, n \in D : cs[m].id = cs[n].id => m = n
  BY Typed DEF Table
<1>2. PICK p \in [D -> D] :
        /\ \A m, n \in D : m # n => p[m] # p[n]
        /\ cp = [n \in D |-> cs[p[n]]]
  <2> DEFINE C == DOMAIN cs
  <2>1. C = D
    BY <1>1
  <2>2. cp \in {[n \in C |-> cs[p[n]]] :
                 p \in {p \in [C -> C] :
                          \A m, n \in C : m # n => p[m] # p[n]}}
    BY DEF Orders
  <2> HIDE DEF C
  <2>3. \E p \in [C -> C] :
          /\ \A m, n \in C : m # n => p[m] # p[n]
          /\ cp = [n \in C |-> cs[p[n]]]
    BY <2>2, Zenon
  <2> HIDE DEF D
  <2> QED BY <2>1, <2>3
<1>3. \A n \in D : cp[n] = cs[p[n]] /\ p[n] \in D
  BY <1>2
<1>4. cp \in Seq(Entries(on)) /\ Len(cp) = Len(cs)
  <2>1. cp \in [D -> Entries(on)]
    BY <1>1, <1>2, <1>3
  <2> QED BY ONLY <1>1, <2>1
<1>5. \A n \in D : cp[n].core_id = co[cp[n].id] /\ cp[n].core_id # Taken
  BY <1>1, <1>3, MachineFacts
<1>6. \A m, n \in D : cp[m].id = cp[n].id => m = n
  BY <1>1, <1>2, <1>3
<1>7. Left(cp, <<>>, on, co)
  BY <1>1, <1>2, <1>4, <1>5, <1>6 DEF Left
<1>8. Table(<<>>, on, co) /\ Known(<<>>)
  BY DEF Table, Known
<1>9. \A c : Count(<<>>, 0, c) = 0
  BY CountFacts
<1>10. Fair(<<>>, on, co)
  <2>1. \A m \in 0..Len(<<>>) : m = 0
    OBVIOUS
  <2> QED BY <1>9, <2>1 DEF Fair
<1>11. Rounds(<<>>, on, co)
  <2>1. \A c : Total(on, co, c) \in Nat
    BY MachineFacts
  <2>2. \A c : Count(<<>>, Len(<<>>), c)
               = IF 0 < Total(on, co, c) THEN 0 ELSE Total(on, co, c)
    BY <1>9, <2>1
  <2>3. 0 \in Nat
    OBVIOUS
  <2> QED BY <2>2, <2>3 DEF Rounds
<1>12. ASSUME cp \in SortCoreId(cs) PROVE Ordered(cp)
  <2>1. \A m, n \in DOMAIN cs : m < n => cp[m].core_id <= cp[n].core_id
    BY <1>12 DEF SortCoreId
  <2>2. Len(cp) = Len(cs) /\ DOMAIN cs = 1..Len(cs)
    BY <1>1, <1>4
  <2> HIDE DEF D
  <2> QED BY ONLY <2>1, <2>2 DEF Ordered
<1> QED BY <1>7, <1>8, <1>10, <1>11, <1>12 DEF Bundle

(* What cputopInit leaves.                                                 *)
LEMMA FilledTable ==
  ASSUME NEW on, NEW co, Machine(on, co)
  PROVE  /\ Table(FillCoreCPU(FillLogicCPU(Runs(on)), co), on, co)
         /\ Len(FillCoreCPU(FillLogicCPU(Runs(on)), co)) = Cardinality(on)
<1> DEFINE ids == FillLogicCPU(Runs(on))
           cs == FillCoreCPU(ids, co)
<1>1. Lists(ids, on)
  BY ListParsed DEF Machine
<1> HIDE DEF ids
<1>2. Cardinality(on) = Len(ids) /\ Len(ids) \in Nat
  BY <1>1, ListsLen
<1>3. \A n \in 1..Len(ids) : ids[n] \in on /\ co[ids[n]] \in Int
  BY <1>1, MachineFacts DEF Lists
<1>4. cs = [n \in 1..Len(ids) |-> [id |-> ids[n], core_id |-> co[ids[n]]]]
  BY DEF FillCoreCPU
<1>5. \A n \in 1..Len(ids) : /\ cs[n] \in Entries(on)
                             /\ cs[n].id = ids[n] /\ cs[n].core_id = co[ids[n]]
  BY <1>3, <1>4 DEF Entries
<1>6. cs \in Seq(Entries(on)) /\ Len(cs) = Len(ids)
  <2> HIDE DEF cs
  <2>1. cs \in [1..Len(ids) -> Entries(on)]
    BY <1>4, <1>5
  <2> QED BY <1>2, <2>1
<1>7. \A m, n \in 1..Len(ids) : ids[m] = ids[n] => m = n
  BY <1>1 DEF Lists
<1> HIDE DEF cs
<1>8. Table(cs, on, co) /\ Len(cs) = Cardinality(on)
  BY <1>2, <1>5, <1>6, <1>7 DEF Table
<1> QED BY <1>8 DEF cs, ids

(* A table is no longer than the machine, and with all of it every core is *)
(* known.                                                                  *)
LEMMA FullTable ==
  ASSUME NEW on, NEW co, NEW cs, Machine(on, co), Table(cs, on, co)
  PROVE  /\ Len(cs) <= Cardinality(on)
         /\ Len(cs) = Cardinality(on) =>
              \A e \in on : \E n \in 1..Len(cs) : cs[n].id = e
<1>1. /\ cs \in Seq(Entries(on)) /\ Len(cs) \in Nat
      /\ \A n \in 1..Len(cs) : cs[n].id \in on
      /\ \A m, n \in 1..Len(cs) : cs[m].id = cs[n].id => m = n
      /\ IsFiniteSet(on)
  BY Typed DEF Table, Machine
<1> DEFINE D == 1..Len(cs)
           f == [n \in D |-> cs[n].id]
<1>2. Cardinality(D) = Len(cs)
  <2>1. \A k \in Nat : Cardinality(1..k) = k
    BY FS_Interval
  <2> QED BY ONLY <1>1, <2>1
<1>3. f \in Injection(D, on)
  <2> HIDE DEF D
  <2>1. \A n \in D : cs[n].id \in on
    BY <1>1 DEF D
  <2>2. \A m, n \in D : cs[m].id = cs[n].id => m = n
    BY <1>1 DEF D
  <2> QED BY <2>1, <2>2 DEF Injection, IsInjective
<1>4. Cardinality(D) <= Cardinality(on)
  BY <1>1, <1>3, FS_Injection
<1>5. Len(cs) = Cardinality(on) =>
        \A e \in on : \E n \in 1..Len(cs) : cs[n].id = e
  BY <1>1, CopyIsAll
<1> QED BY <1>2, <1>4, <1>5

-----------------------------------------------------------------------------
(* Where hpcIntegral is, the table is that of the online CPUs: as read, in *)
(* rounds, and complete when the threads are distributed.                  *)
LoadInv ==
  /\ Machine(online, core) /\ online # {}
  /\ num_threads \in Nat \ {0}
  /\ pc = "sort" => /\ Table(cpus, online, core)
                    /\ Len(cpus) = Cardinality(online)
  /\ pc = "rounds" =>
       /\ Bundle(copy, cpus, online, core)
       /\ "qsort" \notin faults => /\ Ordered(copy)
                                  /\ Fair(cpus, online, core)
                                  /\ Rounds(cpus, online, core)
  /\ pc = "attr" =>
       /\ Table(cpus, online, core) /\ Known(cpus)
       /\ Len(cpus) = Cardinality(online)
       /\ "qsort" \notin faults => Fair(cpus, online, core)
  /\ EvenLoad

(* The invariant holds before the call.                                    *)
LEMMA LoadInit == Init => LoadInv
<1> SUFFICES ASSUME Init PROVE LoadInv
  OBVIOUS
<1>1. online \in SUBSET CPUs /\ online # {} /\ num_threads \in Nat \ {0}
  BY MachineAssumption DEF Init
<1>2. online \in SUBSET Nat /\ IsFiniteSet(online)
  BY <1>1, MachineAssumption, FS_Subset
<1>3. core \in [online -> Nat \cup {Unknown}]
  <2>1. CoreIds \cup (IF "unknown" \in faults THEN {Unknown} ELSE {})
          \subseteq Nat \cup {Unknown}
    BY MachineAssumption
  <2> DEFINE R == CoreIds \cup (IF "unknown" \in faults THEN {Unknown} ELSE {})
  <2>2. core \in [online -> R]
    BY DEF Init
  <2> HIDE DEF R
  <2>3. R \subseteq Nat \cup {Unknown}
    BY <2>1 DEF R
  <2> QED BY <2>2, <2>3
<1> QED BY <1>1, <1>2, <1>3 DEF Init, LoadInv, Machine, EvenLoad

OfNumber(n) == {d \in online : core[d] = n}

(* Where the numbers are cores, a core's CPUs are those of its number.     *)
LEMMA CoresAreNumbers ==
  ASSUME NumbersAreCores, NEW e \in online
  PROVE  CPUsOf(CoreOf(e)) = OfNumber(core[e])
  BY DEF NumbersAreCores, CPUsOf, CoreOf, OfNumber

(* The worker t has the t-th CPU of the table, so the workers' load is     *)
(* that of a prefix.                                                       *)
LEMMA WorkersShare ==
  ASSUME LoadInv, pc = "attr", num_threads <= Cardinality(online),
         NEW at, at = [t \in Threads |-> GetLogicCpuId(cpus, t % Len(cpus))],
         NEW c \in Nat
  PROVE  Cardinality({t \in Workers : at[t] \in OfNumber(c)})
           = Count(cpus, num_threads, c)
<1>1. /\ Table(cpus, online, core) /\ num_threads \in Nat
      /\ Len(cpus) = Cardinality(online) /\ Len(cpus) \in Nat
      /\ \A n \in 1..Len(cpus) : /\ cpus[n].id \in online
                                 /\ cpus[n].core_id = core[cpus[n].id]
  BY Typed DEF LoadInv, Table
<1>2. ASSUME NEW t \in 0..num_threads - 1
      PROVE  /\ t \in Threads /\ at[t] = cpus[t + 1].id
             /\ t + 1 \in 1..Len(cpus)
  <2>1. t \in Nat /\ t < Len(cpus) /\ t + 1 \in 1..Len(cpus)
    BY <1>1
  <2>2. t % Len(cpus) = t
    BY <1>1, <2>1
  <2>3. num_dummy \in Nat
    BY <1>1 DEF num_dummy
  <2>4. t \in Threads
    BY <1>1, <2>3 DEF Threads, NumAll
  <2> QED BY <2>1, <2>2, <2>4 DEF GetLogicCpuId
<1>3. \A t \in 0..num_threads - 1 :
        at[t] \in OfNumber(c) <=> cpus[t + 1].core_id = c
  BY <1>1, <1>2 DEF OfNumber
<1>4. {t \in Workers : at[t] \in OfNumber(c)} = OfCore(cpus, num_threads, c)
  BY <1>3 DEF Workers, OfCore
<1> QED BY <1>4 DEF Count

(* Thread t has the CPU of place t in turn.                                *)
LEMMA ThreadsShare ==
  ASSUME LoadInv, pc = "attr",
         NEW at, at = [t \in Threads |-> GetLogicCpuId(cpus, t % Len(cpus))],
         NEW c \in online
  PROVE  /\ Len(cpus) \in Nat \ {0} /\ NumAll \in Nat /\ Len(cpus) <= NumAll
         /\ \E k \in 0..Len(cpus) - 1 :
              {t \in Threads : at[t] \in {c}} = Dealt(NumAll, Len(cpus), k)
<1>1. /\ Machine(online, core) /\ Table(cpus, online, core)
      /\ num_threads \in Nat \ {0}
      /\ Len(cpus) = Cardinality(online) /\ Len(cpus) \in Nat
      /\ \A m, n \in 1..Len(cpus) : cpus[m].id = cpus[n].id => m = n
  BY Typed DEF LoadInv, Table
<1>2. PICK n \in 1..Len(cpus) : cpus[n].id = c
  BY <1>1, FullTable
<1>3. Len(cpus) \in Nat \ {0}
  BY <1>1, <1>2
<1>4. NumAll \in Nat /\ Len(cpus) <= NumAll
  <2>1. CASE num_threads < Cardinality(online)
    <3>1. num_dummy = Len(cpus) - num_threads
      BY <1>1, <2>1 DEF num_dummy
    <3> QED BY <1>1, <2>1, <3>1 DEF NumAll
  <2>2. CASE ~(num_threads < Cardinality(online))
    <3>1. num_dummy = 0
      BY <2>2 DEF num_dummy
    <3> QED BY <1>1, <2>2, <3>1 DEF NumAll
  <2> QED BY <2>1, <2>2
<1>5. ASSUME NEW t \in 0..NumAll - 1
      PROVE  at[t] = c <=> t % Len(cpus) = n - 1
  <2> DEFINE h == t % Len(cpus)
  <2>1. h \in 0..Len(cpus) - 1
    <3>1. t \in Nat
      BY <1>4
    <3>2. \A m \in Nat \ {0}, k \in Nat : k % m \in 0..m - 1
      BY Quotient
    <3> QED BY ONLY <1>3, <3>1, <3>2
  <2>2. at[t] = cpus[h + 1].id
    BY DEF Threads, GetLogicCpuId
  <2> HIDE DEF h
  <2>3. h + 1 \in 1..Len(cpus) /\ (h = n - 1 <=> h + 1 = n)
    BY <1>3, <2>1
  <2>4. cpus[h + 1].id = c <=> h + 1 = n
    BY <1>1, <1>2, <2>3
  <2> QED BY <2>2, <2>3, <2>4 DEF h
<1>6. {t \in Threads : at[t] \in {c}} = Dealt(NumAll, Len(cpus), n - 1)
  BY <1>5 DEF Threads, Dealt
<1>7. n - 1 \in 0..Len(cpus) - 1
  BY <1>1
<1> QED BY <1>3, <1>4, <1>6, <1>7

(* The distribution of a complete table is even over the CPUs, and that of *)
(* a fair one over the cores.                                              *)
LEMMA DistributeIsEven ==
  ASSUME LoadInv, UNCHANGED rigid, DistributeAttr
  PROVE  EvenLoad'
<1> DEFINE at == [t \in Threads |-> GetLogicCpuId(cpus, t % Len(cpus))]
<1>1. pc = "attr" /\ attr' = at
  BY DEF DistributeAttr
<1>2. /\ online' = online /\ core' = core /\ num_threads' = num_threads
      /\ package' = package /\ faults' = faults
      /\ Workers' = Workers /\ Threads' = Threads
  BY RigidStays DEF rigid
<1>3. /\ Machine(online, core) /\ Table(cpus, online, core) /\ Known(cpus)
      /\ Len(cpus) = Cardinality(online) /\ num_threads \in Nat
      /\ "qsort" \notin faults => Fair(cpus, online, core)
  BY <1>1 DEF LoadInv
<1>4. ASSUME NEW e \in online
      PROVE  core[e] \in Cores(online, core) /\ core[e] \in Nat
  <2>1. PICK n \in 1..Len(cpus) : cpus[n].id = e
    BY <1>3, FullTable
  <2>2. core[e] # Unknown
    BY <1>3, <2>1 DEF Table, Known
  <2>3. core[e] \in Cores(online, core)
    BY <2>2 DEF Cores
  <2> QED BY <1>3, <2>3, MachineFacts
<1> DEFINE L(ts, cs) == Cardinality({t \in ts : at[t] \in cs})
<1>5. ASSUME NumbersAreCores, "qsort" \notin faults,
             num_threads <= Cardinality(online),
             NEW e \in online, NEW f \in online,
             L(Workers, CPUsOf(CoreOf(e))) > L(Workers, CPUsOf(CoreOf(f))) + 1
      PROVE  L(Workers, CPUsOf(CoreOf(f))) = Cardinality(CPUsOf(CoreOf(f)))
  <2> DEFINE c == core[e]
             d == core[f]
  <2>1. /\ c \in Cores(online, core) /\ d \in Cores(online, core)
        /\ c \in Nat /\ d \in Nat
    BY <1>4
  <2>2. /\ L(Workers, OfNumber(c)) = Count(cpus, num_threads, c)
        /\ L(Workers, OfNumber(d)) = Count(cpus, num_threads, d)
    BY <1>1, <1>5, <2>1, WorkersShare
  <2>3. num_threads \in 0..Len(cpus)
    <3>1. Len(cpus) \in Nat
      BY <1>3 DEF Table
    <3> QED BY <1>3, <1>5, <3>1
  <2>4. /\ CPUsOf(CoreOf(e)) = OfNumber(c)
        /\ CPUsOf(CoreOf(f)) = OfNumber(d)
    BY <1>5, CoresAreNumbers
  <2> HIDE DEF c, d
  <2>5. Count(cpus, num_threads, d) = Total(online, core, d)
    <3> HIDE DEF L
    <3>1. Count(cpus, num_threads, c) > Count(cpus, num_threads, d) + 1
      BY <1>5, <2>2, <2>4
    <3> QED BY <1>3, <1>5, <2>1, <2>3, <3>1 DEF Fair
  <2>6. Total(online, core, d) = Cardinality(OfNumber(d))
    BY DEF Total, OfNumber
  <2> HIDE DEF L
  <2> QED BY <2>2, <2>4, <2>5, <2>6
<1>6. ASSUME NEW c \in online, NEW d \in online
      PROVE  L(Threads, {c}) >= 1 /\ L(Threads, {c}) <= L(Threads, {d}) + 1
  <2>1. /\ Len(cpus) \in Nat \ {0} /\ NumAll \in Nat /\ Len(cpus) <= NumAll
        /\ \E k \in 0..Len(cpus) - 1 :
             {t \in Threads : at[t] \in {c}} = Dealt(NumAll, Len(cpus), k)
    BY <1>1, ThreadsShare
  <2>2. \E h \in 0..Len(cpus) - 1 :
          {t \in Threads : at[t] \in {d}} = Dealt(NumAll, Len(cpus), h)
    BY <1>1, ThreadsShare
  <2>3. PICK k \in 0..Len(cpus) - 1 :
          {t \in Threads : at[t] \in {c}} = Dealt(NumAll, Len(cpus), k)
    BY <2>1
  <2>4. PICK h \in 0..Len(cpus) - 1 :
          {t \in Threads : at[t] \in {d}} = Dealt(NumAll, Len(cpus), h)
    BY <2>2
  <2> QED BY <2>1, <2>3, <2>4, DealtEvenly
<1> HIDE DEF at
<1>7. /\ \A ts, cs : Load(ts, cs)' = L(ts', cs')
      /\ \A c : CPUsOf(c)' = CPUsOf(c)
      /\ \A e : CoreOf(e)' = CoreOf(e)
      /\ NumbersAreCores' = NumbersAreCores
  BY <1>1, <1>2 DEF Load, CPUsOf, CoreOf, NumbersAreCores
<1> HIDE DEF L
<1>8. NumbersAreCores' /\ ("qsort" \notin faults)' => WorkersSpread'
  BY <1>2, <1>5, <1>7 DEF WorkersSpread
<1> QED BY <1>1, <1>2, <1>6, <1>7, <1>8 DEF EvenLoad

(* Every step keeps it.                                                    *)
LEMMA LoadNext ==
  ASSUME LoadInv, [Next]_vars
  PROVE  LoadInv'
<1>1. UNCHANGED rigid
  BY DEF Next, CallerStep, ThreadStep, vars
<1>2. /\ online' = online /\ core' = core /\ num_threads' = num_threads
      /\ package' = package /\ faults' = faults
      /\ Workers' = Workers /\ Threads' = Threads
  BY <1>1, RigidStays DEF rigid
<1>3. ASSUME attr' = attr PROVE EvenLoad'
  <2>1. /\ \A ts, cs : Load(ts, cs)' = Load(ts', cs')
        /\ \A c : CPUsOf(c)' = CPUsOf(c)
        /\ \A e : CoreOf(e)' = CoreOf(e)
        /\ NumbersAreCores' = NumbersAreCores
    BY <1>2, <1>3 DEF Load, CPUsOf, CoreOf, NumbersAreCores
  <2>2. EvenLoad
    BY DEF LoadInv
  <2>3. WorkersSpread => WorkersSpread'
    BY <1>2, <2>1 DEF WorkersSpread
  <2> QED BY <1>2, <1>3, <2>1, <2>2, <2>3 DEF EvenLoad
<1>4. Machine(online, core) /\ online # {} /\ num_threads \in Nat \ {0}
  BY DEF LoadInv
<1> HIDE DEF rigid
<1>5. CASE InitTopology
  BY <1>2, <1>3, <1>4, <1>5, FilledTable DEF InitTopology, LoadInv
<1>6. CASE Sort
  <2>1. /\ Table(cpus, online, core) /\ Len(cpus) = Cardinality(online)
        /\ copy' \in Orders(cpus)
        /\ "qsort" \notin faults => copy' \in SortCoreId(cpus)
        /\ cpus' = <<>> /\ pc' = "rounds" /\ attr' = attr
    BY <1>6 DEF Sort, LoadInv, SortCoreId
  <2>2. /\ Bundle(copy', cpus', online, core)
        /\ "qsort" \notin faults => Ordered(copy')
        /\ Fair(cpus', online, core) /\ Rounds(cpus', online, core)
    BY <1>4, <2>1, SortKeeps
  <2> QED BY <1>2, <1>3, <1>4, <2>1, <2>2 DEF LoadInv
<1>7. CASE SortRound
  <2>1. /\ Bundle(copy, cpus, online, core)
        /\ "qsort" \notin faults => /\ Ordered(copy)
                                   /\ Fair(cpus, online, core)
                                   /\ Rounds(cpus, online, core)
        /\ pc = "rounds" /\ pc' = "rounds" /\ attr' = attr
        /\ cpus' = After(copy, cpus) /\ copy' = AfterRound(copy)
    BY <1>7 DEF SortRound, LoadInv, After
  <2>2. Bundle(copy', cpus', online, core)
    BY <1>4, <2>1, TableGrows, LeftShrinks DEF Bundle
  <2>3. ASSUME "qsort" \notin faults
        PROVE  /\ Ordered(copy')
               /\ Fair(cpus', online, core) /\ Rounds(cpus', online, core)
    BY <2>1, <2>3, LeftShrinks, RoundIsFair, RoundIsWhole
  <2> QED BY <1>2, <1>3, <1>4, <2>1, <2>2, <2>3 DEF LoadInv
<1>8. CASE Sorted
  <2>1. /\ Bundle(copy, cpus, online, core)
        /\ "qsort" \notin faults => Fair(cpus, online, core)
        /\ pc' = "attr" /\ attr' = attr /\ cpus' = cpus
        /\ Len(cpus) >= Len(copy)
    BY <1>8 DEF Sorted, LoadInv
  <2>2. /\ Table(cpus, online, core) /\ Known(cpus)
        /\ Len(copy) = Cardinality(online)
    BY <2>1 DEF Bundle, Left
  <2>3. Len(cpus) = Cardinality(online)
    <3>1. Len(cpus) <= Cardinality(online)
      BY <1>4, <2>2, FullTable
    <3>2. /\ Len(cpus) \in Nat /\ Cardinality(online) \in Nat
          /\ DOMAIN cpus = 1..Len(cpus)
      BY <1>4, <2>2, MachineFacts DEF Table
    <3> QED BY <2>1, <2>2, <3>1, <3>2
  <2> QED BY <1>2, <1>3, <1>4, <2>1, <2>2, <2>3 DEF LoadInv
<1>9. CASE DistributeAttr
  <2>1. EvenLoad' /\ pc' = "args"
    BY <1>1, <1>9, DistributeIsEven DEF DistributeAttr
  <2> QED BY <1>2, <1>4, <2>1 DEF LoadInv
<1>10. ASSUME attr' = attr, pc' \notin {"sort", "rounds", "attr"}
       PROVE  LoadInv'
  BY <1>2, <1>3, <1>4, <1>10 DEF LoadInv
<1>11. CASE AttrAllocFails \/ ArgsAllocFails \/ AllocArgs \/ CreateThread
            \/ CreateFails \/ AllCreated \/ Join \/ JoinFails \/ AllJoined
            \/ Fails("init", "init") \/ Fails("attr", "attr")
  <2>1. attr' = attr /\ pc' \notin {"sort", "rounds", "attr"}
    BY <1>11 DEF AttrAllocFails, ArgsAllocFails, AllocArgs, CreateThread,
                 CreateFails, AllCreated, Join, JoinFails, AllJoined, Fails, locals
  <2> QED BY <1>10, <2>1
<1>12. ASSUME UNCHANGED <<pc, locals>> PROVE LoadInv'
  BY <1>2, <1>3, <1>4, <1>12 DEF LoadInv, locals
<1>13. ASSUME NEW t \in Threads, Calc(t) PROVE LoadInv'
  BY <1>12, <1>13 DEF Calc
<1>14. CASE UNCHANGED vars
  BY <1>12, <1>14 DEF vars
<1>15. CASE CallerStep
  BY <1>5, <1>6, <1>7, <1>8, <1>9, <1>11, <1>15 DEF CallerStep
<1> QED BY <1>13, <1>14, <1>15 DEF Next, ThreadStep

(* For every machine and number of threads no CPU gets two threads more    *)
(* than another and none is idle, in whatever order qsort leaves the       *)
(* table; and where it sorts it and a core_id names one core, no core gets *)
(* two workers more than another that has a CPU left (the comments of      *)
(* _distributeAttrThreads), whichever order the CPUs of a core have.       *)
THEOREM SharedEvenly == Spec => []EvenLoad
<1>1. LoadInv /\ [Next]_vars => LoadInv'
  BY LoadNext
<1>2. LoadInv => EvenLoad
  BY DEF LoadInv
<1> QED BY <1>1, <1>2, LoadInit, PTL DEF Spec
=============================================================================
