---------------------------- MODULE HPCIntegral ----------------------------
(***************************************************************************)
(* HPC_Integral/lib/hpc.c: hpcIntegral cuts an interval into num_threads   *)
(* parts and integrates each in a thread that is bound to one logical CPU. *)
(* As LINEAR_TIME_CALC asks, the CPUs that are left over get a dummy       *)
(* thread: the clock rate falls when more CPUs are busy, so that otherwise *)
(* the time would not be linear.  The dummies cut the same interval into   *)
(* num_dummy parts, and nobody looks at what they compute.                 *)
(*                                                                         *)
(* A position in the interval counts the parts of num_threads * num_dummy. *)
(* What func returns and which end is the smaller are left out.            *)
(***************************************************************************)
EXTENDS CpuTopology

CONSTANTS
  CPUs,           \* the logical CPUs a machine may have
  CoreIds,        \* the numbers the kernel gives to the cores of a package
  Packages,       \* the packages a machine may have
  MaxThreads,     \* the largest num_threads
  Faults          \* a subset of FaultKinds

FaultKinds == {"init",      \* an argument is refused; a file under /sys, or
                            \* memory for it, fails
               "unknown",   \* a core is not known to the kernel
               "qsort",     \* qsort looks for an answer below 0
               "alloc",     \* calloc in _integral_linear
               "attr",      \* an attribute cannot be set
               "create",    \* pthread_create
               "join",      \* pthread_join
               "eps"}       \* a += dx does not move a towards b

ASSUME MachineAssumption ==
  /\ CPUs \subseteq Nat /\ IsFiniteSet(CPUs) /\ CPUs # {}
  /\ CoreIds \subseteq Nat /\ CoreIds # {}
  /\ MaxThreads \in Nat \ {0}
  /\ Faults \subseteq FaultKinds

VARIABLES
  faults,         \* what may go wrong in this run, the machine and the
  online, core,   \* argument: they do not change; core is the core_id, and
  package,        \* the package of a CPU is nothing the program looks at
  num_threads,
  pc,             \* where hpcIntegral is
  cpus,           \* cputop->logic_cpus
  copy,           \* logic_cpus_copy
  attr,           \* tid_attr_arr: the CPU of each thread
  int_args,       \* what each thread is to integrate and its result, or NULL
  a, i,           \* the locals of _integral_linear
  thread,         \* each thread: "none", "runs", "done"
  res             \* how often each position has been added up

rigid == <<faults, online, core, package, num_threads>>
locals == <<cpus, copy, attr, a, i, res>>
vars == <<rigid, pc, locals, int_args, thread>>

NULL == <<>>
Returned == {"value", "NAN", "-1"}      \* what the call has returned

num_dummy ==
  IF num_threads < Cardinality(online) THEN Cardinality(online) - num_threads
                                       ELSE 0
NumAll == num_threads + num_dummy
Workers == 0..num_threads - 1
Threads == 0..NumAll - 1
Positions == 0..num_threads * (IF num_dummy = 0 THEN 1 ELSE num_dummy) - 1

Init ==
  /\ faults \in {{}} \cup {{f} : f \in Faults}
  /\ online \in (SUBSET CPUs) \ {{}}
  /\ core \in [online -> CoreIds \cup (IF "unknown" \in faults THEN {Unknown}
                                                            ELSE {})]
  /\ package \in [online -> Packages]
  /\ num_threads \in 1..MaxThreads
  /\ pc = "init" /\ cpus = <<>> /\ copy = <<>> /\ attr = NULL /\ int_args = NULL
  /\ a = 0 /\ i = 0
  /\ thread = [t \in Threads |-> "none"]
  /\ res = [p \in Positions |-> 0]

Fails(kind, from) ==
  /\ kind \in faults
  /\ pc = from
  /\ pc' = "NAN"
  /\ UNCHANGED <<locals, int_args, thread>>

-----------------------------------------------------------------------------
(* hpcIntegral: cputopCreate, cputopInit                                   *)
InitTopology ==
  /\ pc = "init"
  /\ cpus' = FillCoreCPU(FillLogicCPU(Runs(online)), core)
  /\ pc' = "sort"
  /\ UNCHANGED <<copy, attr, a, i, res, int_args, thread>>

(* cputopSortUniqSetsCoreId: logic_cpus is written anew, a round at a time. *)
Sort ==
  /\ pc = "sort"
  /\ copy' \in IF "qsort" \in faults THEN Orders(cpus) ELSE SortCoreId(cpus)
  /\ cpus' = <<>>
  /\ pc' = "rounds"
  /\ UNCHANGED <<attr, a, i, res, int_args, thread>>

SortRound ==
  /\ pc = "rounds"
  /\ Len(cpus) < Len(copy)
  /\ cpus' = cpus \o RoundOf(copy)
  /\ copy' = AfterRound(copy)
  /\ UNCHANGED <<pc, attr, a, i, res, int_args, thread>>

Sorted ==
  /\ pc = "rounds"
  /\ Len(cpus) >= Len(copy)
  /\ pc' = "attr" /\ copy' = <<>>
  /\ UNCHANGED <<cpus, attr, a, i, res, int_args, thread>>

(* _distributeAttrThreads                                                  *)
DistributeAttr ==
  /\ pc = "attr"
  /\ attr' = [t \in Threads |-> GetLogicCpuId(cpus, t % Len(cpus))]
  /\ pc' = "args"
  /\ UNCHANGED <<cpus, copy, a, i, res, int_args, thread>>

(* The attributes are allocated with a check, the arguments without one:   *)
(* the first use of them ends the process.                                 *)
AttrAllocFails ==
  /\ "alloc" \in faults
  /\ pc = "attr"
  /\ pc' = "-1"
  /\ UNCHANGED <<locals, int_args, thread>>

ArgsAllocFails ==
  /\ "alloc" \in faults
  /\ pc = "args"
  /\ pc' = "killed"
  /\ UNCHANGED <<locals, int_args, thread>>

AllocArgs ==
  /\ pc = "args"
  /\ int_args' = [t \in Threads |-> [a |-> 0, b |-> 0, done |-> FALSE]]
  /\ pc' = "create"
  /\ UNCHANGED <<locals, thread>>

(* The length of a worker's part, and of a dummy's.                        *)
PartLen(t) ==
  IF t \in Workers THEN IF num_dummy = 0 THEN 1 ELSE num_dummy
                   ELSE num_threads

(* The first dummy starts where the first worker did.                      *)
PartStart == IF i = num_threads THEN 0 ELSE a

CreateThread ==
  /\ pc = "create" /\ i < NumAll
  /\ a' = PartStart + PartLen(i)
  /\ int_args' = [int_args EXCEPT ![i] =
                     [a |-> PartStart, b |-> a', done |-> FALSE]]
  /\ thread' = [thread EXCEPT ![i] = "runs"]
  /\ i' = i + 1
  /\ UNCHANGED <<pc, cpus, copy, attr, res>>

(* The threads that run are detached and go on without their creator.      *)
CreateFails ==
  /\ "create" \in faults
  /\ pc = "create" /\ i < NumAll
  /\ pc' = "NAN"
  /\ UNCHANGED <<locals, int_args, thread>>

AllCreated ==
  /\ pc = "create" /\ i = NumAll
  /\ pc' = "join" /\ i' = 0
  /\ UNCHANGED <<cpus, copy, attr, a, res, int_args, thread>>

(* A thread's positions, each as often as its result counts them.          *)
Added(t) ==
  [p \in Positions |->
     res[p] + IF int_args[t].done /\ p >= int_args[t].a /\ p < int_args[t].b
                THEN 1 ELSE 0]

(* The result is read before the thread has ended.                         *)
JoinEarly ==
  /\ pc = "join" /\ i < NumAll
  /\ res' = IF i < num_threads THEN Added(i) ELSE res
  /\ i' = i + 1
  /\ UNCHANGED <<pc, cpus, copy, attr, a, int_args, thread>>

Join ==
  /\ pc = "join" /\ i < NumAll
  /\ thread[i] = "done"
  /\ res' = IF i < num_threads THEN Added(i) ELSE res
  /\ i' = i + 1
  /\ UNCHANGED <<pc, cpus, copy, attr, a, int_args, thread>>

JoinFails ==
  /\ "join" \in faults
  /\ pc = "join" /\ i < NumAll
  /\ pc' = "NAN"
  /\ UNCHANGED <<locals, int_args, thread>>

AllJoined ==
  /\ pc = "join" /\ i = NumAll
  /\ pc' = "value"
  /\ UNCHANGED <<locals, int_args, thread>>

-----------------------------------------------------------------------------
(* _pthread_calc_integral                                                  *)
Calc(t) ==
  /\ thread[t] = "runs" /\ "eps" \notin faults
  /\ thread' = [thread EXCEPT ![t] = "done"]
  /\ int_args' = [int_args EXCEPT ![t].done = TRUE]
  /\ UNCHANGED <<pc, locals>>

CallerStep ==
  /\ \/ InitTopology \/ Sort \/ SortRound \/ Sorted \/ DistributeAttr
     \/ AttrAllocFails \/ ArgsAllocFails \/ AllocArgs
     \/ CreateThread \/ CreateFails \/ AllCreated
     \/ Join \/ JoinFails \/ AllJoined
     \/ Fails("init", "init") \/ Fails("attr", "attr")
  /\ UNCHANGED rigid

ThreadStep(t) == t \in Threads /\ Calc(t) /\ UNCHANGED rigid

MaxAll == 0..MaxThreads + Cardinality(CPUs) - 1

Next == CallerStep \/ \E t \in Threads : ThreadStep(t)

Spec == Init /\ [][Next]_vars

(* Every thread gets the CPU it is bound to.                               *)
FairSpec == Spec /\ WF_vars(CallerStep) /\ \A t \in MaxAll : WF_vars(ThreadStep(t))

-----------------------------------------------------------------------------
Whole == [p \in Positions |-> 1]

(* Whatever fails, and in whatever order the threads end, hpcIntegral      *)
(* returns an error or has added every part of the interval exactly once,  *)
(* no dummy's part among them.                                             *)
SumIsWhole == pc = "value" => res = Whole

Load(ts, cs) == Cardinality({t \in ts : attr[t] \in cs})
CoreOf(e) == <<package[e], core[e]>>
CPUsOf(c) == {d \in online : CoreOf(d) = c}

(* The workers share the cores evenly: a core has fewer than another by    *)
(* more than one only if its CPUs are used up.                             *)
WorkersSpread ==
  num_threads <= Cardinality(online) =>
    \A c, d \in {CoreOf(e) : e \in online} :
      Load(Workers, CPUsOf(c)) > Load(Workers, CPUsOf(d)) + 1
        => Load(Workers, CPUsOf(d)) = Cardinality(CPUsOf(d))

(* No core_id is that of two packages' cores.                              *)
NumbersAreCores ==
  \A d, e \in online : core[d] = core[e] => package[d] = package[e]

(* The comments before _distributeAttrThreads and in it: the load is even. *)
(* The workers are spread over the cores where qsort sorts and a core_id   *)
(* names one core, and on any machine all the threads share the CPUs       *)
(* evenly, without an idle one.                                            *)
EvenLoad ==
  attr # NULL =>
    /\ NumbersAreCores /\ "qsort" \notin faults => WorkersSpread
    /\ \A c, d \in online :
         /\ Load(Threads, {c}) >= 1
         /\ Load(Threads, {c}) <= Load(Threads, {d}) + 1

(* The call returns, unless a core is unknown to the kernel, the step is   *)
(* too small or negative, or memory is short.                              *)
CallReturns ==
  faults \cap {"unknown", "eps", "alloc"} = {} => <>(pc \in Returned)
=============================================================================
