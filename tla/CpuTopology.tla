---------------------------- MODULE CpuTopology ----------------------------
(***************************************************************************)
(* HPC_Integral/lib/cpu_topology.c: the logical CPUs that are online, with *)
(* the core each belongs to, and their order: rounds of CPUs of distinct   *)
(* cores.  The machine is given by the set of its online CPUs and by the   *)
(* core_id of each, which the kernel gives as it likes, the same to cores  *)
(* of two packages too, and -1 for unknown.                                *)
(***************************************************************************)
EXTENDS Integers, Sequences, FiniteSets

Unknown == -1
Taken == -2                     \* core_id in the copy of a CPU that was used

-----------------------------------------------------------------------------
(* The n-th smallest of a set of numbers.                                  *)
Nth(S, n) == CHOOSE x \in S : Cardinality({y \in S : y < x}) = n - 1

(* /sys/devices/system/cpu/online: the runs of the set, as in "0-2,5".     *)
FirstOfRuns(online) == {c \in online : c - 1 \notin online}

LastOfRun(online, c) ==
  CHOOSE d \in online : c <= d /\ c..d \subseteq online /\ d + 1 \notin online

Runs(online) ==
  [i \in 1..Cardinality(FirstOfRuns(online)) |->
     LET lo == Nth(FirstOfRuns(online), i) IN
     [lo |-> lo, hi |-> LastOfRun(online, lo)]]

(* A token without '-' is one CPU; the do-while takes at least one.        *)
TokenCPUs(token) ==
  [i \in 1..(IF token.lo < token.hi THEN token.hi - token.lo + 1 ELSE 1) |->
     token.lo + i - 1]

(* The ids are written one token after the other.                          *)
FillLogicCPU(tokens) ==
  LET ids[n \in 0..Len(tokens)] ==
        IF n = 0 THEN <<>> ELSE ids[n - 1] \o TokenCPUs(tokens[n])
  IN ids[Len(tokens)]

FillCoreCPU(ids, core) ==
  [i \in 1..Len(ids) |-> [id |-> ids[i], core_id |-> core[ids[i]]]]

-----------------------------------------------------------------------------
(* The same CPUs in any order.                                             *)
Orders(cpus) ==
  {[i \in DOMAIN cpus |-> cpus[p[i]]] :
     p \in {p \in [DOMAIN cpus -> DOMAIN cpus] :
              \A i, j \in DOMAIN cpus : i # j => p[i] # p[j]}}

(* qsort by core_id, where it asks no more of _cmpCoreId than whether the  *)
(* answer is above 0, as glibc's merge sort does.  It does not say what    *)
(* becomes of equals.  One that looks for an answer below 0, which never   *)
(* comes, may leave any of Orders(cpus).                                   *)
SortCoreId(cpus) ==
  {sorted \in Orders(cpus) :
     \A i, j \in DOMAIN cpus : i < j => sorted[i].core_id <= sorted[j].core_id}

(* min begins as 0.                                                        *)
TakesAboveZero(copy) ==
  {j \in DOMAIN copy :
     copy[j].core_id > 0 /\ \A h \in 1..j - 1 : copy[h].core_id < copy[j].core_id}

(* One round over the copy takes a CPU whenever its core_id is greater     *)
(* than min, that of the last one it has taken.                            *)
Takes(copy) ==
  {j \in DOMAIN copy :
     copy[j].core_id > -1 /\ \A h \in 1..j - 1 : copy[h].core_id < copy[j].core_id}

(* The whole copy, in the order of the sort.                               *)
RoundOfAll(copy) == copy

RoundOf(copy) ==
  [n \in 1..Cardinality(Takes(copy)) |-> copy[Nth(Takes(copy), n)]]

AfterRound(copy) ==
  [j \in DOMAIN copy |->
     IF j \in Takes(copy) THEN [copy[j] EXCEPT !.core_id = Taken] ELSE copy[j]]

(* The index is that of C.                                                 *)
GetLogicCpuId(cpus, i) == cpus[i + 1].id
=============================================================================
