------------------------ MODULE ConnRendezvousProofs ------------------------
(***************************************************************************)
(* For every number of readers, writers and runs of the initialisation:    *)
(* MUTEX and the slot are never lost, whoever is killed and however many   *)
(* SETALLs make the kernel forget the adjustments.  And where the          *)
(* connection is ready and nothing fails, each reader meets one writer and *)
(* its SETALL does what V(EMPTY) would.                                    *)
(***************************************************************************)
EXTENDS ConnRendezvous, FiniteSetTheorems, TLAPS

Coming == {"getShm", "getSem", "compare"}
ReaderAt == Coming \cup Gone \cup
  {"P_EMPTY", "P_MUTEX", "store", "V_MUTEX", "V_FULL", "P_READED", "reset",
   "transfer"}
WriterAt == Coming \cup Gone \cup
  {"P_FULL", "P_MUTEX", "load", "V_MUTEX", "V_READED", "transfer"}
InitializerAt == {"makeShm", "makeSem", "setAll", "publish", "published"}

TypeOK ==
  /\ faults \subseteq FaultKinds
  /\ pc \in [Procs \cup Initializers ->
              ReaderAt \cup WriterAt \cup InitializerAt]
  /\ \A r \in Readers : pc[r] \in ReaderAt
  /\ \A w \in Writers : pc[w] \in WriterAt
  /\ \A i \in Initializers : pc[i] \in InitializerAt
  /\ connShm \in [made : BOOLEAN, semID : Nat,
                  readerShmID : Readers \cup {NoReader}]
  /\ set \in [made : BOOLEAN, val : [Sems -> Nat]]
  /\ undo \in [Procs -> [Sems -> Int]]
  /\ readerShm \in [Writers -> Readers \cup {NoReader}]

-----------------------------------------------------------------------------
(* What the kernel owes.  A process that holds a semaphore has an          *)
(* adjustment of 1 for it, one whose P was forgotten by a SETALL and that  *)
(* did its V has one of -1: it will take back at its end what the SETALL   *)
(* gave too much.                                                          *)
Pos(s) == {p \in Procs : undo[p][s] = 1}
Neg(s) == {p \in Procs : undo[p][s] = -1}
Credit(s) == set.val[s] + Cardinality(Pos(s)) - Cardinality(Neg(s))

Outside == Coming \cup Gone \cup {"P_EMPTY", "P_FULL"}

UndoOf(p) ==
  /\ undo[p]["MUTEX"] \in {-1, 0, 1}
  /\ undo[p]["MUTEX"] = 1 => InMutex(p)
  /\ undo[p]["MUTEX"] = -1 =>
        pc[p] \notin {"P_MUTEX", "store", "load", "V_MUTEX"}
  /\ undo[p]["EMPTY"] \in {0, 1}
  /\ undo[p]["EMPTY"] = 1 => p \in Readers /\ Meeting(p)
  /\ pc[p] \in Outside => undo[p] = NoUndo

UndoInv == \A p \in Procs : UndoOf(p)

(* Before the first SETALL every semaphore is 0 and nobody gets past it.   *)
ClosedInv ==
  ~Initialized => /\ set.val = NoUndo
                  /\ \A p \in Procs : pc[p] \in Outside

CreditInv == Initialized => Credit("MUTEX") >= 1 /\ Credit("EMPTY") >= 1

IInv == TypeOK /\ UndoInv /\ ClosedInv /\ CreditInv

-----------------------------------------------------------------------------
(* Where the connection is ready and nothing fails, a token goes round:    *)
(* EMPTY, the reader in its meeting, FULL, the writer, W_READED and the    *)
(* reader again.                                                           *)
Busy(w) == pc[w] \in {"P_MUTEX", "load", "V_MUTEX", "V_READED"}
Waiting(r) == pc[r] = "P_READED"

SlotInv ==
  /\ set.val["EMPTY"] = IF \E r \in Readers : Meeting(r) THEN 0 ELSE 1
  /\ \A q, r \in Readers : Meeting(q) /\ Meeting(r) => q = r
  /\ set.val["FULL"] \in {0, 1}
  /\ set.val["W_READED"] \in {0, 1}
  /\ set.val["FULL"] = 1 => /\ set.val["W_READED"] = 0
                            /\ \A w \in Writers : ~Busy(w)
                            /\ \E r \in Readers : Waiting(r)
  /\ set.val["W_READED"] = 1 => /\ \A w \in Writers : ~Busy(w)
                                /\ \E r \in Readers : Waiting(r)
  /\ \A w \in Writers : Busy(w) => \E r \in Readers : Waiting(r)
  /\ \A v, w \in Writers : Busy(v) /\ Busy(w) => v = w

MutexInv ==
  /\ set.val["MUTEX"] = IF \E p \in Procs : InMutex(p) THEN 0 ELSE 1
  /\ \A p, q \in Procs : InMutex(p) /\ InMutex(q) => p = q

(* A reader in its meeting has published itself, and no writer has it      *)
(* before one of them takes it from there.                                 *)
PairInv ==
  /\ \A r \in Readers :
       pc[r] \in {"V_MUTEX", "V_FULL", "P_READED", "reset"} =>
         connShm.readerShmID = r
  /\ \A w \in Writers :
       /\ readerShm[w] # NoReader <=>
            pc[w] \in {"V_MUTEX", "V_READED", "transfer", "left"}
       /\ pc[w] \in {"V_MUTEX", "V_READED"} =>
            readerShm[w] = connShm.readerShmID
       /\ readerShm[w] # NoReader =>
            pc[readerShm[w]] \in {"P_READED", "reset", "transfer", "left"}
       /\ set.val["FULL"] = 1 \/ pc[w] \in {"P_MUTEX", "load"} =>
            \A v \in Writers : readerShm[v] # connShm.readerShmID
  /\ PairsAreExclusive

(* Adjustments are those of the reader in its meeting and its writer.      *)
LiveUndoInv ==
  /\ \A r \in Readers : Meeting(r) \/ undo[r] = NoUndo
  /\ \A w \in Writers :
       \/ undo[w] = NoUndo
       \/ Busy(w)
       \/ readerShm[w] # NoReader /\ Meeting(readerShm[w])

ReadyInv ==
  /\ IInv
  /\ faults = {}
  /\ \A i \in Initializers : pc[i] = "published"
  /\ SlotInv
  /\ MutexInv
  /\ PairInv
  /\ LiveUndoInv

-----------------------------------------------------------------------------
USE RolesAssumption

(* Two sets that differ in one element at most.                            *)
LEMMA OneElement ==
  ASSUME NEW S, NEW T, NEW x, IsFiniteSet(S), S \ {x} = T \ {x}
  PROVE  /\ IsFiniteSet(T)
         /\ Cardinality(S) \in Nat /\ Cardinality(T) \in Nat
         /\ (x \in S <=> x \in T) => Cardinality(T) = Cardinality(S)
         /\ x \in S /\ x \notin T => Cardinality(T) = Cardinality(S) - 1
         /\ x \notin S /\ x \in T => Cardinality(T) = Cardinality(S) + 1
<1>1. CASE x \in S <=> x \in T
  <2>1. S = T
    BY <1>1
  <2>2. QED
    BY <1>1, <2>1, FS_CardinalityType
<1>2. CASE x \in S /\ x \notin T
  <2>1. T = S \ {x}
    BY <1>2
  <2>2. QED
    BY <1>2, <2>1, FS_RemoveElement, FS_CardinalityType
<1>3. CASE x \notin S /\ x \in T
  <2>1. T = S \cup {x}
    BY <1>3
  <2>2. QED
    BY <1>3, <2>1, FS_AddElement, FS_CardinalityType
<1>4. QED
  BY <1>1, <1>2, <1>3

(* There are finitely many processes, so finitely many adjustments.        *)
LEMMA Finite ==
  ASSUME NEW s
  PROVE  /\ IsFiniteSet(Pos(s)) /\ IsFiniteSet(Neg(s))
         /\ Cardinality(Pos(s)) \in Nat /\ Cardinality(Neg(s)) \in Nat
<1>1. IsFiniteSet(Procs)
  BY FS_Union DEF Procs
<1>2. Pos(s) \in SUBSET Procs /\ Neg(s) \in SUBSET Procs
  BY DEF Pos, Neg
<1>3. QED
  BY <1>1, <1>2, FS_Subset, FS_CardinalityType

(* What each call does to the values and the adjustments.                  *)
LEMMA PEffect ==
  ASSUME TypeOK, NEW p \in Procs, NEW t \in Sems, P(p, t)
  PROVE  /\ set' \in [made : BOOLEAN, val : [Sems -> Nat]]
         /\ undo' \in [Procs -> [Sems -> Int]]
         /\ set.val[t] > 0
         /\ set'.val[t] = set.val[t] - 1
         /\ undo'[p][t] = undo[p][t] + 1
         /\ \A s \in Sems \ {t} : /\ set'.val[s] = set.val[s]
                                  /\ undo'[p][s] = undo[p][s]
         /\ \A q \in Procs \ {p} : undo'[q] = undo[q]
<1>1. /\ set \in [made : BOOLEAN, val : [Sems -> Nat]]
      /\ undo \in [Procs -> [Sems -> Int]]
      /\ set.val[t] \in Nat /\ undo[p][t] \in Int
  BY DEF TypeOK
<1>2. /\ set.val[t] > 0
      /\ set.val[t] - 1 \in Nat /\ undo[p][t] + 1 \in Int
  BY <1>1 DEF P
<1>3. /\ set' \in [made : BOOLEAN, val : [Sems -> Nat]]
      /\ set'.val[t] = set.val[t] - 1
      /\ \A s \in Sems \ {t} : set'.val[s] = set.val[s]
  BY <1>1, <1>2 DEF P
<1>4. /\ undo' \in [Procs -> [Sems -> Int]]
      /\ undo'[p][t] = undo[p][t] + 1
      /\ \A s \in Sems \ {t} : undo'[p][s] = undo[p][s]
      /\ \A q \in Procs \ {p} : undo'[q] = undo[q]
  BY <1>1, <1>2 DEF P
<1>5. QED
  BY <1>2, <1>3, <1>4

LEMMA VEffect ==
  ASSUME TypeOK, NEW p \in Procs, NEW t \in Sems, V(p, t)
  PROVE  /\ set' \in [made : BOOLEAN, val : [Sems -> Nat]]
         /\ undo' \in [Procs -> [Sems -> Int]]
         /\ set'.val[t] = set.val[t] + 1
         /\ undo'[p][t] = undo[p][t] - 1
         /\ \A s \in Sems \ {t} : /\ set'.val[s] = set.val[s]
                                  /\ undo'[p][s] = undo[p][s]
         /\ \A q \in Procs \ {p} : undo'[q] = undo[q]
<1>1. /\ set \in [made : BOOLEAN, val : [Sems -> Nat]]
      /\ undo \in [Procs -> [Sems -> Int]]
      /\ set.val[t] \in Nat /\ undo[p][t] \in Int
  BY DEF TypeOK
<1>2. set.val[t] + 1 \in Nat /\ undo[p][t] - 1 \in Int
  BY <1>1
<1>3. /\ set' \in [made : BOOLEAN, val : [Sems -> Nat]]
      /\ set'.val[t] = set.val[t] + 1
      /\ \A s \in Sems \ {t} : set'.val[s] = set.val[s]
  BY <1>1, <1>2 DEF V
<1>4. /\ undo' \in [Procs -> [Sems -> Int]]
      /\ undo'[p][t] = undo[p][t] - 1
      /\ \A s \in Sems \ {t} : undo'[p][s] = undo[p][s]
      /\ \A q \in Procs \ {p} : undo'[q] = undo[q]
  BY <1>1, <1>2 DEF V
<1>5. QED
  BY <1>3, <1>4

LEMMA SetAllEffect ==
  ASSUME TypeOK, SetAll(ConnOps)
  PROVE  /\ set' \in [made : BOOLEAN, val : [Sems -> Nat]]
         /\ undo' \in [Procs -> [Sems -> Int]]
         /\ set'.val = ConnOps
         /\ set'.val["MUTEX"] = 1 /\ set'.val["EMPTY"] = 1
         /\ set'.val["FULL"] = 0 /\ set'.val["W_READED"] = 0
         /\ \A q \in Procs : undo'[q] = NoUndo
  BY DEF TypeOK, SetAll, ConnOps, NoUndo, Sems

LEMMA ExitEffect ==
  ASSUME TypeOK, NEW p \in Procs, Exit(p)
  PROVE  /\ set' \in [made : BOOLEAN, val : [Sems -> Nat]]
         /\ undo' \in [Procs -> [Sems -> Int]]
         /\ \A s \in Sems : /\ set'.val[s] >= set.val[s] + undo[p][s]
                            /\ undo[p][s] = 0 => set'.val[s] = set.val[s]
         /\ undo[p] = NoUndo => set'.val = set.val
         /\ undo'[p] = NoUndo
         /\ \A q \in Procs \ {p} : undo'[q] = undo[q]
<1>1. /\ set \in [made : BOOLEAN, val : [Sems -> Nat]]
      /\ undo \in [Procs -> [Sems -> Int]]
  BY DEF TypeOK
<1>2. PICK W : /\ W = [s \in Sems |-> IF set.val[s] + undo[p][s] < 0
                                     THEN 0 ELSE set.val[s] + undo[p][s]]
               /\ set' = [set EXCEPT !.val = W]
  BY DEF Exit
<1>3. ASSUME NEW s \in Sems
      PROVE  /\ W[s] \in Nat
             /\ W[s] >= set.val[s] + undo[p][s]
             /\ undo[p][s] = 0 => W[s] = set.val[s]
  BY <1>1, <1>2
<1>4. W \in [Sems -> Nat]
  BY <1>2, <1>3
<1>5. /\ set' \in [made : BOOLEAN, val : [Sems -> Nat]]
      /\ set'.val = W
  BY <1>1, <1>2, <1>4
<1>6. ASSUME undo[p] = NoUndo PROVE set'.val = set.val
  <2>1. \A s \in Sems : undo[p][s] = 0
    BY <1>6 DEF NoUndo
  <2>2. ASSUME NEW s \in Sems PROVE W[s] = set.val[s]
    BY <1>3, <2>1
  <2>3. QED
    BY <1>1, <1>4, <1>5, <2>2
<1>7. NoUndo \in [Sems -> Int]
  BY DEF NoUndo
<1>8. QED
  BY <1>1, <1>3, <1>5, <1>6, <1>7 DEF Exit

-----------------------------------------------------------------------------
LEMMA GotoEffect ==
  ASSUME TypeOK, NEW p \in Procs \cup Initializers,
         NEW to \in ReaderAt \cup WriterAt \cup InitializerAt,
         pc' = [pc EXCEPT ![p] = to]
  PROVE  /\ pc' \in [Procs \cup Initializers ->
                      ReaderAt \cup WriterAt \cup InitializerAt]
         /\ pc'[p] = to
         /\ \A q \in (Procs \cup Initializers) \ {p} : pc'[q] = pc[q]
  BY DEF TypeOK

(* Before its SETALL an initialiser touches no semaphore.                  *)
LEMMA InitializerStepType ==
  ASSUME TypeOK, NEW i \in Initializers, InitializerStep(i)
  PROVE  TypeOK'
<1>1. /\ UNCHANGED <<faults, readerShm>>
      /\ connShm' \in [made : BOOLEAN, semID : Nat,
                        readerShmID : Readers \cup {NoReader}]
  BY DEF InitializerStep, MakeShm, MakeSem, InitSetAll, Publish, TypeOK
<1>2. /\ set' \in [made : BOOLEAN, val : [Sems -> Nat]]
      /\ undo' \in [Procs -> [Sems -> Int]]
  <2>1. CASE InitSetAll(i)
    BY <2>1, SetAllEffect DEF InitSetAll
  <2>2. CASE MakeSem(i)
    BY <2>2 DEF MakeSem, TypeOK
  <2>3. CASE UNCHANGED <<set, undo>>
    BY <2>3 DEF TypeOK
  <2>4. QED
    BY <2>1, <2>2, <2>3 DEF InitializerStep, MakeShm, Publish
<1>3. PICK to \in InitializerAt : pc' = [pc EXCEPT ![i] = to]
  BY DEF InitializerStep, MakeShm, MakeSem, InitSetAll, Publish, Goto,
         InitializerAt
<1>4. /\ pc' \in [Procs \cup Initializers ->
                   ReaderAt \cup WriterAt \cup InitializerAt]
      /\ pc'[i] = to
      /\ \A q \in (Procs \cup Initializers) \ {i} : pc'[q] = pc[q]
  BY <1>3, GotoEffect
<1>5. QED
  BY <1>1, <1>2, <1>4 DEF TypeOK, Procs

(* The step of one process gives back to each semaphore what it takes off  *)
(* its own adjustment, or more: the credit of both stays.                  *)
LEMMA CreditKept ==
  ASSUME TypeOK, TypeOK', UndoInv, UndoInv',
         NEW p \in Procs, NEW s \in {"MUTEX", "EMPTY"},
         set'.val[s] >= set.val[s] + undo[p][s] - undo'[p][s],
         \A q \in Procs \ {p} : undo'[q] = undo[q]
  PROVE  Credit(s)' >= Credit(s)
<1>1. s \in Sems
  BY DEF Sems
<1>2. /\ undo[p][s] \in {-1, 0, 1} /\ undo'[p][s] \in {-1, 0, 1}
      /\ set.val[s] \in Nat /\ set'.val[s] \in Nat
  BY <1>1 DEF UndoInv, UndoOf, TypeOK
<1>3. /\ IsFiniteSet(Pos(s)) /\ IsFiniteSet(Neg(s))
      /\ Cardinality(Pos(s)) \in Nat /\ Cardinality(Neg(s)) \in Nat
  BY Finite
<1>4. /\ Pos(s) \ {p} = Pos(s)' \ {p} /\ Neg(s) \ {p} = Neg(s)' \ {p}
      /\ p \in Pos(s) <=> undo[p][s] = 1
      /\ p \in Pos(s)' <=> undo'[p][s] = 1
      /\ p \in Neg(s) <=> undo[p][s] = -1
      /\ p \in Neg(s)' <=> undo'[p][s] = -1
  BY DEF Pos, Neg
<1>5. Cardinality(Pos(s)') \in Nat /\ Cardinality(Neg(s)') \in Nat
  BY <1>3, <1>4, OneElement
<1>6. /\ (p \in Pos(s) <=> p \in Pos(s)') =>
            Cardinality(Pos(s)') = Cardinality(Pos(s))
      /\ p \in Pos(s) /\ p \notin Pos(s)' =>
            Cardinality(Pos(s)') = Cardinality(Pos(s)) - 1
      /\ p \notin Pos(s) /\ p \in Pos(s)' =>
            Cardinality(Pos(s)') = Cardinality(Pos(s)) + 1
  BY <1>3, <1>4, OneElement
<1>7. /\ (p \in Neg(s) <=> p \in Neg(s)') =>
            Cardinality(Neg(s)') = Cardinality(Neg(s))
      /\ p \in Neg(s) /\ p \notin Neg(s)' =>
            Cardinality(Neg(s)') = Cardinality(Neg(s)) - 1
      /\ p \notin Neg(s) /\ p \in Neg(s)' =>
            Cardinality(Neg(s)') = Cardinality(Neg(s)) + 1
  BY <1>3, <1>4, OneElement
<1>8. Cardinality(Pos(s)') - Cardinality(Neg(s)') =
        Cardinality(Pos(s)) - Cardinality(Neg(s)) + undo'[p][s] - undo[p][s]
  BY <1>2, <1>3, <1>4, <1>5, <1>6, <1>7
<1>9. /\ Credit(s) = set.val[s] + Cardinality(Pos(s)) - Cardinality(Neg(s))
      /\ Credit(s)' = set'.val[s] + Cardinality(Pos(s)') - Cardinality(Neg(s)')
  BY DEF Credit
<1>10. QED
  BY <1>2, <1>3, <1>5, <1>8, <1>9

(* A step of one process that keeps its types, its adjustment where its    *)
(* place in the program says, and the credit.                              *)
LEMMA ProcessStep ==
  ASSUME IInv,
         NEW p \in Procs, NEW to \in ReaderAt \cup WriterAt,
         pc' = [pc EXCEPT ![p] = to],
         p \in Readers => to \in ReaderAt,
         p \in Writers => to \in WriterAt,
         UNCHANGED faults,
         connShm' \in [made : BOOLEAN, semID : Nat,
                       readerShmID : Readers \cup {NoReader}],
         readerShm' \in [Writers -> Readers \cup {NoReader}],
         set' \in [made : BOOLEAN, val : [Sems -> Nat]],
         undo' \in [Procs -> [Sems -> Int]],
         \A q \in Procs \ {p} : undo'[q] = undo[q],
         \A s \in Sems : set'.val[s] >= set.val[s] + undo[p][s] - undo'[p][s],
         UndoOf(p)',
         ~Initialized => to \in Outside /\ set'.val = NoUndo
  PROVE  IInv'
<1>1. /\ pc' \in [Procs \cup Initializers ->
                   ReaderAt \cup WriterAt \cup InitializerAt]
      /\ pc'[p] = to
      /\ \A q \in (Procs \cup Initializers) \ {p} : pc'[q] = pc[q]
  BY GotoEffect DEF IInv
<1>2. TypeOK'
  BY <1>1 DEF IInv, TypeOK, Procs
<1>3. UndoInv'
  <2>1. SUFFICES ASSUME NEW q \in Procs PROVE UndoOf(q)'
    BY DEF UndoInv
  <2>2. CASE q = p
    BY <2>2
  <2>3. CASE q # p
    <3>1. UndoOf(q) /\ pc'[q] = pc[q] /\ undo'[q] = undo[q]
      BY <1>1, <2>3 DEF IInv, UndoInv
    <3>2. QED
      BY <3>1 DEF UndoOf, InMutex, Meeting
  <2>4. QED
    BY <2>2, <2>3
<1>4. Initialized' <=> Initialized
  BY <1>1 DEF Initialized, Procs
<1>5. ClosedInv'
  BY <1>1, <1>4 DEF IInv, ClosedInv
<1>6. CreditInv'
  <2>1. SUFFICES ASSUME Initialized
                 PROVE  Credit("MUTEX")' >= 1 /\ Credit("EMPTY")' >= 1
    BY <1>4 DEF CreditInv
  <2>2. ASSUME NEW s \in {"MUTEX", "EMPTY"} PROVE Credit(s)' >= 1
    <3>1. Credit(s)' >= Credit(s)
      BY <1>2, <1>3, CreditKept DEF IInv, Sems
    <3>2. Credit(s) >= 1
      BY <2>1 DEF IInv, CreditInv
    <3>3. Credit(s) \in Int /\ Credit(s)' \in Int
      <4>1. set.val[s] \in Nat /\ set'.val[s] \in Nat
        BY <1>2 DEF IInv, TypeOK, Sems
      <4>2. Cardinality(Pos(s)) \in Nat /\ Cardinality(Neg(s)) \in Nat
        BY Finite
      <4>3. Cardinality(Pos(s)') \in Nat /\ Cardinality(Neg(s)') \in Nat
        <5>1. Pos(s)' \in SUBSET Procs /\ Neg(s)' \in SUBSET Procs
          BY DEF Pos, Neg
        <5>2. QED
          BY <5>1, FS_Union, FS_Subset, FS_CardinalityType DEF Procs
      <4>4. QED
        BY <4>1, <4>2, <4>3 DEF Credit
    <3>4. QED
      BY <3>1, <3>2, <3>3
  <2>3. QED
    BY <2>2
<1>7. QED
  BY <1>2, <1>3, <1>5, <1>6 DEF IInv

(* A SETALL of {1, 1, 0, 0} leaves no adjustment at all.                   *)
LEMMA SetAllStep ==
  ASSUME TypeOK, TypeOK', SetAll(ConnOps)
  PROVE  UndoInv' /\ CreditInv'
<1>1. /\ set'.val["MUTEX"] = 1 /\ set'.val["EMPTY"] = 1
      /\ \A q \in Procs : undo'[q] = NoUndo
  BY SetAllEffect
<1>2. \A s \in Sems : NoUndo[s] = 0
  BY DEF NoUndo
<1>3. UndoInv'
  BY <1>1, <1>2 DEF UndoInv, UndoOf, Sems
<1>4. ASSUME NEW s \in Sems PROVE Pos(s)' = {} /\ Neg(s)' = {}
  BY <1>1, <1>2 DEF Pos, Neg
<1>5. "MUTEX" \in Sems /\ "EMPTY" \in Sems
  BY DEF Sems
<1>6. Credit("MUTEX")' = 1 /\ Credit("EMPTY")' = 1
  BY <1>1, <1>4, <1>5, FS_EmptySet DEF Credit
<1>7. QED
  BY <1>3, <1>6 DEF CreditInv

LEMMA InitializerKeeps ==
  ASSUME IInv, NEW i \in Initializers, InitializerStep(i)
  PROVE  IInv'
<1>1. TypeOK' /\ TypeOK
  BY InitializerStepType DEF IInv
<1>2. PICK to \in InitializerAt : pc' = [pc EXCEPT ![i] = to]
  BY DEF InitializerStep, MakeShm, MakeSem, InitSetAll, Publish, Goto,
         InitializerAt
<1>3. /\ pc'[i] = to
      /\ \A q \in (Procs \cup Initializers) \ {i} : pc'[q] = pc[q]
  BY <1>1, <1>2, GotoEffect
<1>4. \A p \in Procs : pc'[p] = pc[p]
  BY <1>3 DEF Procs
<1>5. CASE InitSetAll(i)
  <2>1. SetAll(ConnOps) /\ pc'[i] = "publish"
    BY <1>1, <1>5, GotoEffect DEF InitSetAll, Goto, InitializerAt
  <2>2. Initialized'
    BY <2>1 DEF Initialized
  <2>3. QED
    BY <1>1, <2>1, <2>2, SetAllStep DEF IInv, ClosedInv
<1>6. CASE MakeShm(i) \/ MakeSem(i) \/ Publish(i)
  <2>1. set'.val = set.val /\ UNCHANGED undo
    BY <1>1, <1>6 DEF MakeShm, MakeSem, Publish, TypeOK
  <2>2. /\ pc[i] = "publish" => to = "published"
        /\ pc[i] # "published"
        /\ to = "published" => pc[i] = "publish"
        /\ to # "publish"
    BY <1>3, <1>6, <1>1 DEF MakeShm, MakeSem, Publish, Goto, TypeOK
  <2>3. Initialized' <=> Initialized
    BY <1>3, <2>2 DEF Initialized
  <2>4. UndoInv'
    BY <1>4, <2>1 DEF IInv, UndoInv, UndoOf, InMutex, Meeting
  <2>5. \A s : Credit(s)' = Credit(s)
    BY <2>1 DEF Credit, Pos, Neg
  <2>6. CreditInv' /\ ClosedInv'
    BY <1>4, <2>1, <2>3, <2>5 DEF IInv, CreditInv, ClosedInv
  <2>7. QED
    BY <1>1, <2>4, <2>6 DEF IInv
<1>7. QED
  BY <1>5, <1>6 DEF InitializerStep

(* The three checks of GetConnShm touch no semaphore.                      *)
LEMMA GetConnShmKeeps ==
  ASSUME IInv, NEW p \in Procs, GetConnShm(p)
  PROVE  IInv'
<1>1. PICK to \in {"getSem", "compare", "failed", Start(p)} :
        pc' = [pc EXCEPT ![p] = to]
  BY DEF GetConnShm, GetShm, GetSem, Compare, Goto
<1>2. /\ pc[p] \in Coming
      /\ UNCHANGED <<faults, connShm, set, undo, readerShm>>
  BY DEF GetConnShm, GetShm, GetSem, Compare, Goto, Coming
<1>3. /\ to \in ReaderAt \cup WriterAt
      /\ p \in Readers => to \in ReaderAt
      /\ p \in Writers => to \in WriterAt
      /\ to \in Outside
  BY <1>1 DEF Procs, Start, ReaderAt, WriterAt, Outside, Gone, Coming
<1>4. undo[p] = NoUndo /\ \A s \in Sems : NoUndo[s] = 0
  BY <1>2 DEF IInv, UndoInv, UndoOf, Outside, NoUndo
<1>5. UndoOf(p)'
  BY <1>2, <1>4 DEF UndoOf, Sems
<1>6. \A s \in Sems : set'.val[s] >= set.val[s] + undo[p][s] - undo'[p][s]
  BY <1>2, <1>4 DEF IInv, TypeOK
<1>7. QED
  BY <1>1, <1>2, <1>3, <1>5, <1>6, ProcessStep DEF IInv, TypeOK, ClosedInv

(* The four kinds of step a process takes after GetConnShm.                *)
LEMMA PStep ==
  ASSUME IInv,
         NEW p \in Procs, NEW to \in ReaderAt \cup WriterAt,
         pc' = [pc EXCEPT ![p] = to],
         p \in Readers => to \in ReaderAt,
         p \in Writers => to \in WriterAt,
         UNCHANGED <<faults, connShm, readerShm>>,
         NEW t \in Sems, P(p, t),
         UndoOf(p)'
  PROVE  IInv'
<1>1. /\ set' \in [made : BOOLEAN, val : [Sems -> Nat]]
      /\ undo' \in [Procs -> [Sems -> Int]]
      /\ set.val[t] > 0
      /\ set'.val[t] = set.val[t] - 1
      /\ undo'[p][t] = undo[p][t] + 1
      /\ \A s \in Sems \ {t} : /\ set'.val[s] = set.val[s]
                               /\ undo'[p][s] = undo[p][s]
      /\ \A q \in Procs \ {p} : undo'[q] = undo[q]
  BY PEffect DEF IInv
<1>2. ASSUME NEW s \in Sems
      PROVE  set'.val[s] >= set.val[s] + undo[p][s] - undo'[p][s]
  <2>1. set.val[s] \in Nat /\ undo[p][s] \in Int
    BY DEF IInv, TypeOK
  <2>2. QED
    BY <1>1, <2>1
<1>3. Initialized
  BY <1>1 DEF IInv, ClosedInv, NoUndo
<1>4. QED
  BY <1>1, <1>2, <1>3, ProcessStep DEF IInv, TypeOK

LEMMA VStep ==
  ASSUME IInv,
         NEW p \in Procs, NEW to \in ReaderAt \cup WriterAt,
         pc' = [pc EXCEPT ![p] = to],
         p \in Readers => to \in ReaderAt,
         p \in Writers => to \in WriterAt,
         UNCHANGED <<faults, connShm, readerShm>>,
         pc[p] \notin Outside,
         NEW t \in Sems, V(p, t),
         UndoOf(p)'
  PROVE  IInv'
<1>1. /\ set' \in [made : BOOLEAN, val : [Sems -> Nat]]
      /\ undo' \in [Procs -> [Sems -> Int]]
      /\ set'.val[t] = set.val[t] + 1
      /\ undo'[p][t] = undo[p][t] - 1
      /\ \A s \in Sems \ {t} : /\ set'.val[s] = set.val[s]
                               /\ undo'[p][s] = undo[p][s]
      /\ \A q \in Procs \ {p} : undo'[q] = undo[q]
  BY VEffect DEF IInv
<1>2. ASSUME NEW s \in Sems
      PROVE  set'.val[s] >= set.val[s] + undo[p][s] - undo'[p][s]
  <2>1. set.val[s] \in Nat /\ undo[p][s] \in Int
    BY DEF IInv, TypeOK
  <2>2. QED
    BY <1>1, <2>1
<1>3. Initialized
  BY DEF IInv, ClosedInv
<1>4. QED
  BY <1>1, <1>2, <1>3, ProcessStep DEF IInv, TypeOK

LEMMA QuietStep ==
  ASSUME IInv,
         NEW p \in Procs, NEW to \in ReaderAt \cup WriterAt,
         pc' = [pc EXCEPT ![p] = to],
         p \in Readers => to \in ReaderAt,
         p \in Writers => to \in WriterAt,
         UNCHANGED <<faults, set, undo>>,
         connShm' \in [made : BOOLEAN, semID : Nat,
                       readerShmID : Readers \cup {NoReader}],
         readerShm' \in [Writers -> Readers \cup {NoReader}],
         pc[p] \notin Outside,
         UndoOf(p)'
  PROVE  IInv'
<1>1. ASSUME NEW s \in Sems
      PROVE  set'.val[s] >= set.val[s] + undo[p][s] - undo'[p][s]
  <2>1. set.val[s] \in Nat /\ undo[p][s] \in Int
    BY DEF IInv, TypeOK
  <2>2. QED
    BY <2>1
<1>2. Initialized
  BY DEF IInv, ClosedInv
<1>3. QED
  BY <1>1, <1>2, ProcessStep DEF IInv, TypeOK

LEMMA ExitStep ==
  ASSUME IInv,
         NEW p \in Procs, NEW to \in Gone,
         pc' = [pc EXCEPT ![p] = to],
         UNCHANGED <<faults, connShm, readerShm>>,
         Exit(p)
  PROVE  IInv'
<1>0. TypeOK
  BY DEF IInv
<1>1. /\ set' \in [made : BOOLEAN, val : [Sems -> Nat]]
      /\ undo' \in [Procs -> [Sems -> Int]]
      /\ \A s \in Sems : /\ set'.val[s] >= set.val[s] + undo[p][s]
                         /\ undo[p][s] = 0 => set'.val[s] = set.val[s]
      /\ undo[p] = NoUndo => set'.val = set.val
      /\ undo'[p] = NoUndo
      /\ \A q \in Procs \ {p} : undo'[q] = undo[q]
  BY <1>0, ExitEffect
<1>2. \A s \in Sems : NoUndo[s] = 0
  BY DEF NoUndo
<1>3. ASSUME NEW s \in Sems
      PROVE  set'.val[s] >= set.val[s] + undo[p][s] - undo'[p][s]
  <2>1. set.val[s] \in Nat /\ undo[p][s] \in Int
    BY DEF IInv, TypeOK
  <2>2. undo'[p][s] = 0 /\ set'.val[s] \in Nat
    BY <1>1, <1>2
  <2>3. set'.val[s] >= set.val[s] + undo[p][s]
    BY <1>1
  <2>4. QED
    BY <2>1, <2>2, <2>3
<1>4. UndoOf(p)'
  BY <1>1, <1>2 DEF UndoOf, Sems
<1>5. to \in ReaderAt /\ to \in WriterAt /\ to \in Outside
  BY DEF ReaderAt, WriterAt, Outside
<1>6. ~Initialized => set'.val = NoUndo
  BY <1>1 DEF IInv, ClosedInv, UndoInv, UndoOf
<1>7. QED
  BY <1>1, <1>3, <1>4, <1>5, <1>6, ProcessStep DEF IInv, TypeOK

LEMMA UndoRange ==
  ASSUME IInv, NEW p \in Procs
  PROVE  /\ UndoOf(p)
         /\ \A s \in Sems : undo[p][s] \in Int /\ set.val[s] \in Nat
  BY DEF IInv, UndoInv, TypeOK

LEMMA ReaderKeeps ==
  ASSUME IInv, NEW r \in Readers, ReaderWaits(r) \/ ReaderRuns(r)
  PROVE  IInv'
<1>1. IInv /\ TypeOK /\ r \in Procs /\ r \notin Writers
  BY DEF IInv, Procs
<1>2. UNCHANGED faults
  BY DEF ReaderWaits, ReaderRuns
<1>3. CASE R_PEmpty(r)
  <2>1. /\ pc' = [pc EXCEPT ![r] = "P_MUTEX"] /\ pc[r] = "P_EMPTY"
        /\ UNCHANGED <<faults, connShm, readerShm>>
    BY <1>3, <1>1, <1>2 DEF R_PEmpty, Goto
  <2>2. pc'[r] = "P_MUTEX" /\ "P_MUTEX" \in ReaderAt
    BY <1>1, <2>1, GotoEffect DEF ReaderAt
  <2>3. P(r, "EMPTY") /\ "EMPTY" \in Sems
    BY <1>3 DEF R_PEmpty, Sems
  <2>4. UndoOf(r)'
    BY <1>1, <2>1, <2>2, <2>3, PEffect, UndoRange
       DEF UndoOf, InMutex, Meeting, Outside, Coming, Gone, NoUndo, Sems
  <2>5. QED
    BY <1>1, <1>2, <2>1, <2>2, <2>3, <2>4, PStep
<1>4. CASE R_PMutex(r)
  <2>1. /\ pc' = [pc EXCEPT ![r] = "store"] /\ pc[r] = "P_MUTEX"
        /\ UNCHANGED <<faults, connShm, readerShm>>
    BY <1>4, <1>1, <1>2 DEF R_PMutex, Goto
  <2>2. pc'[r] = "store" /\ "store" \in ReaderAt
    BY <1>1, <2>1, GotoEffect DEF ReaderAt
  <2>3. P(r, "MUTEX") /\ "MUTEX" \in Sems
    BY <1>4 DEF R_PMutex, Sems
  <2>4. UndoOf(r)'
    BY <1>1, <2>1, <2>2, <2>3, PEffect, UndoRange
       DEF UndoOf, InMutex, Meeting, Outside, Coming, Gone, NoUndo, Sems
  <2>5. QED
    BY <1>1, <1>2, <2>1, <2>2, <2>3, <2>4, PStep
<1>5. CASE R_PReaded(r)
  <2>1. /\ pc' = [pc EXCEPT ![r] = "reset"] /\ pc[r] = "P_READED"
        /\ UNCHANGED <<faults, connShm, readerShm>>
    BY <1>5, <1>1, <1>2 DEF R_PReaded, Goto
  <2>2. pc'[r] = "reset" /\ "reset" \in ReaderAt
    BY <1>1, <2>1, GotoEffect DEF ReaderAt
  <2>3. P(r, "W_READED") /\ "W_READED" \in Sems
    BY <1>5 DEF R_PReaded, Sems
  <2>4. UndoOf(r)'
    BY <1>1, <2>1, <2>2, <2>3, PEffect, UndoRange
       DEF UndoOf, InMutex, Meeting, Outside, Coming, Gone, NoUndo, Sems
  <2>5. QED
    BY <1>1, <1>2, <2>1, <2>2, <2>3, <2>4, PStep
<1>6. CASE R_Store(r)
  <2>1. /\ pc' = [pc EXCEPT ![r] = "V_MUTEX"] /\ pc[r] = "store"
        /\ UNCHANGED <<faults, readerShm>>
    BY <1>6, <1>1, <1>2 DEF R_Store, Goto
  <2>2. pc'[r] = "V_MUTEX" /\ "V_MUTEX" \in ReaderAt
    BY <1>1, <2>1, GotoEffect DEF ReaderAt
  <2>3. UNCHANGED <<set, undo>>
    BY <1>6 DEF R_Store
  <2>4. UndoOf(r)'
    BY <1>1, <2>1, <2>2, <2>3, UndoRange
       DEF UndoOf, InMutex, Meeting, Outside, Coming, Gone
  <2>5. connShm' \in [made : BOOLEAN, semID : Nat,
                       readerShmID : Readers \cup {NoReader}]
    BY <1>6, <1>1, <1>2 DEF R_Store, TypeOK
  <2>6. QED
    BY <1>1, <1>2, <2>1, <2>2, <2>3, <2>4, <2>5, QuietStep
       DEF TypeOK, Outside, Coming, Gone
<1>7. CASE R_VMutex(r)
  <2>1. /\ pc' = [pc EXCEPT ![r] = "V_FULL"] /\ pc[r] = "V_MUTEX"
        /\ UNCHANGED <<faults, connShm, readerShm>>
    BY <1>7, <1>1, <1>2 DEF R_VMutex, Goto
  <2>2. pc'[r] = "V_FULL" /\ "V_FULL" \in ReaderAt
    BY <1>1, <2>1, GotoEffect DEF ReaderAt
  <2>3. V(r, "MUTEX") /\ "MUTEX" \in Sems
    BY <1>7 DEF R_VMutex, Sems
  <2>4. UndoOf(r)'
    BY <1>1, <2>1, <2>2, <2>3, VEffect, UndoRange
       DEF UndoOf, InMutex, Meeting, Outside, Coming, Gone, NoUndo, Sems
  <2>5. QED
    BY <1>1, <1>2, <2>1, <2>2, <2>3, <2>4, VStep DEF Outside, Coming, Gone
<1>8. CASE R_VFull(r)
  <2>1. /\ pc' = [pc EXCEPT ![r] = "P_READED"] /\ pc[r] = "V_FULL"
        /\ UNCHANGED <<faults, connShm, readerShm>>
    BY <1>8, <1>1, <1>2 DEF R_VFull, Goto
  <2>2. pc'[r] = "P_READED" /\ "P_READED" \in ReaderAt
    BY <1>1, <2>1, GotoEffect DEF ReaderAt
  <2>3. V(r, "FULL") /\ "FULL" \in Sems
    BY <1>8 DEF R_VFull, Sems
  <2>4. UndoOf(r)'
    BY <1>1, <2>1, <2>2, <2>3, VEffect, UndoRange
       DEF UndoOf, InMutex, Meeting, Outside, Coming, Gone, NoUndo, Sems
  <2>5. QED
    BY <1>1, <1>2, <2>1, <2>2, <2>3, <2>4, VStep DEF Outside, Coming, Gone
<1>9. CASE R_Reset(r)
  <2>1. /\ pc' = [pc EXCEPT ![r] = "transfer"] /\ pc[r] = "reset"
        /\ SetAll(ConnOps) /\ UNCHANGED <<connShm, readerShm>>
    BY <1>9 DEF R_Reset, Goto
  <2>2. /\ pc' \in [Procs \cup Initializers ->
                     ReaderAt \cup WriterAt \cup InitializerAt]
        /\ pc'[r] = "transfer"
        /\ \A q \in (Procs \cup Initializers) \ {r} : pc'[q] = pc[q]
    BY <1>1, <2>1, GotoEffect DEF ReaderAt
  <2>3. TypeOK'
    <3>1. /\ set' \in [made : BOOLEAN, val : [Sems -> Nat]]
          /\ undo' \in [Procs -> [Sems -> Int]]
      BY <1>1, <2>1, SetAllEffect
    <3>2. "transfer" \in ReaderAt
      BY DEF ReaderAt
    <3>3. QED
      BY <1>1, <1>2, <2>1, <2>2, <3>1, <3>2 DEF TypeOK, Procs
  <2>4. Initialized /\ (Initialized' <=> Initialized)
    <3>1. Initialized
      BY <2>1, <1>1 DEF IInv, ClosedInv, Outside, Coming, Gone
    <3>2. QED
      BY <1>1, <2>2, <3>1 DEF Initialized, Procs
  <2>5. QED
    BY <1>1, <2>1, <2>3, <2>4, SetAllStep DEF IInv, ClosedInv
<1>10. CASE R_Finish(r)
  <2>1. pc' = [pc EXCEPT ![r] = "left"] /\ Exit(r)
    BY <1>10 DEF R_Finish, Goto
  <2>2. UNCHANGED <<connShm, readerShm>> /\ "left" \in Gone
    BY <1>10 DEF R_Finish, Gone
  <2>3. QED
    BY <1>1, <1>2, <2>1, <2>2, ExitStep
<1>11. CASE R_GiveUp(r)
  <2>1. pc' = [pc EXCEPT ![r] = "failed"] /\ Exit(r)
    BY <1>11 DEF R_GiveUp, Goto
  <2>2. UNCHANGED <<connShm, readerShm>> /\ "failed" \in Gone
    BY <1>11 DEF R_GiveUp, Gone
  <2>3. QED
    BY <1>1, <1>2, <2>1, <2>2, ExitStep
<1>12. QED
  BY <1>3, <1>4, <1>5, <1>6, <1>7, <1>8, <1>9, <1>10, <1>11
     DEF ReaderWaits, ReaderRuns

LEMMA WriterKeeps ==
  ASSUME IInv, NEW w \in Writers, WriterWaits(w) \/ WriterRuns(w)
  PROVE  IInv'
<1>1. IInv /\ TypeOK /\ w \in Procs /\ w \notin Readers
  BY DEF IInv, Procs
<1>2. UNCHANGED faults
  BY DEF WriterWaits, WriterRuns
<1>3. CASE W_PFull(w)
  <2>1. /\ pc' = [pc EXCEPT ![w] = "P_MUTEX"] /\ pc[w] = "P_FULL"
        /\ UNCHANGED <<faults, connShm, readerShm>>
    BY <1>3, <1>1, <1>2 DEF W_PFull, Goto
  <2>2. pc'[w] = "P_MUTEX" /\ "P_MUTEX" \in WriterAt
    BY <1>1, <2>1, GotoEffect DEF WriterAt
  <2>3. P(w, "FULL") /\ "FULL" \in Sems
    BY <1>3 DEF W_PFull, Sems
  <2>4. UndoOf(w)'
    BY <1>1, <2>1, <2>2, <2>3, PEffect, UndoRange
       DEF UndoOf, InMutex, Meeting, Outside, Coming, Gone, NoUndo, Sems
  <2>5. QED
    BY <1>1, <1>2, <2>1, <2>2, <2>3, <2>4, PStep
<1>4. CASE W_PMutex(w)
  <2>1. /\ pc' = [pc EXCEPT ![w] = "load"] /\ pc[w] = "P_MUTEX"
        /\ UNCHANGED <<faults, connShm, readerShm>>
    BY <1>4, <1>1, <1>2 DEF W_PMutex, Goto
  <2>2. pc'[w] = "load" /\ "load" \in WriterAt
    BY <1>1, <2>1, GotoEffect DEF WriterAt
  <2>3. P(w, "MUTEX") /\ "MUTEX" \in Sems
    BY <1>4 DEF W_PMutex, Sems
  <2>4. UndoOf(w)'
    BY <1>1, <2>1, <2>2, <2>3, PEffect, UndoRange
       DEF UndoOf, InMutex, Meeting, Outside, Coming, Gone, NoUndo, Sems
  <2>5. QED
    BY <1>1, <1>2, <2>1, <2>2, <2>3, <2>4, PStep
<1>5. CASE W_Attach(w)
  <2>1. /\ pc' = [pc EXCEPT ![w] = "V_MUTEX"] /\ pc[w] = "load"
        /\ UNCHANGED <<faults, connShm>>
    BY <1>5, <1>1, <1>2 DEF W_Attach, Goto
  <2>2. pc'[w] = "V_MUTEX" /\ "V_MUTEX" \in WriterAt
    BY <1>1, <2>1, GotoEffect DEF WriterAt
  <2>3. UNCHANGED <<set, undo>>
    BY <1>5 DEF W_Attach
  <2>4. UndoOf(w)'
    BY <1>1, <2>1, <2>2, <2>3, UndoRange
       DEF UndoOf, InMutex, Meeting, Outside, Coming, Gone
  <2>5. readerShm' \in [Writers -> Readers \cup {NoReader}]
    BY <1>5, <1>1, <1>2 DEF W_Attach, TypeOK
  <2>6. QED
    BY <1>1, <1>2, <2>1, <2>2, <2>3, <2>4, <2>5, QuietStep
       DEF TypeOK, Outside, Coming, Gone
<1>6. CASE W_AttachGone(w)
  <2>1. pc' = [pc EXCEPT ![w] = "failed"] /\ Exit(w)
    BY <1>6 DEF W_AttachGone, Goto
  <2>2. UNCHANGED <<connShm, readerShm>> /\ "failed" \in Gone
    BY <1>6 DEF W_AttachGone, Gone
  <2>3. QED
    BY <1>1, <1>2, <2>1, <2>2, ExitStep
<1>7. CASE W_VMutex(w)
  <2>1. /\ pc' = [pc EXCEPT ![w] = "V_READED"] /\ pc[w] = "V_MUTEX"
        /\ UNCHANGED <<faults, connShm, readerShm>>
    BY <1>7, <1>1, <1>2 DEF W_VMutex, Goto
  <2>2. pc'[w] = "V_READED" /\ "V_READED" \in WriterAt
    BY <1>1, <2>1, GotoEffect DEF WriterAt
  <2>3. V(w, "MUTEX") /\ "MUTEX" \in Sems
    BY <1>7 DEF W_VMutex, Sems
  <2>4. UndoOf(w)'
    BY <1>1, <2>1, <2>2, <2>3, VEffect, UndoRange
       DEF UndoOf, InMutex, Meeting, Outside, Coming, Gone, NoUndo, Sems
  <2>5. QED
    BY <1>1, <1>2, <2>1, <2>2, <2>3, <2>4, VStep DEF Outside, Coming, Gone
<1>8. CASE W_VReaded(w)
  <2>1. /\ pc' = [pc EXCEPT ![w] = "transfer"] /\ pc[w] = "V_READED"
        /\ UNCHANGED <<faults, connShm, readerShm>>
    BY <1>8, <1>1, <1>2 DEF W_VReaded, Goto
  <2>2. pc'[w] = "transfer" /\ "transfer" \in WriterAt
    BY <1>1, <2>1, GotoEffect DEF WriterAt
  <2>3. V(w, "W_READED") /\ "W_READED" \in Sems
    BY <1>8 DEF W_VReaded, Sems
  <2>4. UndoOf(w)'
    BY <1>1, <2>1, <2>2, <2>3, VEffect, UndoRange
       DEF UndoOf, InMutex, Meeting, Outside, Coming, Gone, NoUndo, Sems
  <2>5. QED
    BY <1>1, <1>2, <2>1, <2>2, <2>3, <2>4, VStep DEF Outside, Coming, Gone
<1>9. CASE W_Finish(w)
  <2>1. pc' = [pc EXCEPT ![w] = "left"] /\ Exit(w)
    BY <1>9 DEF W_Finish, Goto
  <2>2. UNCHANGED <<connShm, readerShm>> /\ "left" \in Gone
    BY <1>9 DEF W_Finish, Gone
  <2>3. QED
    BY <1>1, <1>2, <2>1, <2>2, ExitStep
<1>10. QED
  BY <1>3, <1>4, <1>5, <1>6, <1>7, <1>8, <1>9
     DEF WriterWaits, WriterRuns

LEMMA KillKeeps ==
  ASSUME IInv, NEW p \in Procs, Kill(p), UNCHANGED faults
  PROVE  IInv'
  BY ExitStep DEF Kill, Gone

(* Nothing is held where nothing exists, nor where all of it is ready.     *)
LEMMA InitInv == Init \/ InitFresh => IInv
<1> SUFFICES ASSUME Init \/ InitFresh PROVE IInv
  OBVIOUS
<1>1. /\ NoUndo \in [Sems -> Int] /\ NoUndo \in [Sems -> Nat]
      /\ ConnOps \in [Sems -> Nat]
      /\ \A s \in Sems : NoUndo[s] = 0
      /\ ConnOps["MUTEX"] = 1 /\ ConnOps["EMPTY"] = 1
      /\ "MUTEX" \in Sems /\ "EMPTY" \in Sems
  BY DEF NoUndo, ConnOps, Sems
<1>2. /\ undo = [p \in Procs |-> NoUndo]
      /\ readerShm = [w \in Writers |-> NoReader]
      /\ faults \subseteq FaultKinds
      /\ \A p \in Procs : pc[p] = "getShm"
      /\ \A i \in Initializers : pc[i] = IF Init THEN "published" ELSE "makeShm"
  BY DEF Init, InitFresh, Procs
<1>3. TypeOK
  <2>1. pc \in [Procs \cup Initializers ->
                ReaderAt \cup WriterAt \cup InitializerAt]
    BY DEF Init, InitFresh, ReaderAt, Coming, InitializerAt
  <2>2. /\ \A r \in Readers : pc[r] \in ReaderAt
        /\ \A w \in Writers : pc[w] \in WriterAt
        /\ \A i \in Initializers : pc[i] \in InitializerAt
    BY <1>2 DEF Procs, ReaderAt, WriterAt, Coming, InitializerAt
  <2>3. /\ connShm \in [made : BOOLEAN, semID : Nat,
                         readerShmID : Readers \cup {NoReader}]
        /\ set \in [made : BOOLEAN, val : [Sems -> Nat]]
    <3>1. CASE Init
      BY <1>1, <3>1 DEF Init
    <3>2. CASE InitFresh
      BY <1>1, <3>2 DEF InitFresh
    <3>3. QED
      BY <3>1, <3>2
  <2>4. QED
    BY <1>1, <1>2, <2>1, <2>2, <2>3 DEF TypeOK
<1>4. UndoInv
  BY <1>1, <1>2 DEF UndoInv, UndoOf
<1>5. ASSUME NEW s \in Sems PROVE Pos(s) = {} /\ Neg(s) = {}
  BY <1>1, <1>2 DEF Pos, Neg
<1>6. CASE Init
  <2>1. Initialized
    BY <1>2, <1>6 DEF Initialized
  <2>2. Credit("MUTEX") = 1 /\ Credit("EMPTY") = 1
    <3>1. set.val["MUTEX"] = 1 /\ set.val["EMPTY"] = 1
      BY <1>1, <1>6 DEF Init
    <3>2. QED
      BY <1>1, <1>5, <3>1, FS_EmptySet DEF Credit
  <2>3. QED
    BY <1>3, <1>4, <2>1, <2>2 DEF IInv, ClosedInv, CreditInv
<1>7. CASE InitFresh /\ ~Init
  <2>1. ~Initialized
    BY <1>2, <1>7 DEF Initialized
  <2>2. set.val = NoUndo /\ \A p \in Procs : pc[p] \in Outside
    BY <1>2, <1>7 DEF InitFresh, Outside, Coming
  <2>3. QED
    BY <1>3, <1>4, <2>1, <2>2 DEF IInv, ClosedInv, CreditInv
<1>8. QED
  BY <1>6, <1>7

(* Each step of an initialiser, a reader or a writer keeps it, and so does *)
(* a kill.                                                                 *)
LEMMA NextInv == IInv /\ [Next]_vars => IInv'
<1> SUFFICES ASSUME IInv, [Next]_vars PROVE IInv'
  OBVIOUS
<1>1. CASE UNCHANGED vars
  BY <1>1 DEF vars, IInv, TypeOK, UndoInv, UndoOf, InMutex, Meeting, ClosedInv,
     CreditInv, Initialized, Credit, Pos, Neg
<1>2. CASE \E i \in Initializers : InitializerStep(i)
  BY <1>2, InitializerKeeps
<1>3. CASE \E p \in Procs : GetConnShm(p) \/ (Kill(p) /\ UNCHANGED faults)
  BY <1>3, GetConnShmKeeps, KillKeeps
<1>4. CASE \E r \in Readers : ReaderWaits(r) \/ ReaderRuns(r)
  BY <1>4, ReaderKeeps
<1>5. CASE \E w \in Writers : WriterWaits(w) \/ WriterRuns(w)
  BY <1>5, WriterKeeps
<1>6. QED
  BY <1>1, <1>2, <1>3, <1>4, <1>5 DEF Next, Stopped

(* The invariant holds of every reachable state, faults or not.            *)
THEOREM InductiveInvariant == Spec => []IInv
<1>1. QED
  BY InitInv, NextInv, PTL DEF Spec

(* Where nobody has an adjustment of 1 the semaphore itself is up.         *)
LEMMA CreditIsThere ==
  ASSUME IInv, Initialized, NEW s \in {"MUTEX", "EMPTY"},
         \A p \in Procs : undo[p][s] # 1
  PROVE  set.val[s] >= 1
<1>1. Pos(s) = {}
  BY DEF Pos
<1>2. Cardinality(Pos(s)) = 0 /\ Cardinality(Neg(s)) \in Nat
  BY <1>1, FS_EmptySet, Finite
<1>3. set.val[s] \in Nat
  BY DEF IInv, TypeOK, Sems
<1>4. Credit(s) >= 1
  BY DEF IInv, CreditInv
<1>5. QED
  BY <1>2, <1>3, <1>4 DEF Credit

(* MUTEX is free when nobody is inside, whoever was killed where.          *)
THEOREM MutexKept == Spec => []MutexIsNotLost
<1>1. IInv => MutexIsNotLost
  <2>1. SUFFICES ASSUME IInv, Initialized, \A p \in Procs : ~InMutex(p)
                 PROVE  set.val["MUTEX"] >= 1
    BY DEF MutexIsNotLost
  <2>2. \A p \in Procs : undo[p]["MUTEX"] # 1
    BY <2>1 DEF IInv, UndoInv, UndoOf
  <2>3. QED
    BY <2>1, <2>2, CreditIsThere
<1>2. QED
  BY <1>1, InductiveInvariant, PTL

(* The slot is open when no reader is between its P(EMPTY) and its SETALL. *)
THEOREM SlotKept == Spec => []SlotIsNotLost
<1>1. IInv => SlotIsNotLost
  <2>1. SUFFICES ASSUME IInv, Initialized, \A r \in Readers : ~Meeting(r)
                 PROVE  set.val["EMPTY"] >= 1
    BY DEF SlotIsNotLost
  <2>2. \A p \in Procs : undo[p]["EMPTY"] # 1
    BY <2>1 DEF IInv, UndoInv, UndoOf
  <2>3. QED
    BY <2>1, <2>2, CreditIsThere
<1>2. QED
  BY <1>1, InductiveInvariant, PTL

(* When a reader resets the set, it is alone with its writer.              *)
LEMMA AtReset ==
  ASSUME ReadyInv, NEW r \in Readers, pc[r] = "reset"
  PROVE  /\ \A w \in Writers : ~Busy(w)
         /\ \A p \in Procs : ~InMutex(p)
         /\ set.val["EMPTY"] = 0 /\ set.val["MUTEX"] = 1
         /\ set.val["FULL"] = 0 /\ set.val["W_READED"] = 0
<1>1. /\ TypeOK /\ SlotInv /\ MutexInv
      /\ Meeting(r) /\ ~Waiting(r)
  BY DEF ReadyInv, IInv, Meeting, Waiting
<1>2. \A q \in Readers : Meeting(q) => q = r
  BY <1>1 DEF SlotInv
<1>3. \A q \in Readers : ~Waiting(q)
  BY <1>1, <1>2 DEF Meeting, Waiting
<1>4. \A w \in Writers : ~Busy(w)
  BY <1>1, <1>3 DEF SlotInv
<1>5. \A q \in Readers : ~InMutex(q)
  BY <1>1, <1>2 DEF TypeOK, ReaderAt, Coming, Gone, InMutex, Meeting
<1>6. \A w \in Writers : ~InMutex(w)
  BY <1>1, <1>4 DEF TypeOK, WriterAt, Coming, Gone, InMutex, Busy
<1>7. QED
  BY <1>1, <1>3, <1>4, <1>5, <1>6 DEF SlotInv, MutexInv, Procs

LEMMA ReaderKeepsReady ==
  ASSUME ReadyInv, NEW r \in Readers, ReaderWaits(r) \/ ReaderRuns(r)
  PROVE  /\ \A i \in Initializers : pc'[i] = pc[i]
         /\ SlotInv' /\ MutexInv' /\ PairInv' /\ LiveUndoInv'
<1>1. /\ TypeOK /\ faults = {} /\ SlotInv /\ MutexInv /\ PairInv /\ LiveUndoInv
      /\ r \in Procs /\ r \notin Writers /\ r \notin Initializers
      /\ \A s \in Sems : set.val[s] \in Nat
  BY DEF ReadyInv, IInv, TypeOK, Procs
<1>2. UNCHANGED faults
  BY DEF ReaderWaits, ReaderRuns
<1>3. /\ connShm.readerShmID \in Readers \cup {NoReader}
      /\ \A w \in Writers : readerShm[w] \in Readers \cup {NoReader}
  BY <1>1 DEF TypeOK
<1>4. CASE R_PEmpty(r)
  <2>1. /\ pc[r] = "P_EMPTY" /\ pc'[r] = "P_MUTEX"
        /\ \A q \in (Procs \cup Initializers) \ {r} : pc'[q] = pc[q]
    <3>1. pc' = [pc EXCEPT ![r] = "P_MUTEX"] /\ pc[r] = "P_EMPTY"
      BY <1>4 DEF R_PEmpty, Goto
    <3>2. "P_MUTEX" \in ReaderAt
      BY DEF ReaderAt, Gone
    <3>3. QED
      BY <1>1, <3>1, <3>2, GotoEffect
  <2>2. P(r, "EMPTY") /\ UNCHANGED <<connShm, readerShm>>
    BY <1>4 DEF R_PEmpty
  <2>3. /\ set'.val["EMPTY"] = set.val["EMPTY"] - 1
        /\ set'.val["MUTEX"] = set.val["MUTEX"]
        /\ set'.val["FULL"] = set.val["FULL"]
        /\ set'.val["W_READED"] = set.val["W_READED"]
        /\ set.val["EMPTY"] > 0
        /\ \A q \in Procs \ {r} : undo'[q] = undo[q]
    BY <1>1, <2>2, PEffect DEF Sems
  <2>4. SlotInv'
    BY <1>1, <2>1, <2>2, <2>3 DEF SlotInv, Meeting, Busy, Waiting, Procs
  <2>5. MutexInv'
    BY <1>1, <2>1, <2>2, <2>3
       DEF SlotInv, MutexInv, Meeting, Busy, Waiting, InMutex, Procs
  <2>6. PairInv'
    BY <1>1, <1>2, <1>3, <2>1, <2>2, <2>3
       DEF SlotInv, PairInv, PairsAreExclusive, Meeting, Busy, Waiting, Procs
  <2>7. LiveUndoInv'
    BY <1>1, <1>3, <2>1, <2>2, <2>3
       DEF SlotInv, PairInv, LiveUndoInv, NoUndo, Meeting, Busy, Waiting, Procs
  <2>8. QED
    BY <2>1, <2>4, <2>5, <2>6, <2>7 DEF Procs
<1>5. CASE R_PMutex(r)
  <2>1. /\ pc[r] = "P_MUTEX" /\ pc'[r] = "store"
        /\ \A q \in (Procs \cup Initializers) \ {r} : pc'[q] = pc[q]
    <3>1. pc' = [pc EXCEPT ![r] = "store"] /\ pc[r] = "P_MUTEX"
      BY <1>5 DEF R_PMutex, Goto
    <3>2. "store" \in ReaderAt
      BY DEF ReaderAt, Gone
    <3>3. QED
      BY <1>1, <3>1, <3>2, GotoEffect
  <2>2. P(r, "MUTEX") /\ UNCHANGED <<connShm, readerShm>>
    BY <1>5 DEF R_PMutex
  <2>3. /\ set'.val["EMPTY"] = set.val["EMPTY"]
        /\ set'.val["MUTEX"] = set.val["MUTEX"] - 1
        /\ set'.val["FULL"] = set.val["FULL"]
        /\ set'.val["W_READED"] = set.val["W_READED"]
        /\ set.val["MUTEX"] > 0
        /\ \A q \in Procs \ {r} : undo'[q] = undo[q]
    BY <1>1, <2>2, PEffect DEF Sems
  <2>4. SlotInv'
    BY <1>1, <2>1, <2>2, <2>3 DEF SlotInv, Meeting, Busy, Waiting, Procs
  <2>5. MutexInv'
    BY <1>1, <2>1, <2>2, <2>3
       DEF SlotInv, MutexInv, Meeting, Busy, Waiting, InMutex, Procs
  <2>6. PairInv'
    BY <1>1, <1>2, <1>3, <2>1, <2>2, <2>3
       DEF SlotInv, PairInv, PairsAreExclusive, Meeting, Busy, Waiting, Procs
  <2>7. LiveUndoInv'
    BY <1>1, <1>3, <2>1, <2>2, <2>3
       DEF SlotInv, PairInv, LiveUndoInv, NoUndo, Meeting, Busy, Waiting, Procs
  <2>8. QED
    BY <2>1, <2>4, <2>5, <2>6, <2>7 DEF Procs
<1>6. CASE R_PReaded(r)
  <2>1. /\ pc[r] = "P_READED" /\ pc'[r] = "reset"
        /\ \A q \in (Procs \cup Initializers) \ {r} : pc'[q] = pc[q]
    <3>1. pc' = [pc EXCEPT ![r] = "reset"] /\ pc[r] = "P_READED"
      BY <1>6 DEF R_PReaded, Goto
    <3>2. "reset" \in ReaderAt
      BY DEF ReaderAt, Gone
    <3>3. QED
      BY <1>1, <3>1, <3>2, GotoEffect
  <2>2. P(r, "W_READED") /\ UNCHANGED <<connShm, readerShm>>
    BY <1>6 DEF R_PReaded
  <2>3. /\ set'.val["EMPTY"] = set.val["EMPTY"]
        /\ set'.val["MUTEX"] = set.val["MUTEX"]
        /\ set'.val["FULL"] = set.val["FULL"]
        /\ set'.val["W_READED"] = set.val["W_READED"] - 1
        /\ set.val["W_READED"] > 0
        /\ \A q \in Procs \ {r} : undo'[q] = undo[q]
    BY <1>1, <2>2, PEffect DEF Sems
  <2>4. SlotInv'
    BY <1>1, <2>1, <2>2, <2>3 DEF SlotInv, Meeting, Busy, Waiting, Procs
  <2>5. MutexInv'
    BY <1>1, <2>1, <2>2, <2>3
       DEF SlotInv, MutexInv, Meeting, Busy, Waiting, InMutex, Procs
  <2>6. PairInv'
    BY <1>1, <1>2, <1>3, <2>1, <2>2, <2>3
       DEF SlotInv, PairInv, PairsAreExclusive, Meeting, Busy, Waiting, Procs
  <2>7. LiveUndoInv'
    BY <1>1, <1>3, <2>1, <2>2, <2>3
       DEF SlotInv, PairInv, LiveUndoInv, NoUndo, Meeting, Busy, Waiting, Procs
  <2>8. QED
    BY <2>1, <2>4, <2>5, <2>6, <2>7 DEF Procs
<1>7. CASE R_Store(r)
  <2>1. /\ pc[r] = "store" /\ pc'[r] = "V_MUTEX"
        /\ \A q \in (Procs \cup Initializers) \ {r} : pc'[q] = pc[q]
    <3>1. pc' = [pc EXCEPT ![r] = "V_MUTEX"] /\ pc[r] = "store"
      BY <1>7 DEF R_Store, Goto
    <3>2. "V_MUTEX" \in ReaderAt
      BY DEF ReaderAt, Gone
    <3>3. QED
      BY <1>1, <3>1, <3>2, GotoEffect
  <2>2. UNCHANGED <<set, undo>>
    BY <1>7 DEF R_Store
  <2>3. connShm'.readerShmID = r /\ UNCHANGED readerShm
    BY <1>7, <1>1 DEF R_Store, TypeOK
  <2>4. SlotInv'
    BY <1>1, <2>1, <2>2, <2>3 DEF SlotInv, Meeting, Busy, Waiting, Procs
  <2>5. MutexInv'
    BY <1>1, <2>1, <2>2, <2>3
       DEF SlotInv, MutexInv, Meeting, Busy, Waiting, InMutex, Procs
  <2>6. PairInv'
    BY <1>1, <1>2, <1>3, <2>1, <2>2, <2>3
       DEF SlotInv, PairInv, PairsAreExclusive, Meeting, Busy, Waiting, Procs
  <2>7. LiveUndoInv'
    BY <1>1, <1>3, <2>1, <2>2, <2>3
       DEF SlotInv, PairInv, LiveUndoInv, NoUndo, Meeting, Busy, Waiting, Procs
  <2>8. QED
    BY <2>1, <2>4, <2>5, <2>6, <2>7 DEF Procs
<1>8. CASE R_VMutex(r)
  <2>1. /\ pc[r] = "V_MUTEX" /\ pc'[r] = "V_FULL"
        /\ \A q \in (Procs \cup Initializers) \ {r} : pc'[q] = pc[q]
    <3>1. pc' = [pc EXCEPT ![r] = "V_FULL"] /\ pc[r] = "V_MUTEX"
      BY <1>8 DEF R_VMutex, Goto
    <3>2. "V_FULL" \in ReaderAt
      BY DEF ReaderAt, Gone
    <3>3. QED
      BY <1>1, <3>1, <3>2, GotoEffect
  <2>2. V(r, "MUTEX") /\ UNCHANGED <<connShm, readerShm>>
    BY <1>8 DEF R_VMutex
  <2>3. /\ set'.val["EMPTY"] = set.val["EMPTY"]
        /\ set'.val["MUTEX"] = set.val["MUTEX"] + 1
        /\ set'.val["FULL"] = set.val["FULL"]
        /\ set'.val["W_READED"] = set.val["W_READED"]
        /\ \A q \in Procs \ {r} : undo'[q] = undo[q]
    BY <1>1, <2>2, VEffect DEF Sems
  <2>4. SlotInv'
    BY <1>1, <2>1, <2>2, <2>3 DEF SlotInv, Meeting, Busy, Waiting, Procs
  <2>5. MutexInv'
    BY <1>1, <2>1, <2>2, <2>3
       DEF SlotInv, MutexInv, Meeting, Busy, Waiting, InMutex, Procs
  <2>6. PairInv'
    BY <1>1, <1>2, <1>3, <2>1, <2>2, <2>3
       DEF SlotInv, PairInv, PairsAreExclusive, Meeting, Busy, Waiting, Procs
  <2>7. LiveUndoInv'
    BY <1>1, <1>3, <2>1, <2>2, <2>3
       DEF SlotInv, PairInv, LiveUndoInv, NoUndo, Meeting, Busy, Waiting, Procs
  <2>8. QED
    BY <2>1, <2>4, <2>5, <2>6, <2>7 DEF Procs
<1>9. CASE R_VFull(r)
  <2>1. /\ pc[r] = "V_FULL" /\ pc'[r] = "P_READED"
        /\ \A q \in (Procs \cup Initializers) \ {r} : pc'[q] = pc[q]
    <3>1. pc' = [pc EXCEPT ![r] = "P_READED"] /\ pc[r] = "V_FULL"
      BY <1>9 DEF R_VFull, Goto
    <3>2. "P_READED" \in ReaderAt
      BY DEF ReaderAt, Gone
    <3>3. QED
      BY <1>1, <3>1, <3>2, GotoEffect
  <2>2. V(r, "FULL") /\ UNCHANGED <<connShm, readerShm>>
    BY <1>9 DEF R_VFull
  <2>3. /\ set'.val["EMPTY"] = set.val["EMPTY"]
        /\ set'.val["MUTEX"] = set.val["MUTEX"]
        /\ set'.val["FULL"] = set.val["FULL"] + 1
        /\ set'.val["W_READED"] = set.val["W_READED"]
        /\ \A q \in Procs \ {r} : undo'[q] = undo[q]
    BY <1>1, <2>2, VEffect DEF Sems
  <2>4. SlotInv'
    BY <1>1, <2>1, <2>2, <2>3 DEF SlotInv, Meeting, Busy, Waiting, Procs
  <2>5. MutexInv'
    BY <1>1, <2>1, <2>2, <2>3
       DEF SlotInv, MutexInv, Meeting, Busy, Waiting, InMutex, Procs
  <2>6. PairInv'
    BY <1>1, <1>2, <1>3, <2>1, <2>2, <2>3
       DEF SlotInv, PairInv, PairsAreExclusive, Meeting, Busy, Waiting, Procs
  <2>7. LiveUndoInv'
    BY <1>1, <1>3, <2>1, <2>2, <2>3
       DEF SlotInv, PairInv, LiveUndoInv, NoUndo, Meeting, Busy, Waiting, Procs
  <2>8. QED
    BY <2>1, <2>4, <2>5, <2>6, <2>7 DEF Procs
<1>10. CASE R_Reset(r)
  <2>1. /\ pc[r] = "reset" /\ pc'[r] = "transfer"
        /\ \A q \in (Procs \cup Initializers) \ {r} : pc'[q] = pc[q]
    <3>1. pc' = [pc EXCEPT ![r] = "transfer"] /\ pc[r] = "reset"
      BY <1>10 DEF R_Reset, Goto
    <3>2. "transfer" \in ReaderAt
      BY DEF ReaderAt, Gone
    <3>3. QED
      BY <1>1, <3>1, <3>2, GotoEffect
  <2>2. SetAll(ConnOps) /\ UNCHANGED <<connShm, readerShm>>
    BY <1>10 DEF R_Reset
  <2>3. /\ set'.val["MUTEX"] = 1 /\ set'.val["EMPTY"] = 1
        /\ set'.val["FULL"] = 0 /\ set'.val["W_READED"] = 0
        /\ \A q \in Procs : undo'[q] = NoUndo
    BY <1>1, <2>2, SetAllEffect
  <2>4. SlotInv'
    BY <1>1, <2>1, <2>2, <2>3 DEF SlotInv, Meeting, Busy, Waiting, Procs
  <2>5. MutexInv'
    <3>1. \A p \in Procs : ~InMutex(p)
      BY <2>1, AtReset
    <3>2. \A p \in Procs : ~InMutex(p)'
      BY <1>1, <2>1, <3>1 DEF InMutex, Procs
    <3>3. QED
      BY <2>3, <3>2 DEF MutexInv
  <2>6. PairInv'
    BY <1>1, <1>2, <1>3, <2>1, <2>2, <2>3
       DEF SlotInv, PairInv, PairsAreExclusive, Meeting, Busy, Waiting, Procs
  <2>7. LiveUndoInv'
    BY <1>1, <1>3, <2>1, <2>2, <2>3
       DEF SlotInv, PairInv, LiveUndoInv, NoUndo, Meeting, Busy, Waiting, Procs
  <2>8. QED
    BY <2>1, <2>4, <2>5, <2>6, <2>7 DEF Procs
<1>11. CASE R_Finish(r)
  <2>1. /\ pc[r] = "transfer" /\ pc'[r] = "left"
        /\ \A q \in (Procs \cup Initializers) \ {r} : pc'[q] = pc[q]
    <3>1. pc' = [pc EXCEPT ![r] = "left"] /\ pc[r] = "transfer"
      BY <1>11 DEF R_Finish, Goto
    <3>2. "left" \in ReaderAt
      BY DEF ReaderAt, Gone
    <3>3. QED
      BY <1>1, <3>1, <3>2, GotoEffect
  <2>2. Exit(r) /\ UNCHANGED <<connShm, readerShm>>
    BY <1>11 DEF R_Finish
  <2>3. /\ set'.val = set.val /\ undo'[r] = NoUndo
        /\ \A q \in Procs \ {r} : undo'[q] = undo[q]
    <3>1. undo[r] = NoUndo
      BY <1>11, <1>1, <1>3, <2>1
         DEF R_Finish, LiveUndoInv, PairInv, Meeting, Busy
    <3>2. QED
      BY <1>1, <2>2, <3>1, ExitEffect
  <2>4. SlotInv'
    BY <1>1, <2>1, <2>2, <2>3 DEF SlotInv, Meeting, Busy, Waiting, Procs
  <2>5. MutexInv'
    BY <1>1, <2>1, <2>2, <2>3
       DEF SlotInv, MutexInv, Meeting, Busy, Waiting, InMutex, Procs
  <2>6. PairInv'
    BY <1>1, <1>2, <1>3, <2>1, <2>2, <2>3
       DEF SlotInv, PairInv, PairsAreExclusive, Meeting, Busy, Waiting, Procs
  <2>7. LiveUndoInv'
    BY <1>1, <1>3, <2>1, <2>2, <2>3
       DEF SlotInv, PairInv, LiveUndoInv, NoUndo, Meeting, Busy, Waiting, Procs
  <2>8. QED
    BY <2>1, <2>4, <2>5, <2>6, <2>7 DEF Procs
<1>12. ~R_GiveUp(r)
  BY <1>1 DEF R_GiveUp
<1>13. QED
  BY <1>4, <1>5, <1>6, <1>7, <1>8, <1>9, <1>10, <1>11, <1>12
     DEF ReaderWaits, ReaderRuns

LEMMA WriterKeepsReady ==
  ASSUME ReadyInv, NEW w \in Writers, WriterWaits(w) \/ WriterRuns(w)
  PROVE  /\ \A i \in Initializers : pc'[i] = pc[i]
         /\ SlotInv' /\ MutexInv' /\ PairInv' /\ LiveUndoInv'
<1>1. /\ TypeOK /\ faults = {} /\ SlotInv /\ MutexInv /\ PairInv /\ LiveUndoInv
      /\ w \in Procs /\ w \notin Readers /\ w \notin Initializers
      /\ \A s \in Sems : set.val[s] \in Nat
  BY DEF ReadyInv, IInv, TypeOK, Procs
<1>2. UNCHANGED faults
  BY DEF WriterWaits, WriterRuns
<1>3. /\ connShm.readerShmID \in Readers \cup {NoReader}
      /\ \A v \in Writers : readerShm[v] \in Readers \cup {NoReader}
  BY <1>1 DEF TypeOK
<1>4. CASE W_PFull(w)
  <2>1. /\ pc[w] = "P_FULL" /\ pc'[w] = "P_MUTEX"
        /\ \A q \in (Procs \cup Initializers) \ {w} : pc'[q] = pc[q]
    <3>1. pc' = [pc EXCEPT ![w] = "P_MUTEX"] /\ pc[w] = "P_FULL"
      BY <1>4 DEF W_PFull, Goto
    <3>2. "P_MUTEX" \in WriterAt
      BY DEF WriterAt, Gone
    <3>3. QED
      BY <1>1, <3>1, <3>2, GotoEffect
  <2>2. P(w, "FULL") /\ UNCHANGED <<connShm, readerShm>>
    BY <1>4 DEF W_PFull
  <2>3. /\ set'.val["EMPTY"] = set.val["EMPTY"]
        /\ set'.val["MUTEX"] = set.val["MUTEX"]
        /\ set'.val["FULL"] = set.val["FULL"] - 1
        /\ set'.val["W_READED"] = set.val["W_READED"]
        /\ set.val["FULL"] > 0
        /\ \A q \in Procs \ {w} : undo'[q] = undo[q]
    BY <1>1, <2>2, PEffect DEF Sems
  <2>4. SlotInv'
    BY <1>1, <2>1, <2>2, <2>3 DEF SlotInv, Meeting, Busy, Waiting, Procs
  <2>5. MutexInv'
    BY <1>1, <2>1, <2>2, <2>3
       DEF SlotInv, MutexInv, Meeting, Busy, Waiting, InMutex, Procs
  <2>6. PairInv'
    BY <1>1, <1>2, <1>3, <2>1, <2>2, <2>3
       DEF SlotInv, PairInv, PairsAreExclusive, Meeting, Busy, Waiting, Procs
  <2>7. LiveUndoInv'
    BY <1>1, <1>3, <2>1, <2>2, <2>3
       DEF SlotInv, PairInv, LiveUndoInv, NoUndo, Meeting, Busy, Waiting, Procs
  <2>8. QED
    BY <2>1, <2>4, <2>5, <2>6, <2>7 DEF Procs
<1>5. CASE W_PMutex(w)
  <2>1. /\ pc[w] = "P_MUTEX" /\ pc'[w] = "load"
        /\ \A q \in (Procs \cup Initializers) \ {w} : pc'[q] = pc[q]
    <3>1. pc' = [pc EXCEPT ![w] = "load"] /\ pc[w] = "P_MUTEX"
      BY <1>5 DEF W_PMutex, Goto
    <3>2. "load" \in WriterAt
      BY DEF WriterAt, Gone
    <3>3. QED
      BY <1>1, <3>1, <3>2, GotoEffect
  <2>2. P(w, "MUTEX") /\ UNCHANGED <<connShm, readerShm>>
    BY <1>5 DEF W_PMutex
  <2>3. /\ set'.val["EMPTY"] = set.val["EMPTY"]
        /\ set'.val["MUTEX"] = set.val["MUTEX"] - 1
        /\ set'.val["FULL"] = set.val["FULL"]
        /\ set'.val["W_READED"] = set.val["W_READED"]
        /\ set.val["MUTEX"] > 0
        /\ \A q \in Procs \ {w} : undo'[q] = undo[q]
    BY <1>1, <2>2, PEffect DEF Sems
  <2>4. SlotInv'
    BY <1>1, <2>1, <2>2, <2>3 DEF SlotInv, Meeting, Busy, Waiting, Procs
  <2>5. MutexInv'
    BY <1>1, <2>1, <2>2, <2>3
       DEF SlotInv, MutexInv, Meeting, Busy, Waiting, InMutex, Procs
  <2>6. PairInv'
    BY <1>1, <1>2, <1>3, <2>1, <2>2, <2>3
       DEF SlotInv, PairInv, PairsAreExclusive, Meeting, Busy, Waiting, Procs
  <2>7. LiveUndoInv'
    BY <1>1, <1>3, <2>1, <2>2, <2>3
       DEF SlotInv, PairInv, LiveUndoInv, NoUndo, Meeting, Busy, Waiting, Procs
  <2>8. QED
    BY <2>1, <2>4, <2>5, <2>6, <2>7 DEF Procs
<1>6. CASE W_Attach(w)
  <2>1. /\ pc[w] = "load" /\ pc'[w] = "V_MUTEX"
        /\ \A q \in (Procs \cup Initializers) \ {w} : pc'[q] = pc[q]
    <3>1. pc' = [pc EXCEPT ![w] = "V_MUTEX"] /\ pc[w] = "load"
      BY <1>6 DEF W_Attach, Goto
    <3>2. "V_MUTEX" \in WriterAt
      BY DEF WriterAt, Gone
    <3>3. QED
      BY <1>1, <3>1, <3>2, GotoEffect
  <2>2. UNCHANGED <<set, undo>>
    BY <1>6 DEF W_Attach
  <2>3. /\ UNCHANGED connShm
        /\ readerShm'[w] = connShm.readerShmID
        /\ \A v \in Writers \ {w} : readerShm'[v] = readerShm[v]
    BY <1>6, <1>1 DEF W_Attach, TypeOK
  <2>4. SlotInv'
    BY <1>1, <2>1, <2>2, <2>3 DEF SlotInv, Meeting, Busy, Waiting, Procs
  <2>5. MutexInv'
    BY <1>1, <2>1, <2>2, <2>3
       DEF SlotInv, MutexInv, Meeting, Busy, Waiting, InMutex, Procs
  <2>6. PairInv'
    BY <1>1, <1>2, <1>3, <2>1, <2>2, <2>3
       DEF SlotInv, PairInv, PairsAreExclusive, Meeting, Busy, Waiting, Procs
  <2>7. LiveUndoInv'
    BY <1>1, <1>3, <2>1, <2>2, <2>3
       DEF SlotInv, PairInv, LiveUndoInv, NoUndo, Meeting, Busy, Waiting, Procs
  <2>8. QED
    BY <2>1, <2>4, <2>5, <2>6, <2>7 DEF Procs
<1>7. CASE W_VMutex(w)
  <2>1. /\ pc[w] = "V_MUTEX" /\ pc'[w] = "V_READED"
        /\ \A q \in (Procs \cup Initializers) \ {w} : pc'[q] = pc[q]
    <3>1. pc' = [pc EXCEPT ![w] = "V_READED"] /\ pc[w] = "V_MUTEX"
      BY <1>7 DEF W_VMutex, Goto
    <3>2. "V_READED" \in WriterAt
      BY DEF WriterAt, Gone
    <3>3. QED
      BY <1>1, <3>1, <3>2, GotoEffect
  <2>2. V(w, "MUTEX") /\ UNCHANGED <<connShm, readerShm>>
    BY <1>7 DEF W_VMutex
  <2>3. /\ set'.val["EMPTY"] = set.val["EMPTY"]
        /\ set'.val["MUTEX"] = set.val["MUTEX"] + 1
        /\ set'.val["FULL"] = set.val["FULL"]
        /\ set'.val["W_READED"] = set.val["W_READED"]
        /\ \A q \in Procs \ {w} : undo'[q] = undo[q]
    BY <1>1, <2>2, VEffect DEF Sems
  <2>4. SlotInv'
    BY <1>1, <2>1, <2>2, <2>3 DEF SlotInv, Meeting, Busy, Waiting, Procs
  <2>5. MutexInv'
    BY <1>1, <2>1, <2>2, <2>3
       DEF SlotInv, MutexInv, Meeting, Busy, Waiting, InMutex, Procs
  <2>6. PairInv'
    BY <1>1, <1>2, <1>3, <2>1, <2>2, <2>3
       DEF SlotInv, PairInv, PairsAreExclusive, Meeting, Busy, Waiting, Procs
  <2>7. LiveUndoInv'
    BY <1>1, <1>3, <2>1, <2>2, <2>3
       DEF SlotInv, PairInv, LiveUndoInv, NoUndo, Meeting, Busy, Waiting, Procs
  <2>8. QED
    BY <2>1, <2>4, <2>5, <2>6, <2>7 DEF Procs
<1>8. CASE W_VReaded(w)
  <2>1. /\ pc[w] = "V_READED" /\ pc'[w] = "transfer"
        /\ \A q \in (Procs \cup Initializers) \ {w} : pc'[q] = pc[q]
    <3>1. pc' = [pc EXCEPT ![w] = "transfer"] /\ pc[w] = "V_READED"
      BY <1>8 DEF W_VReaded, Goto
    <3>2. "transfer" \in WriterAt
      BY DEF WriterAt, Gone
    <3>3. QED
      BY <1>1, <3>1, <3>2, GotoEffect
  <2>2. V(w, "W_READED") /\ UNCHANGED <<connShm, readerShm>>
    BY <1>8 DEF W_VReaded
  <2>3. /\ set'.val["EMPTY"] = set.val["EMPTY"]
        /\ set'.val["MUTEX"] = set.val["MUTEX"]
        /\ set'.val["FULL"] = set.val["FULL"]
        /\ set'.val["W_READED"] = set.val["W_READED"] + 1
        /\ \A q \in Procs \ {w} : undo'[q] = undo[q]
    BY <1>1, <2>2, VEffect DEF Sems
  <2>4. SlotInv'
    BY <1>1, <2>1, <2>2, <2>3 DEF SlotInv, Meeting, Busy, Waiting, Procs
  <2>5. MutexInv'
    BY <1>1, <2>1, <2>2, <2>3
       DEF SlotInv, MutexInv, Meeting, Busy, Waiting, InMutex, Procs
  <2>6. PairInv'
    BY <1>1, <1>2, <1>3, <2>1, <2>2, <2>3
       DEF SlotInv, PairInv, PairsAreExclusive, Meeting, Busy, Waiting, Procs
  <2>7. LiveUndoInv'
    BY <1>1, <1>3, <2>1, <2>2, <2>3
       DEF SlotInv, PairInv, LiveUndoInv, NoUndo, Meeting, Busy, Waiting, Procs
  <2>8. QED
    BY <2>1, <2>4, <2>5, <2>6, <2>7 DEF Procs
<1>9. CASE W_Finish(w)
  <2>1. /\ pc[w] = "transfer" /\ pc'[w] = "left"
        /\ \A q \in (Procs \cup Initializers) \ {w} : pc'[q] = pc[q]
    <3>1. pc' = [pc EXCEPT ![w] = "left"] /\ pc[w] = "transfer"
      BY <1>9 DEF W_Finish, Goto
    <3>2. "left" \in WriterAt
      BY DEF WriterAt, Gone
    <3>3. QED
      BY <1>1, <3>1, <3>2, GotoEffect
  <2>2. Exit(w) /\ UNCHANGED <<connShm, readerShm>>
    BY <1>9 DEF W_Finish
  <2>3. /\ set'.val = set.val /\ undo'[w] = NoUndo
        /\ \A q \in Procs \ {w} : undo'[q] = undo[q]
    <3>1. undo[w] = NoUndo
      BY <1>9, <1>1, <1>3, <2>1
         DEF W_Finish, LiveUndoInv, PairInv, Meeting, Busy
    <3>2. QED
      BY <1>1, <2>2, <3>1, ExitEffect
  <2>4. SlotInv'
    BY <1>1, <2>1, <2>2, <2>3 DEF SlotInv, Meeting, Busy, Waiting, Procs
  <2>5. MutexInv'
    BY <1>1, <2>1, <2>2, <2>3
       DEF SlotInv, MutexInv, Meeting, Busy, Waiting, InMutex, Procs
  <2>6. PairInv'
    BY <1>1, <1>2, <1>3, <2>1, <2>2, <2>3
       DEF SlotInv, PairInv, PairsAreExclusive, Meeting, Busy, Waiting, Procs
  <2>7. LiveUndoInv'
    BY <1>1, <1>3, <2>1, <2>2, <2>3
       DEF SlotInv, PairInv, LiveUndoInv, NoUndo, Meeting, Busy, Waiting, Procs
  <2>8. QED
    BY <2>1, <2>4, <2>5, <2>6, <2>7 DEF Procs
<1>10. ~W_AttachGone(w)
  BY <1>1 DEF W_AttachGone, Goto, SlotInv, PairInv, Busy, Waiting
<1>11. QED
  BY <1>4, <1>5, <1>6, <1>7, <1>8, <1>9, <1>10
     DEF WriterWaits, WriterRuns

LEMMA GetConnShmKeepsReady ==
  ASSUME ReadyInv, NEW p \in Procs, GetConnShm(p)
  PROVE  /\ \A i \in Initializers : pc'[i] = pc[i]
         /\ SlotInv' /\ MutexInv' /\ PairInv' /\ LiveUndoInv'
<1>1. /\ TypeOK /\ faults = {} /\ SlotInv /\ MutexInv /\ PairInv /\ LiveUndoInv
      /\ p \notin Initializers
      /\ \A w \in Writers : readerShm[w] \in Readers \cup {NoReader}
  BY DEF ReadyInv, IInv, TypeOK, Procs
<1>2. PICK to \in {"getSem", "compare", "failed", Start(p)} :
        pc' = [pc EXCEPT ![p] = to]
  BY DEF GetConnShm, GetShm, GetSem, Compare, Goto
<1>3. /\ pc[p] \in Coming
      /\ UNCHANGED <<faults, connShm, set, undo, readerShm>>
  BY DEF GetConnShm, GetShm, GetSem, Compare, Goto, Coming
<1>4. to \in Coming \cup {"failed", "P_EMPTY", "P_FULL"}
  BY <1>2 DEF Start, Coming
<1>5. to \in ReaderAt \cup WriterAt
  BY <1>4 DEF ReaderAt, WriterAt, Gone
<1>6. /\ pc'[p] = to
      /\ \A q \in (Procs \cup Initializers) \ {p} : pc'[q] = pc[q]
  BY <1>1, <1>2, <1>5, GotoEffect
<1>7. SlotInv'
  BY <1>1, <1>3, <1>4, <1>6 DEF SlotInv, Meeting, Busy, Waiting, Coming, Procs
<1>8. MutexInv'
  BY <1>1, <1>3, <1>4, <1>6 DEF MutexInv, InMutex, Coming, Procs
<1>9. PairInv'
  BY <1>1, <1>3, <1>4, <1>6
     DEF PairInv, PairsAreExclusive, Coming, Procs
<1>10. LiveUndoInv'
  BY <1>1, <1>3, <1>4, <1>6
     DEF LiveUndoInv, NoUndo, Meeting, Busy, Coming, Procs
<1>11. QED
  BY <1>1, <1>6, <1>7, <1>8, <1>9, <1>10 DEF Procs

(* A connection that is ready has no adjustments and its slot open.        *)
LEMMA InitReady == Init => ReadyInv
<1> SUFFICES ASSUME Init PROVE ReadyInv
  OBVIOUS
<1>1. /\ IInv /\ faults = {}
      /\ \A i \in Initializers : pc[i] = "published"
      /\ \A p \in Procs : pc[p] = "getShm" /\ undo[p] = NoUndo
      /\ \A w \in Writers : readerShm[w] = NoReader
  BY InitInv DEF Init, Procs
<1>2. /\ set.val["EMPTY"] = 1 /\ set.val["MUTEX"] = 1
      /\ set.val["FULL"] = 0 /\ set.val["W_READED"] = 0
  BY DEF Init, ConnOps, Sems
<1>3. SlotInv /\ MutexInv
  BY <1>1, <1>2 DEF SlotInv, MutexInv, InMutex, Meeting, Busy, Waiting, Procs
<1>4. PairInv /\ LiveUndoInv
  BY <1>1, <1>2 DEF PairInv, PairsAreExclusive, LiveUndoInv, Procs
<1>5. QED
  BY <1>1, <1>3, <1>4 DEF ReadyInv

LEMMA FaultsStay == [Next]_vars => faults' = faults
  BY DEF Next, vars, InitializerStep, GetConnShm, ReaderWaits, ReaderRuns,
         WriterWaits, WriterRuns, Stopped

LEMMA NextReady == ReadyInv /\ [Next]_vars => ReadyInv'
<1> SUFFICES ASSUME ReadyInv, [Next]_vars PROVE ReadyInv'
  OBVIOUS
<1>1. /\ IInv' /\ faults' = {}
      /\ faults = {} /\ \A i \in Initializers : pc[i] = "published"
  BY NextInv, FaultsStay DEF ReadyInv
<1> DEFINE Kept == /\ \A i \in Initializers : pc'[i] = pc[i]
                   /\ SlotInv' /\ MutexInv' /\ PairInv' /\ LiveUndoInv'
<1>2. Kept => ReadyInv'
  BY <1>1 DEF ReadyInv
<1> HIDE DEF Kept
<1>3. CASE UNCHANGED vars
  BY <1>3 DEF vars, ReadyInv, IInv, TypeOK, UndoInv, UndoOf, InMutex, Meeting,
     ClosedInv, CreditInv, Initialized, Credit, Pos, Neg, SlotInv, MutexInv,
     PairInv, PairsAreExclusive, LiveUndoInv, Busy, Waiting
<1>4. ~\E i \in Initializers : InitializerStep(i)
  BY <1>1 DEF InitializerStep, MakeShm, MakeSem, InitSetAll, Publish, Goto
<1>5. CASE \E p \in Procs : GetConnShm(p)
  BY <1>2, <1>5, GetConnShmKeepsReady DEF Kept
<1>6. ~\E p \in Procs : Kill(p)
  BY <1>1 DEF Kill
<1>7. CASE \E r \in Readers : ReaderWaits(r) \/ ReaderRuns(r)
  BY <1>2, <1>7, ReaderKeepsReady DEF Kept
<1>8. CASE \E w \in Writers : WriterWaits(w) \/ WriterRuns(w)
  BY <1>2, <1>8, WriterKeepsReady DEF Kept
<1>9. QED
  BY <1>3, <1>4, <1>5, <1>6, <1>7, <1>8 DEF Next, Stopped

(* While nothing fails in a connection that was ready, its parts stay so.  *)
THEOREM ReadyInductive == ReadySpec => []ReadyInv
<1>1. QED
  BY InitReady, NextReady, PTL DEF ReadySpec

(* No two writers ever get the same reader.                                *)
THEOREM PairsExclusive == ReadySpec => []PairsAreExclusive
<1>1. ReadyInv => PairsAreExclusive
  BY DEF ReadyInv, PairInv
<1>2. QED
  BY <1>1, ReadyInductive, PTL

(* A run that may fail says so from the start, so in the runs of Spec the  *)
(* connection of a run without faults was ready.                           *)
LEMMA FaultFreeIsReady ==
  ASSUME Faults # {}
  PROVE  Spec => [](faults = {} => ReadyInv)
<1>1. Init \/ InitFresh => (faults = {} => ReadyInv)
  BY InitReady DEF InitFresh
<1>2. (faults = {} => ReadyInv) /\ [Next]_vars => (faults = {} => ReadyInv)'
  BY NextReady, FaultsStay
<1>3. QED
  BY <1>1, <1>2, PTL DEF Spec

(* The same of Spec: where InitConnShm runs twice, or callers of           *)
(* GetConnShm come too early, faults says so.                              *)
THEOREM FaultFreePairsExclusive ==
  ASSUME Faults # {}
  PROVE  Spec => []PairsAreExclusive
<1>1. (faults = {} => ReadyInv) => PairsAreExclusive
  BY DEF ReadyInv, PairInv, PairsAreExclusive
<1>2. QED
  BY <1>1, FaultFreeIsReady, PTL

(* Only its own SETALL takes a reader from reset to transfer.              *)
LEMMA ResetIsSetAll ==
  ASSUME TypeOK, faults = {}, [Next]_vars, NEW r \in Readers,
         pc[r] = "reset", pc'[r] = "transfer"
  PROVE  SetAll(ConnOps)
<1>1. ASSUME NEW p \in Procs \cup Initializers, NEW to,
             pc' = [pc EXCEPT ![p] = to]
      PROVE  p = r
  BY <1>1 DEF TypeOK
<1>2. r \notin Initializers /\ r \in Procs /\ r \notin Writers
  BY DEF Procs
<1>3. ~UNCHANGED vars
  BY DEF vars
<1>4. ~\E i \in Initializers : InitializerStep(i)
  BY <1>1, <1>2
     DEF InitializerStep, MakeShm, MakeSem, InitSetAll, Publish, Goto
<1>5. ~\E p \in Procs : GetConnShm(p)
  BY <1>1 DEF GetConnShm, GetShm, GetSem, Compare, Goto
<1>6. ~\E p \in Procs : Kill(p)
  BY DEF Kill
<1>7. ~\E w \in Writers : WriterWaits(w) \/ WriterRuns(w)
  BY <1>1, <1>2 DEF WriterWaits, WriterRuns, W_PFull, W_PMutex, W_Attach,
     W_AttachGone, W_VMutex, W_VReaded, W_Finish, Goto, Procs
<1>8. ASSUME NEW q \in Readers, ReaderWaits(q) \/ ReaderRuns(q)
      PROVE  SetAll(ConnOps)
  <2>1. q = r
    BY <1>1, <1>8 DEF ReaderWaits, ReaderRuns, R_PEmpty, R_PMutex, R_PReaded,
       R_Store, R_VMutex, R_VFull, R_Reset, R_Finish, R_GiveUp, Goto, Procs
  <2>2. R_Reset(r)
    BY <1>8, <2>1 DEF ReaderWaits, ReaderRuns, R_PEmpty, R_PMutex, R_PReaded,
       R_Store, R_VMutex, R_VFull, R_Finish, R_GiveUp, Goto
  <2>3. QED
    BY <2>2 DEF R_Reset
<1>9. QED
  BY <1>3, <1>4, <1>5, <1>6, <1>7, <1>8 DEF Next, Stopped

(* What the SETALL of a reader does there.                                 *)
LEMMA ResetReopens ==
  ASSUME ReadyInv, [Next]_vars, NEW r \in Readers,
         pc[r] = "reset", pc'[r] = "transfer"
  PROVE  /\ set'.val = [set.val EXCEPT !["EMPTY"] = @ + 1]
         /\ \A p \in Procs \ {r} :
              undo[p] # NoUndo => p \in Writers /\ readerShm[p] = r
<1>1. TypeOK /\ faults = {} /\ SlotInv /\ PairInv /\ LiveUndoInv
  BY DEF ReadyInv, IInv
<1>2. set'.val = ConnOps
  BY <1>1, ResetIsSetAll, SetAllEffect
<1>3. /\ \A w \in Writers : ~Busy(w)
      /\ set.val["EMPTY"] = 0 /\ set.val["MUTEX"] = 1
      /\ set.val["FULL"] = 0 /\ set.val["W_READED"] = 0
  BY AtReset
<1>4. ConnOps = [set.val EXCEPT !["EMPTY"] = @ + 1]
  <2>1. set.val \in [Sems -> Nat]
    BY <1>1 DEF TypeOK
  <2>2. QED
    BY <1>3, <2>1 DEF ConnOps, Sems
<1>5. ASSUME NEW p \in Procs \ {r}, undo[p] # NoUndo
      PROVE  p \in Writers /\ readerShm[p] = r
  <2>1. \A q \in Readers : Meeting(q) => q = r
    BY <1>1 DEF SlotInv, Meeting
  <2>2. p \in Writers
    BY <1>1, <1>5, <2>1 DEF LiveUndoInv, Procs
  <2>3. readerShm[p] # NoReader /\ Meeting(readerShm[p])
    BY <1>1, <1>3, <1>5, <2>2 DEF LiveUndoInv
  <2>4. readerShm[p] \in Readers
    BY <1>1, <2>2, <2>3 DEF TypeOK
  <2>5. QED
    BY <2>1, <2>2, <2>3, <2>4
<1>6. QED
  BY <1>2, <1>4, <1>5

(* A SETALL where V(EMPTY) was meant is no different while nothing fails.  *)
THEOREM ResetReopensTheSlot ==
  ASSUME Faults # {}
  PROVE  Spec => ResetOnlyReopensTheSlot
<1>1. (faults = {} => ReadyInv) /\ [Next]_vars =>
        [\A r \in Readers :
           (faults = {} /\ pc[r] = "reset" /\ pc'[r] = "transfer") =>
             /\ set'.val = [set.val EXCEPT !["EMPTY"] = @ + 1]
             /\ \A p \in Procs \ {r} :
                  undo[p] # NoUndo => p \in Writers /\ readerShm[p] = r]_vars
  BY ResetReopens
<1>2. QED
  BY <1>1, FaultFreeIsReady, PTL DEF Spec, ResetOnlyReopensTheSlot

(* The same after an initialisation that is over, whatever Faults holds:   *)
(* the SETALL of line 91 takes back only what reader and writer have done. *)
THEOREM ReadyResetReopensTheSlot == ReadySpec => ResetOnlyReopensTheSlot
<1>1. ReadyInv /\ [Next]_vars =>
        [\A r \in Readers :
           (faults = {} /\ pc[r] = "reset" /\ pc'[r] = "transfer") =>
             /\ set'.val = [set.val EXCEPT !["EMPTY"] = @ + 1]
             /\ \A p \in Procs \ {r} :
                  undo[p] # NoUndo => p \in Writers /\ readerShm[p] = r]_vars
  BY ResetReopens
<1>2. QED
  BY <1>1, ReadyInductive, PTL DEF ReadySpec, ResetOnlyReopensTheSlot
=============================================================================
