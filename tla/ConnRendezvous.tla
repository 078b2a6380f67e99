--------------------------- MODULE ConnRendezvous ---------------------------
(***************************************************************************)
(* FWRonSemShm/wrrd.cpp and main.cpp: how readers and writers meet.  All   *)
(* of them share one memory segment and one semaphore set, found by ftok   *)
(* on the program's name.  A reader publishes the id of its personal       *)
(* memory in connShm->readerShmID, a writer picks it up:                   *)
(*                                                                         *)
(*   reader: P(EMPTY) P(MUTEX) store V(MUTEX) V(FULL) P(W_READED) SETALL   *)
(*   writer: P(FULL) P(MUTEX) load, attach V(MUTEX) V(W_READED)            *)
(*                                                                         *)
(* Every P and V carries SEM_UNDO, so the kernel takes back what a process *)
(* did when it exits, killed or not; SETALL stores {1, 1, 0, 0} and makes  *)
(* the kernel forget everyone's adjustments.  The transfer that follows is *)
(* module PersTransfer; here it is one state that each side leaves.        *)
(***************************************************************************)
EXTENDS Integers, FiniteSets

CONSTANTS
  Readers, Writers,
  Initializers,   \* runs of the program with two arguments (InitConnShm)
  ConnSemID,      \* the id the kernel gives the semaphore set
  Faults,         \* a subset of FaultKinds
  NoReader        \* the readerShmID of nobody

FaultKinds == {"kill",    \* a process is killed
               "early"}   \* a side leaves the transfer without the other:
                          \* an empty or unreadable file, 5 seconds passed

ASSUME RolesAssumption ==
  /\ Readers \cap Writers = {}
  /\ Initializers \cap (Readers \cup Writers) = {}
  /\ IsFiniteSet(Readers) /\ IsFiniteSet(Writers)
  /\ Initializers # {}
  /\ NoReader \notin Readers
  /\ ConnSemID \in Nat
  /\ Faults \subseteq FaultKinds

Procs == Readers \cup Writers
Sems == {"EMPTY", "MUTEX", "FULL", "W_READED"}

VARIABLES
  faults,         \* what may go wrong in this run
  pc,             \* where each process is
  connShm,        \* the segment: made, semID, readerShmID
  set,            \* the semaphore set: made, and the value of each one
  undo,           \* the kernel's adjustments, for each process
  readerShm       \* the reader whose memory each writer has attached

vars == <<faults, pc, connShm, set, undo, readerShm>>

NoUndo == [s \in Sems |-> 0]
ConnOps == [s \in Sems |-> IF s \in {"EMPTY", "MUTEX"} THEN 1 ELSE 0]

(* Nothing exists yet.                                                     *)
InitFresh ==
  /\ faults = Faults
  /\ pc = [p \in Procs \cup Initializers |->
             IF p \in Procs THEN "getShm" ELSE "makeShm"]
  /\ connShm = [made |-> FALSE, semID |-> 0, readerShmID |-> NoReader]
  /\ set = [made |-> FALSE, val |-> NoUndo]
  /\ undo = [p \in Procs |-> NoUndo]
  /\ readerShm = [w \in Writers |-> NoReader]

(* The connection was initialised once and for all, and nothing fails.     *)
Init ==
  /\ faults = {}
  /\ pc = [p \in Procs \cup Initializers |->
             IF p \in Procs THEN "getShm" ELSE "published"]
  /\ connShm = [made |-> TRUE, semID |-> ConnSemID, readerShmID |-> NoReader]
  /\ set = [made |-> TRUE, val |-> ConnOps]
  /\ undo = [p \in Procs |-> NoUndo]
  /\ readerShm = [w \in Writers |-> NoReader]

Goto(p, from, to) == pc[p] = from /\ pc' = [pc EXCEPT ![p] = to]

-----------------------------------------------------------------------------
(* System V semaphores                                                     *)

(* P without SEM_UNDO in its flags.                                        *)
PNoUndo(p, s) ==
  /\ set.val[s] > 0
  /\ set' = [set EXCEPT !.val[s] = @ - 1]
  /\ UNCHANGED undo

P(p, s) ==
  /\ set.val[s] > 0
  /\ set' = [set EXCEPT !.val[s] = @ - 1]
  /\ undo' = [undo EXCEPT ![p][s] = @ + 1]

V(p, s) ==
  /\ set' = [set EXCEPT !.val[s] = @ + 1]
  /\ undo' = [undo EXCEPT ![p][s] = @ - 1]

SetAll(ops) ==
  /\ set' = [set EXCEPT !.val = ops]
  /\ undo' = [p \in Procs |-> NoUndo]

(* The end of a process: each adjustment is added to its semaphore, which  *)
(* does not go below 0.                                                    *)
Exit(p) ==
  /\ set' = [set EXCEPT !.val =
               [s \in Sems |-> IF @[s] + undo[p][s] < 0
                                 THEN 0 ELSE @[s] + undo[p][s]]]
  /\ undo' = [undo EXCEPT ![p] = NoUndo]

-----------------------------------------------------------------------------
(* InitConnShm.  Both IPC_CREAT calls find what is there already.          *)

MakeShm(i) ==
  /\ Goto(i, "makeShm", "makeSem")
  /\ connShm' = [connShm EXCEPT !.made = TRUE]
  /\ UNCHANGED <<set, undo, readerShm>>

(* A new set's semaphores are 0.                                           *)
MakeSem(i) ==
  /\ Goto(i, "makeSem", "setAll")
  /\ set' = [set EXCEPT !.made = TRUE]
  /\ UNCHANGED <<connShm, undo, readerShm>>

InitSetAll(i) ==
  /\ Goto(i, "setAll", "publish")
  /\ SetAll(ConnOps)
  /\ UNCHANGED <<connShm, readerShm>>

Publish(i) ==
  /\ Goto(i, "publish", "published")
  /\ connShm' = [connShm EXCEPT !.semID = ConnSemID]
  /\ UNCHANGED <<set, undo, readerShm>>

(* GetConnShm: shmget and semget fail where nothing was made, and a semID  *)
(* other than the set's is refused.                                        *)
Start(p) == IF p \in Readers THEN "P_EMPTY" ELSE "P_FULL"

GetShm(p) ==
  /\ Goto(p, "getShm", IF connShm.made THEN "getSem" ELSE "failed")
  /\ UNCHANGED <<connShm, set, undo, readerShm>>

GetSem(p) ==
  /\ Goto(p, "getSem", IF set.made THEN "compare" ELSE "failed")
  /\ UNCHANGED <<connShm, set, undo, readerShm>>

Compare(p) ==
  /\ Goto(p, "compare",
          IF connShm.semID = ConnSemID THEN Start(p) ELSE "failed")
  /\ UNCHANGED <<connShm, set, undo, readerShm>>

-----------------------------------------------------------------------------
(* reader()                                                                *)

(* A reader that does not wait for the slot to be empty.                   *)
R_PEmptySkipped(r) ==
  /\ Goto(r, "P_EMPTY", "P_MUTEX")
  /\ UNCHANGED <<connShm, set, undo, readerShm>>

R_PEmpty(r) ==
  /\ Goto(r, "P_EMPTY", "P_MUTEX")
  /\ P(r, "EMPTY")
  /\ UNCHANGED <<connShm, readerShm>>

R_PMutex(r) ==
  /\ Goto(r, "P_MUTEX", "store")
  /\ P(r, "MUTEX")
  /\ UNCHANGED <<connShm, readerShm>>

R_Store(r) ==
  /\ Goto(r, "store", "V_MUTEX")
  /\ connShm' = [connShm EXCEPT !.readerShmID = r]
  /\ UNCHANGED <<set, undo, readerShm>>

R_VMutex(r) ==
  /\ Goto(r, "V_MUTEX", "V_FULL")
  /\ V(r, "MUTEX")
  /\ UNCHANGED <<connShm, readerShm>>

R_VFull(r) ==
  /\ Goto(r, "V_FULL", "P_READED")
  /\ V(r, "FULL")
  /\ UNCHANGED <<connShm, readerShm>>

(* A reader that resets the set without waiting for the writer.            *)
R_PReadedSkipped(r) ==
  /\ Goto(r, "P_READED", "reset")
  /\ UNCHANGED <<connShm, set, undo, readerShm>>

R_PReaded(r) ==
  /\ Goto(r, "P_READED", "reset")
  /\ P(r, "W_READED")
  /\ UNCHANGED <<connShm, readerShm>>

(* No SETALL: the slot is never reopened.                                  *)
R_NoReset(r) ==
  /\ Goto(r, "reset", "transfer")
  /\ UNCHANGED <<connShm, set, undo, readerShm>>

R_Reset(r) ==
  /\ Goto(r, "reset", "transfer")
  /\ SetAll(ConnOps)
  /\ UNCHANGED <<connShm, readerShm>>

(* The transfer ends for the reader: with a writer it needs that writer to *)
(* have sent the end of the file, without one it gives up.  It removes its *)
(* personal memory in the first case only.                                 *)
R_Finish(r) ==
  /\ Goto(r, "transfer", "left")
  /\ \E w \in Writers : readerShm[w] = r /\ pc[w] \in {"transfer", "left"}
  /\ Exit(r)
  /\ UNCHANGED <<connShm, readerShm>>

R_GiveUp(r) ==
  /\ "early" \in faults
  /\ Goto(r, "transfer", "failed")
  /\ Exit(r)
  /\ UNCHANGED <<connShm, readerShm>>

-----------------------------------------------------------------------------
(* writer()                                                                *)

W_PFull(w) ==
  /\ Goto(w, "P_FULL", "P_MUTEX")
  /\ P(w, "FULL")
  /\ UNCHANGED <<connShm, readerShm>>

W_PMutex(w) ==
  /\ Goto(w, "P_MUTEX", "load")
  /\ P(w, "MUTEX")
  /\ UNCHANGED <<connShm, readerShm>>

(* shmat of the published memory and the load of its semID.                *)
W_Attach(w) ==
  /\ Goto(w, "load", "V_MUTEX")
  /\ pc[connShm.readerShmID] # "left"
  /\ readerShm' = [readerShm EXCEPT ![w] = connShm.readerShmID]
  /\ UNCHANGED <<connShm, set, undo>>

(* The memory is gone: shmat returns a pointer of -1, CHECK_NULLPTR lets it *)
(* pass and the load of readerShm->semID kills the writer.                 *)
W_AttachGone(w) ==
  /\ Goto(w, "load", "failed")
  /\ pc[connShm.readerShmID] = "left"
  /\ Exit(w)
  /\ UNCHANGED <<connShm, readerShm>>

W_VMutex(w) ==
  /\ Goto(w, "V_MUTEX", "V_READED")
  /\ V(w, "MUTEX")
  /\ UNCHANGED <<connShm, readerShm>>

W_VReaded(w) ==
  /\ Goto(w, "V_READED", "transfer")
  /\ V(w, "W_READED")
  /\ UNCHANGED <<connShm, readerShm>>

(* A file with data cannot be sent before the reader has printed its first *)
(* block, which it does in its transfer.                                   *)
W_Finish(w) ==
  /\ Goto(w, "transfer", "left")
  /\ \/ pc[readerShm[w]] \in {"transfer", "left"}
     \/ "early" \in faults
  /\ Exit(w)
  /\ UNCHANGED <<connShm, readerShm>>

-----------------------------------------------------------------------------
Gone == {"left", "failed", "killed"}

Kill(p) ==
  /\ "kill" \in faults
  /\ pc[p] \notin Gone
  /\ pc' = [pc EXCEPT ![p] = "killed"]
  /\ Exit(p)
  /\ UNCHANGED <<connShm, readerShm>>

InitializerStep(i) ==
  /\ MakeShm(i) \/ MakeSem(i) \/ InitSetAll(i) \/ Publish(i)
  /\ UNCHANGED faults

GetConnShm(p) ==
  /\ GetShm(p) \/ GetSem(p) \/ Compare(p)
  /\ UNCHANGED faults

(* semop wakes the waiters of a semaphore in the order they came.          *)
ReaderWaits(r) ==
  /\ R_PEmpty(r) \/ R_PMutex(r) \/ R_PReaded(r)
  /\ UNCHANGED faults
WriterWaits(w) ==
  /\ W_PFull(w) \/ W_PMutex(w)
  /\ UNCHANGED faults

ReaderRuns(r) ==
  /\ \/ R_Store(r) \/ R_VMutex(r) \/ R_VFull(r) \/ R_Reset(r)
     \/ R_Finish(r) \/ R_GiveUp(r)
  /\ UNCHANGED faults
WriterRuns(w) ==
  /\ \/ W_Attach(w) \/ W_AttachGone(w) \/ W_VMutex(w) \/ W_VReaded(w)
     \/ W_Finish(w)
  /\ UNCHANGED faults

Stopped == (\A p \in Procs : pc[p] \in Gone) /\ UNCHANGED vars

Next ==
  \/ \E i \in Initializers : InitializerStep(i)
  \/ \E p \in Procs : GetConnShm(p) \/ (Kill(p) /\ UNCHANGED faults)
  \/ \E r \in Readers : ReaderWaits(r) \/ ReaderRuns(r)
  \/ \E w \in Writers : WriterWaits(w) \/ WriterRuns(w)
  \/ Stopped

Spec == (Init \/ InitFresh) /\ [][Next]_vars
ReadySpec == Init /\ [][Next]_vars
FreshSpec == InitFresh /\ [][Next]_vars

(* A process that can run does, and a wait in semop is served in turn.     *)
FairSpec ==
  /\ Spec
  /\ \A p \in Procs : WF_vars(GetConnShm(p))
  /\ \A r \in Readers : WF_vars(ReaderRuns(r)) /\ SF_vars(ReaderWaits(r))
  /\ \A w \in Writers : WF_vars(WriterRuns(w)) /\ SF_vars(WriterWaits(w))

-----------------------------------------------------------------------------
Meeting(r) == pc[r] \in {"P_MUTEX", "store", "V_MUTEX", "V_FULL",
                         "P_READED", "reset"}
InMutex(p) == pc[p] \in {"store", "load", "V_MUTEX"}

(* Where nobody is killed or leaves early, no two writers ever get the     *)
(* same reader: PersTransfer has one writer on its memory.                 *)
PairsAreExclusive ==
  faults = {} => \A v, w \in Writers :
    (v # w /\ readerShm[v] # NoReader) => readerShm[v] # readerShm[w]

(* There too, the reader's SETALL does to the values what V(EMPTY) would   *)
(* do, and it drops only its own and its writer's adjustments.             *)
ResetOnlyReopensTheSlot ==
  [][\A r \in Readers :
       (faults = {} /\ pc[r] = "reset" /\ pc'[r] = "transfer") =>
         /\ set'.val = [set.val EXCEPT !["EMPTY"] = @ + 1]
         /\ \A p \in Procs \ {r} :
              undo[p] # NoUndo => p \in Writers /\ readerShm[p] = r]_vars

(* And as many readers as writers all meet, transfer and leave.            *)
EveryoneLeaves == faults = {} => <>(\A p \in Procs : pc[p] = "left")

Initialized == \E i \in Initializers : pc[i] \in {"publish", "published"}

(* Whoever is killed, wherever, and however the adjustments were forgotten *)
(* by a SETALL in between, be it another run of the initialisation: MUTEX  *)
(* is free when nobody is inside.                                          *)
MutexIsNotLost ==
  (Initialized /\ \A p \in Procs : ~InMutex(p)) => set.val["MUTEX"] >= 1

(* And the slot is open when no reader is between its P(EMPTY) and SETALL. *)
SlotIsNotLost ==
  (Initialized /\ \A r \in Readers : ~Meeting(r)) => set.val["EMPTY"] >= 1

(* main.cpp:28-29: after GetConnShm, "we know for sure that the connect    *)
(* shared memory has been created and initialized".                        *)
ConnectedAfterInit ==
  (\E p \in Procs : pc[p] \notin {"getShm", "getSem", "compare"} \cup Gone) => Initialized
=============================================================================
