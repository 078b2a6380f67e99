---------------------------- MODULE PersTransfer ----------------------------
(***************************************************************************)
(* FWRonSemShm/wrrd.cpp: the transfer of one file from one writer to one   *)
(* reader through the reader's personal shared memory, once the two have   *)
(* met (module ConnRendezvous).  The memory holds one block; the personal  *)
(* semaphore set hands it back and forth:                                  *)
(*                                                                         *)
(*    writer: P(EMPTY)  currSizeData = read(fd, buf)  V(FULL)              *)
(*    reader: P(FULL)   write(1, buf, currSizeData)   V(EMPTY)             *)
(*                                                                         *)
(* both looping while currSizeData > 0, a word the other side may have     *)
(* changed since the V.  P is semtimedop with a limit of 5 seconds.        *)
(*                                                                         *)
(* Block i of the file is the number i, and stands for its size as well:   *)
(* currSizeData is -1, 0 or the number of the block it is the size of.     *)
(***************************************************************************)
EXTENDS Integers, Sequences

CONSTANTS
  FileLen,    \* the reads of the file that return data
  Faults      \* what may go wrong: a subset of FaultKinds

FaultKinds == {"timeout", "io", "kill"}

ASSUME FileLenAssumption == FileLen \in Nat
ASSUME FaultsAssumption == Faults \subseteq FaultKinds

VARIABLES
  faults,         \* what may go wrong in this run: it does not change
  wpc, rpc,       \* where the writer and the reader are
  EMPTY, FULL,    \* the personal semaphores (PERS::SEM)
  setAlive,       \* the personal semaphore set exists
  buf,            \* persShm->buf: the block it holds, 0 for none
  currSizeData,   \* persShm->currSizeData
  pos,            \* how many blocks the writer has read from its file
  got,            \* what the writer's last read() returned
  len,            \* the size the reader's write() was called with
  out             \* the blocks printed so far

shm == <<buf, currSizeData>>
sems == <<EMPTY, FULL, setAlive>>
wvars == <<wpc, pos, got>>
rvars == <<rpc, len, out>>
vars == <<faults, wvars, rvars, sems, shm>>

Ended == {"done", "failed", "unreadable", "killed"}
Torn == 0       \* what is printed when the size is not that of the block

(* A set that starts with the full block's semaphore up as well.           *)
InitPersSemBothOpen ==
  /\ EMPTY = 1
  /\ FULL = 1
  /\ setAlive = TRUE

(* The values the reader gives its new set before a writer can learn of it. *)
InitPersSem ==
  /\ EMPTY = 1
  /\ FULL = 0
  /\ setAlive = TRUE

Init ==
  /\ faults \in SUBSET Faults
  /\ wpc = "open"
  /\ rpc = "P"
  /\ InitPersSem
  /\ buf = 0 /\ currSizeData = 0     \* a new segment is zeroed
  /\ pos = 0 /\ got = 0
  /\ len = 0 /\ out = <<>>

-----------------------------------------------------------------------------
(* writer()                                                                *)

WOpen ==
  /\ wpc = "open"
  /\ \/ wpc' = "P"
     \/ /\ "io" \in faults
        /\ wpc' = "failed"
  /\ UNCHANGED <<pos, got, rvars, sems, shm>>

(* A wait lasts 5 seconds when the other side has ended, and may when it   *)
(* has not: it is slow, or stopped.                                        *)
TimesOut(other) == other \in Ended \/ "timeout" \in faults

(* readerP (EMPTY)                                                         *)
WP ==
  /\ wpc = "P"
  /\ setAlive
  /\ EMPTY > 0
  /\ EMPTY' = EMPTY - 1
  /\ wpc' = "read"
  /\ UNCHANGED <<pos, got, rvars, FULL, setAlive, shm>>

(* It returns -1 when 5 seconds of waiting have passed (EAGAIN) or the     *)
(* reader has removed the set (EIDRM, EINVAL).                             *)
WPFail ==
  /\ wpc = "P"
  /\ ~setAlive \/ (EMPTY = 0 /\ TimesOut(rpc))
  /\ wpc' = "failed"
  /\ UNCHANGED <<pos, got, rvars, sems, shm>>

(* read (fd, readerShm->buf, SIZE_BUF): the next block, the end, an error. *)
WRead ==
  /\ wpc = "read"
  /\ \/ /\ pos < FileLen
        /\ pos' = pos + 1
        /\ got' = pos + 1
        /\ buf' = pos + 1
     \/ /\ pos = FileLen
        /\ got' = 0
        /\ UNCHANGED <<pos, buf>>
     \/ /\ "io" \in faults
        /\ got' = -1
        /\ UNCHANGED <<pos, buf>>
  /\ wpc' = "store"
  /\ UNCHANGED <<currSizeData, rvars, sems>>

(* The result is assigned to currSizeData before CHECK_ERROR looks at it,  *)
(* and a failed read leaves -1 there.                                      *)
WStore ==
  /\ wpc = "store"
  /\ currSizeData' = got
  /\ wpc' = IF got = -1 THEN "unreadable" ELSE "V"
  /\ UNCHANGED <<pos, got, buf, rvars, sems>>

(* readerV (FULL); the set may be gone by now.                             *)
WV ==
  /\ wpc = "V"
  /\ IF setAlive
       THEN FULL' = FULL + 1 /\ wpc' = "check"
       ELSE wpc' = "failed" /\ UNCHANGED FULL
  /\ UNCHANGED <<pos, got, rvars, EMPTY, setAlive, shm>>

(* A writer that takes a block short of the buffer for the last one.       *)
WCheckShortBlock ==
  /\ wpc = "check"
  /\ wpc' = IF currSizeData \in 1..(FileLen - 1) THEN "P" ELSE "done"
  /\ UNCHANGED <<pos, got, rvars, sems, shm>>

(* while (readerShm->currSizeData > 0), then shmdt and the return.         *)
WCheck ==
  /\ wpc = "check"
  /\ wpc' = IF currSizeData > 0 THEN "P" ELSE "done"
  /\ UNCHANGED <<pos, got, rvars, sems, shm>>

-----------------------------------------------------------------------------
(* reader()                                                                *)

(* persP (FULL)                                                            *)
RP ==
  /\ rpc = "P"
  /\ FULL > 0
  /\ FULL' = FULL - 1
  /\ rpc' = "load"
  /\ UNCHANGED <<len, out, wvars, EMPTY, setAlive, shm>>

(* semop in place of semtimedop: the reader never gives up.                *)
RPFailNever ==
  /\ rpc = "P"
  /\ FALSE
  /\ rpc' = "failed"
  /\ UNCHANGED <<len, out, wvars, sems, shm>>

RPFail ==
  /\ rpc = "P"
  /\ FULL = 0
  /\ TimesOut(wpc)
  /\ rpc' = "failed"
  /\ UNCHANGED <<len, out, wvars, sems, shm>>

(* write (STDOUT_FILENO, persShm->buf, persShm->currSizeData): the size is *)
(* an argument, the block is read while the call runs.                     *)
RLoad ==
  /\ rpc = "load"
  /\ len' = currSizeData
  /\ rpc' = "print"
  /\ UNCHANGED <<out, wvars, sems, shm>>

RPrint ==
  /\ rpc = "print"
  /\ len >= 0
  /\ out' = IF len = 0 THEN out
                       ELSE Append(out, IF len = buf THEN buf ELSE Torn)
  /\ rpc' = "V"
  /\ UNCHANGED <<len, wvars, sems, shm>>

(* The write fails: the device does, or the size is (size_t) -1.           *)
RPrintFail ==
  /\ rpc = "print"
  /\ len = -1 \/ "io" \in faults
  /\ rpc' = "failed"
  /\ UNCHANGED <<len, out, wvars, sems, shm>>

(* persV (EMPTY) posted to the wrong semaphore.                            *)
RVFull ==
  /\ rpc = "V"
  /\ FULL' = FULL + 1
  /\ rpc' = "check"
  /\ UNCHANGED <<len, out, wvars, EMPTY, setAlive, shm>>

RV ==
  /\ rpc = "V"
  /\ EMPTY' = EMPTY + 1
  /\ rpc' = "check"
  /\ UNCHANGED <<len, out, wvars, FULL, setAlive, shm>>

(* A reader that only looks for a full buffer: it stops at the last block. *)
RCheckLastBlock ==
  /\ rpc = "check"
  /\ rpc' = IF currSizeData \in 1..(FileLen - 1) THEN "P" ELSE "remove"
  /\ UNCHANGED <<len, out, wvars, sems, shm>>

(* while (persShm->currSizeData > 0): read after the V, so this may be the *)
(* size of the writer's next block, its 0 or its -1.                       *)
RCheck ==
  /\ rpc = "check"
  /\ rpc' = IF currSizeData > 0 THEN "P" ELSE "remove"
  /\ UNCHANGED <<len, out, wvars, sems, shm>>

(* semctl (persSemID, 0, IPC_RMID), then shmdt and shmctl.                 *)
RRemove ==
  /\ rpc = "remove"
  /\ setAlive' = FALSE
  /\ rpc' = "done"
  /\ UNCHANGED <<len, out, wvars, EMPTY, FULL, shm>>

-----------------------------------------------------------------------------
(* The personal semaphores are used without SEM_UNDO: a process that is    *)
(* killed leaves them as they are, and the set and the memory too.         *)
WKill ==
  /\ "kill" \in faults
  /\ wpc \notin Ended
  /\ wpc' = "killed"
  /\ UNCHANGED <<pos, got, rvars, sems, shm>>

RKill ==
  /\ "kill" \in faults
  /\ rpc \notin Ended
  /\ rpc' = "killed"
  /\ UNCHANGED <<len, out, wvars, sems, shm>>

WriterStep ==
  /\ WOpen \/ WP \/ WPFail \/ WRead \/ WStore \/ WV \/ WCheck
  /\ UNCHANGED faults

ReaderStep ==
  /\ RP \/ RPFail \/ RLoad \/ RPrint \/ RPrintFail \/ RV \/ RCheck \/ RRemove
  /\ UNCHANGED faults

SomeoneIsKilled == (WKill \/ RKill) /\ UNCHANGED faults

(* Both processes have returned or died: nothing is left to happen.        *)
Stopped ==
  /\ wpc \in Ended
  /\ rpc \in Ended
  /\ UNCHANGED vars

Next == WriterStep \/ ReaderStep \/ SomeoneIsKilled \/ Stopped

Spec == Init /\ [][Next]_vars

(* Each process keeps running until it ends, and a wait in semtimedop ends *)
(* by itself after 5 seconds.                                              *)
FairSpec == Spec /\ WF_vars(WriterStep) /\ WF_vars(ReaderStep)

-----------------------------------------------------------------------------
(* Every word of the shared memory and every counter stays in its range:   *)
(* in particular no semaphore ever counts two blocks.                      *)
TypeOK ==
  /\ faults \subseteq Faults
  /\ wpc \in {"open", "P", "read", "store", "V", "check"} \cup Ended
  /\ rpc \in {"P", "load", "print", "V", "check", "remove",
              "done", "failed", "killed"}
  /\ EMPTY \in {0, 1} /\ FULL \in {0, 1}
  /\ setAlive \in BOOLEAN
  /\ buf \in 0..FileLen
  /\ currSizeData \in -1..FileLen /\ got \in -1..FileLen
  /\ pos \in 0..FileLen
  /\ len \in -1..FileLen
  /\ out \in Seq(0..FileLen)

(* The writer never fills the block while the reader prints it, whatever   *)
(* timeouts, failures and kills there are (wrrd.cpp:51 and :105).          *)
BufferExclusive ==
  ~(wpc \in {"read", "store"} /\ rpc \in {"load", "print"})

(* The way a process ended, as the abstract specification sees it.         *)
SenderStatus ==
  CASE wpc = "done" -> "ok"
    [] wpc = "unreadable" -> "unreadable"
    [] wpc \in {"failed", "killed"} -> "err"
    [] OTHER -> "busy"

ReceiverStatus ==
  CASE rpc = "done" -> "ok"
    [] rpc \in {"failed", "killed"} -> "err"
    [] OTHER -> "busy"

FT == INSTANCE FileTransfer
        WITH delivered <- Len(out), sender <- SenderStatus,
             receiver <- ReceiverStatus

(* The transfer implements FileTransfer: the output grows by one block of  *)
(* the file at a time, the writer returns EXIT_SUCCESS only when the       *)
(* whole file is printed, and the reader only when it is or when the       *)
(* writer's read failed, although it tests a currSizeData it does not own. *)
Implements == FT!Spec

(* The output is the file's blocks in order, none torn, lost or repeated.  *)
OutputIsPrefix == \A i \in 1..Len(out) : out[i] = i

(* Where nothing fails, the reader prints the whole file and succeeds.     *)
Delivered == faults = {} => <>[](rpc = "done" /\ Len(out) = FileLen)

(* Where nothing fails, the writer can still return -1: it stored the      *)
(* final 0, the reader saw it and removed the set before the writer's last *)
(* V (wrrd.cpp:53, :109, :112).  That is the only way, and nothing is lost.*)
SpuriousFailureIsHarmless ==
  (faults = {} /\ wpc = "failed") =>
     rpc = "done" /\ Len(out) = FileLen /\ currSizeData = 0

(* Nobody waits for ever: whoever dies or fails, the other one's 5 seconds *)
(* run out and it ends too.                                                *)
BothEnd == <>(wpc \in Ended /\ rpc \in Ended)

=============================================================================
