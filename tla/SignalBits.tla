----------------------------- MODULE SignalBits -----------------------------
(***************************************************************************)
(* Signal/main.cpp and wrrd.cpp: a child sends a file to its parent bit by *)
(* bit, SIGUSR1 for 0 and SIGUSR2 for 1, and waits for the parent's        *)
(* SIGUSR1 after each bit.  alarm(2) guards that wait.                     *)
(*                                                                         *)
(* Signals do not queue: a signal that is sent while it is pending is      *)
(* lost.  Every signal was blocked before the fork, so each process takes  *)
(* them in sigsuspend only, one for each call, and of several pending ones *)
(* the lowest number first: USR1, USR2, ALRM, CHLD.                        *)
(***************************************************************************)
EXTENDS Integers, Sequences

CONSTANTS
  Files,      \* the files that may be sent, as sequences of bits
  BITS,       \* bits in a byte
  SIZE_BUF,   \* bytes in the writer's buffer
  Faults      \* a subset of FaultKinds

FaultKinds == {"alarm",   \* the parent takes 2 seconds to answer
               "file",    \* the file cannot be opened or read
               "write",   \* the write of a byte to the output fails
               "kill",    \* a process is killed
               "stop"}    \* the child is stopped (and continued)

ASSUME BitsAssumption == BITS \in Nat \ {0} /\ SIZE_BUF \in Nat \ {0}
ASSUME FilesAssumption ==
  Files \subseteq Seq(BOOLEAN) /\ \A f \in Files : Len(f) % BITS = 0
ASSUME FaultsAssumption == Faults \subseteq FaultKinds

VARIABLES
  faults,     \* what may go wrong in this run, and
  file,       \* the file being sent: they do not change
  wpc, rpc,   \* where the child (writer) and the parent (reader) are
  wpend, rpend,   \* the signals pending for each
  armed,      \* the writer's alarm is set
  sent,       \* bits the writer has sent
  taken,      \* bits the reader has taken
  byte,       \* buf: the bits of the reader's unfinished byte, lowest first
  out         \* the bits of the bytes written to the output

rigid == <<faults, file>>
wvars == <<wpc, armed, sent>>
rvars == <<rpc, taken, byte, out>>
vars == <<rigid, wvars, rvars, wpend, rpend>>

Ended == {"done", "failed", "killed"}
BitSignals == {"USR1", "USR2"}

Init ==
  /\ faults \in SUBSET Faults
  /\ file \in Files
  /\ wpc = "open" /\ rpc = "setup"
  /\ wpend = {} /\ rpend = {}
  /\ armed = FALSE
  /\ sent = 0 /\ taken = 0
  /\ byte = <<>> /\ out = <<>>

-----------------------------------------------------------------------------
(* writer()                                                                *)

(* The kernel tells the parent that the child has ended.                   *)
WriterEnds(how) ==
  /\ wpc' = how
  /\ rpend' = rpend \cup {"CHLD"}

WOpen ==
  /\ wpc = "open"
  /\ \/ wpc' = "read" /\ UNCHANGED rpend
     \/ "file" \in faults /\ WriterEnds("failed")
  /\ UNCHANGED <<rigid, armed, sent, rvars, wpend>>

WRead ==
  /\ wpc = "read"
  /\ \/ sent < Len(file) /\ wpc' = "alarm" /\ UNCHANGED rpend
     \/ sent = Len(file) /\ WriterEnds("done")
     \/ "file" \in faults /\ WriterEnds("failed")
  /\ UNCHANGED <<rigid, armed, sent, rvars, wpend>>

(* The alarm is only set for the first bit.                                *)
WAlarmOnce ==
  /\ wpc = "alarm"
  /\ armed' = (sent = 0)
  /\ wpc' = "send"
  /\ UNCHANGED <<rigid, sent, rvars, wpend, rpend>>

(* alarm (2): it replaces an alarm that is still running, but leaves a     *)
(* SIGALRM that is already pending.                                        *)
WAlarm ==
  /\ wpc = "alarm"
  /\ armed' = TRUE
  /\ wpc' = "send"
  /\ UNCHANGED <<rigid, sent, rvars, wpend, rpend>>

BitSignal == IF file[sent + 1] THEN "USR2" ELSE "USR1"

WSend ==
  /\ wpc = "send"
  /\ sent' = sent + 1
  /\ rpend' = rpend \cup {BitSignal}
  /\ wpc' = "wait"
  /\ UNCHANGED <<rigid, armed, rvars, wpend>>

(* kill() finds no such process once the parent has ended and been reaped. *)
WSendFail ==
  /\ wpc = "send"
  /\ rpc \in Ended
  /\ WriterEnds("failed")
  /\ UNCHANGED <<rigid, armed, sent, rvars, wpend>>

(* The end of the buffer or of what read() returned leads to another read. *)
NextBit == IF sent = Len(file) \/ sent % (BITS * SIZE_BUF) = 0
             THEN "read" ELSE "alarm"

(* timeConfReaderOver is not looked at: any signal counts as the answer.   *)
WAnySignal ==
  /\ wpc = "wait"
  /\ wpend # {}
  /\ wpend' = {}
  /\ wpc' = NextBit
  /\ UNCHANGED <<rigid, armed, sent, rvars, rpend>>

(* sigsuspend: the answer is taken before the alarm if both are pending.   *)
WAnswered ==
  /\ wpc = "wait"
  /\ "USR1" \in wpend
  /\ wpend' = wpend \ {"USR1"}
  /\ wpc' = NextBit
  /\ UNCHANGED <<rigid, armed, sent, rvars, rpend>>

WTimedOut ==
  /\ wpc = "wait"
  /\ wpend = {"ALRM"}
  /\ wpend' = {}
  /\ WriterEnds("failed")
  /\ UNCHANGED <<rigid, armed, sent, rvars>>

-----------------------------------------------------------------------------
(* reader()                                                                *)

(* The handlers are installed; what is pending stays pending.              *)
RSetup ==
  /\ rpc = "setup"
  /\ rpc' = "suspend"
  /\ UNCHANGED <<rigid, taken, byte, out, wvars, wpend, rpend>>

(* The bits assembled from the highest down.                               *)
RTakeReversed ==
  /\ rpc = "suspend"
  /\ \E s \in rpend \cap BitSignals :
       /\ s = "USR2" => "USR1" \notin rpend
       /\ rpend' = rpend \ {s}
       /\ byte' = <<s = "USR2">> \o byte
  /\ taken' = taken + 1
  /\ rpc' = "ack"
  /\ UNCHANGED <<rigid, out, wvars, wpend>>

(* sigsuspend runs the handler of a bit, buf |= curBit << i.               *)
RTake ==
  /\ rpc = "suspend"
  /\ \E s \in rpend \cap BitSignals :
       /\ s = "USR2" => "USR1" \notin rpend
       /\ rpend' = rpend \ {s}
       /\ byte' = Append(byte, s = "USR2")
  /\ taken' = taken + 1
  /\ rpc' = "ack"
  /\ UNCHANGED <<rigid, out, wvars, wpend>>

(* The handler of SIGCHLD, which comes after the bits: return 0.           *)
RChild ==
  /\ rpc = "suspend"
  /\ rpend = {"CHLD"}
  /\ rpend' = {}
  /\ rpc' = "done"
  /\ UNCHANGED <<rigid, taken, byte, out, wvars, wpend>>

(* for (int i = 0; i <= 8; i++)                                            *)
RAckNine ==
  /\ rpc = "ack"
  /\ wpend' = wpend \cup {"USR1"}
  /\ rpc' = IF Len(byte) = BITS + 1 THEN "write" ELSE "suspend"
  /\ UNCHANGED <<rigid, taken, byte, out, wvars, rpend>>

(* kill (writerPID, SIGUSR1): a child that has ended is a zombie, and the  *)
(* call succeeds.                                                          *)
RAck ==
  /\ rpc = "ack"
  /\ wpend' = wpend \cup {"USR1"}
  /\ rpc' = IF Len(byte) = BITS THEN "write" ELSE "suspend"
  /\ UNCHANGED <<rigid, taken, byte, out, wvars, rpend>>

(* buf is only reset after a write that worked.                            *)
RWriteKeepsByte ==
  /\ rpc = "write"
  /\ \/ out' = out \o byte /\ byte' = <<>>
     \/ "write" \in faults /\ UNCHANGED out /\ byte' = Tail(byte)
  /\ rpc' = "suspend"
  /\ UNCHANGED <<rigid, taken, wvars, wpend, rpend>>

(* The byte is written once its last bit is acknowledged; nobody looks at  *)
(* what write() returns.                                                   *)
RWrite ==
  /\ rpc = "write"
  /\ \/ out' = out \o byte
     \/ "write" \in faults /\ UNCHANGED out
  /\ byte' = <<>>
  /\ rpc' = "suspend"
  /\ UNCHANGED <<rigid, taken, wvars, wpend, rpend>>

-----------------------------------------------------------------------------
(* Two seconds have passed since alarm (2): the parent has ended, or is    *)
(* slow.                                                                   *)
AlarmFires ==
  /\ "alarm" \in faults \/ rpc \in Ended
  /\ armed
  /\ wpc \notin Ended
  /\ armed' = FALSE
  /\ wpend' = wpend \cup {"ALRM"}
  /\ UNCHANGED <<rigid, wpc, sent, rvars, rpend>>

WKill ==
  /\ "kill" \in faults
  /\ wpc \notin Ended
  /\ WriterEnds("killed")
  /\ UNCHANGED <<rigid, armed, sent, rvars, wpend>>

RKill ==
  /\ "kill" \in faults
  /\ rpc \notin Ended
  /\ rpc' = "killed"
  /\ UNCHANGED <<rigid, taken, byte, out, wvars, wpend, rpend>>

(* Without SA_NOCLDSTOP a stopped child raises SIGCHLD like an ended one.  *)
WStop ==
  /\ "stop" \in faults
  /\ wpc \notin Ended
  /\ rpend' = rpend \cup {"CHLD"}
  /\ UNCHANGED <<rigid, wvars, rvars, wpend>>

WriterStep == \/ WOpen \/ WRead \/ WAlarm \/ WSend \/ WSendFail
              \/ WAnswered \/ WTimedOut
ReaderStep == RSetup \/ RTake \/ RChild \/ RAck \/ RWrite

Stopped ==
  /\ wpc \in Ended
  /\ rpc \in Ended
  /\ UNCHANGED vars

Next == \/ WriterStep \/ ReaderStep \/ AlarmFires
        \/ WKill \/ RKill \/ WStop \/ Stopped

Spec == Init /\ [][Next]_vars

(* Both processes run until they end, and the clock does too.              *)
FairSpec ==
  Spec /\ WF_vars(WriterStep) /\ WF_vars(ReaderStep) /\ WF_vars(AlarmFires)

-----------------------------------------------------------------------------
(* Pending signals are the ones the other side and the kernel send, and no *)
(* counter leaves the file.                                                *)
TypeOK ==
  /\ faults \subseteq Faults
  /\ file \in Files
  /\ wpc \in {"open", "read", "alarm", "send", "wait"} \cup Ended
  /\ rpc \in {"setup", "suspend", "ack", "write"} \cup Ended
  /\ wpend \subseteq {"USR1", "ALRM"}
  /\ rpend \subseteq {"USR1", "USR2", "CHLD"}
  /\ armed \in BOOLEAN
  /\ sent \in 0..Len(file) /\ taken \in 0..Len(file)
  /\ byte \in Seq(BOOLEAN) /\ Len(byte) <= BITS
  /\ out \in Seq(BOOLEAN)

(* No bit is lost or read twice although signals do not queue: exactly the *)
(* bit that was sent and not taken is pending, there is at most one, and   *)
(* the writer is waiting for its answer or has ended.                      *)
Lockstep ==
  /\ sent = taken \/ (sent = taken + 1 /\ wpc \in {"wait"} \cup Ended)
  /\ rpend \cap BitSignals =
       IF sent = taken THEN {}
                       ELSE {IF file[sent] THEN "USR2" ELSE "USR1"}

(* Where no write fails, the output and the unfinished byte are the first  *)
(* bits of the file, whatever alarms, kills and stops there are.           *)
TakenIsPrefix ==
  "write" \notin faults =>
    /\ Len(out) + Len(byte) = taken
    /\ \A i \in 1..Len(out) : out[i] = file[i]
    /\ \A i \in 1..Len(byte) : byte[i] = file[Len(out) + i]

(* Where writes do fail, a failure costs one whole byte: the output is the *)
(* file with some of its bytes left out, f being where its bytes are.      *)
LossIsWholeBytes ==
  LET written == Len(out) \div BITS
      BitOf(i) == i % BITS IN
  /\ Len(out) % BITS = 0
  /\ \E f \in [1..written -> 0..(taken \div BITS - 1)] :
       /\ \A i, j \in 1..written : i < j => f[i] < f[j]
       /\ \A i \in 0..(Len(out) - 1) :
            out[i + 1] = file[BITS * f[i \div BITS + 1] + BitOf(i) + 1]

(* The writer returns 0 only when the reader has taken the whole file; the *)
(* last byte may still have to be written.                                 *)
WriterSuccess == wpc = "done" => taken = Len(file)

(* Where nothing goes wrong, the parent writes the whole file and ends.    *)
Delivered == faults = {} => <>[](rpc = "done" /\ wpc = "done" /\ out = file)

(* Whatever goes wrong, both end: the writer's alarm or the reader's       *)
(* SIGCHLD sees to it.                                                     *)
BothEnd == <>(wpc \in Ended /\ rpc \in Ended)
=============================================================================
