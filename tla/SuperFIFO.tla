------------------------------ MODULE SuperFIFO ------------------------------
(***************************************************************************)
(* SuperFIFO/wrrd.cpp: readers and writers that meet over one named FIFO,  *)
(* /tmp/connFIFO.  A reader makes a FIFO of its own, named after its pid,  *)
(* and writes the pid into connFIFO; a writer reads a pid there, opens     *)
(* that reader's FIFO and sends a greeting and then its file.              *)
(*                                                                         *)
(* open() of connFIFO blocks until the other end is open too, a write to a *)
(* FIFO nobody reads kills the process (SIGPIPE), and what is in a FIFO is *)
(* gone when the last process closes it.  The ends a process holds follow  *)
(* from where it is.                                                       *)
(***************************************************************************)
EXTENDS Integers, Sequences

CONSTANTS
  Readers, Writers,
  FileLen,    \* of each writer, the blocks (of PIPE_BUF) in its file
  Capacity,   \* blocks a FIFO can hold
  Faults,     \* a subset of FaultKinds
  NoReader    \* the pid of nobody

FaultKinds == {"timeout",   \* a writer takes more than 5 seconds
               "file",      \* a file cannot be opened or read
               "output",    \* fwrite fails
               "kill"}      \* a process is killed

ASSUME RolesAssumption == Readers \cap Writers = {} /\ NoReader \notin Readers
ASSUME SizesAssumption == FileLen \in [Writers -> Nat] /\ Capacity \in Nat \ {0}
ASSUME FaultsAssumption == Faults \subseteq FaultKinds

VARIABLES
  faults,     \* what may go wrong in this run: it does not change
  pc,         \* where each process is
  conn,       \* connFIFO: the pids in it
  pipe,       \* the FIFO of each reader: <<w, 0>> is w's greeting, <<w, i>>
              \* block i of its file
  pid_r,      \* the pid each writer has read
  fd_reader,  \* the reader whose FIFO each writer has opened
  sent,       \* the blocks each writer has written
  out,        \* the blocks each reader has given to fwrite
  lost        \* the places in out of those that fwrite could not write

vars == <<faults, pc, conn, pipe, pid_r, fd_reader, sent, out, lost>>

Procs == Readers \cup Writers
Ended == {"done", "failed", "killed"}
Whole(w) == [i \in 1..FileLen[w] |-> <<w, i>>]

Init ==
  /\ faults \in SUBSET Faults
  /\ pc = [p \in Procs |-> IF p \in Readers THEN "create" ELSE "openConn"]
  /\ conn = <<>>
  /\ pipe = [r \in Readers |-> <<>>]
  /\ pid_r = [w \in Writers |-> NoReader]
  /\ fd_reader = [w \in Writers |-> NoReader]
  /\ sent = [w \in Writers |-> 0]
  /\ out = [r \in Readers |-> <<>>]
  /\ lost = [r \in Readers |-> {}]

-----------------------------------------------------------------------------
(* The two ends of connFIFO, those still blocked in open() included, and   *)
(* the write end of a reader's FIFO.                                       *)
ConnWriters == {r \in Readers : pc[r] \notin {"create", "openConn"} \cup Ended}
ConnReaders == {w \in Writers : pc[w] \notin {"openConn"} \cup Ended}
PersWriters(r) == {w \in Writers : fd_reader[w] = r /\ pc[w] \notin Ended}

Goto(p, from, to) == pc[p] = from /\ pc' = [pc EXCEPT ![p] = to]

(* A process ends, with all its descriptors.                               *)
Leave(p, from, how) ==
  /\ Goto(p, from, how)
  /\ conn' = IF ConnWriters \cup ConnReaders \subseteq {p} THEN <<>> ELSE conn

(* open (conn_str, ...) by p lets the ones through who wait for its end,   *)
(* and waits itself where the other end is not open.                       *)
OpenConn(p, others, next, nextOfOthers) ==
  /\ pc[p] = "openConn"
  /\ pc' = [q \in Procs |->
              CASE q = p -> IF others = {} THEN "waitConn" ELSE next
                [] q \in others /\ pc[q] = "waitConn" -> nextOfOthers
                [] OTHER -> pc[q]]
  /\ UNCHANGED <<conn, pipe, pid_r, fd_reader, sent, out, lost>>

-----------------------------------------------------------------------------
(* writer()                                                                *)

W_OpenConn(w) == OpenConn(w, ConnWriters, "readPid", "sendPid")

(* The pid is looked at and left where it is.                              *)
W_ReadPidPeeks(w) ==
  /\ conn # <<>>
  /\ Goto(w, "readPid", "openPers")
  /\ pid_r' = [pid_r EXCEPT ![w] = Head(conn)]
  /\ UNCHANGED <<conn, pipe, fd_reader, sent, out, lost>>

W_ReadPid(w) ==
  /\ conn # <<>>
  /\ Goto(w, "readPid", "openPers")
  /\ pid_r' = [pid_r EXCEPT ![w] = Head(conn)]
  /\ conn' = Tail(conn)
  /\ UNCHANGED <<pipe, fd_reader, sent, out, lost>>

(* read() returns 0 where no reader has connFIFO open: "Reader not found". *)
(* One that opens it before it is closed here sends its pid.               *)
W_NoReader(w) ==
  /\ conn = <<>>
  /\ ConnWriters = {}
  /\ Goto(w, "readPid", "noReader")
  /\ UNCHANGED <<conn, pipe, pid_r, fd_reader, sent, out, lost>>

W_GiveUp(w) ==
  /\ Leave(w, "noReader", "failed")
  /\ UNCHANGED <<pipe, pid_r, fd_reader, sent, out, lost>>

(* O_WRONLY | O_NONBLOCK: it fails with ENXIO when the reader has gone.    *)
W_OpenPers(w) ==
  /\ Goto(w, "openPers", "greet")
  /\ pc[pid_r[w]] \notin Ended
  /\ fd_reader' = [fd_reader EXCEPT ![w] = pid_r[w]]
  /\ UNCHANGED <<conn, pipe, pid_r, sent, out, lost>>

W_ReaderGone(w) ==
  /\ Leave(w, "openPers", "failed")
  /\ pc[pid_r[w]] \in Ended
  /\ UNCHANGED <<pipe, pid_r, fd_reader, sent, out, lost>>

(* A write to the reader's FIFO blocks while that is full.                 *)
Put(w, n) ==
  LET r == fd_reader[w] IN
  /\ pc[r] \notin Ended
  /\ Len(pipe[r]) < Capacity
  /\ pipe' = [pipe EXCEPT ![r] = Append(@, <<w, n>>)]

W_Greet(w) ==
  /\ Goto(w, "greet", "openFile")
  /\ Put(w, 0)
  /\ UNCHANGED <<conn, pid_r, fd_reader, sent, out, lost>>

W_OpenFile(w) ==
  /\ Goto(w, "openFile", "copy")
  /\ UNCHANGED <<conn, pipe, pid_r, fd_reader, sent, out, lost>>

W_Copy(w) ==
  /\ Goto(w, "copy", "copy")
  /\ sent[w] < FileLen[w]
  /\ sent' = [sent EXCEPT ![w] = @ + 1]
  /\ Put(w, sent[w] + 1)
  /\ UNCHANGED <<conn, pid_r, fd_reader, out, lost>>

(* SIGPIPE.  The end of the file is reached without a write.               *)
W_BrokenPipe(w) ==
  /\ pc[w] = "copy" => sent[w] < FileLen[w]
  /\ \E from \in {"greet", "copy"} : Leave(w, from, "killed")
  /\ pc[fd_reader[w]] \in Ended
  /\ UNCHANGED <<pipe, pid_r, fd_reader, sent, out, lost>>

(* open() fails, or read() does and write() is called with a size of -1.   *)
W_FileFails(w) ==
  /\ "file" \in faults
  /\ \E from \in {"openFile", "copy"} : Leave(w, from, "failed")
  /\ UNCHANGED <<pipe, pid_r, fd_reader, sent, out, lost>>

W_End(w) ==
  /\ sent[w] = FileLen[w]
  /\ Leave(w, "copy", "done")
  /\ UNCHANGED <<pipe, pid_r, fd_reader, sent, out, lost>>

-----------------------------------------------------------------------------
(* reader()                                                                *)

(* CreateFIFO and the open of its read end, which does not block.          *)
R_Create(r) ==
  /\ Goto(r, "create", "openConn")
  /\ UNCHANGED <<conn, pipe, pid_r, fd_reader, sent, out, lost>>

R_OpenConn(r) == OpenConn(r, ConnReaders, "sendPid", "readPid")

R_SendPid(r) ==
  /\ ConnReaders # {}
  /\ Goto(r, "sendPid", "poll")
  /\ conn' = Append(conn, r)
  /\ UNCHANGED <<pipe, pid_r, fd_reader, sent, out, lost>>

(* The writer that let this reader through open() has ended: SIGPIPE.      *)
R_BrokenPipe(r) ==
  /\ ConnReaders = {}
  /\ Leave(r, "sendPid", "killed")
  /\ UNCHANGED <<pipe, pid_r, fd_reader, sent, out, lost>>

(* A writer has opened the FIFO and closed it: POLLHUP.                    *)
HungUp(r) == \E w \in Writers : fd_reader[w] = r /\ pc[w] \in Ended

(* poll() returns when there is something to read or the writer hung up.   *)
R_Poll(r) ==
  /\ pipe[r] # <<>> \/ HungUp(r)
  /\ Goto(r, "poll", "greeting")
  /\ UNCHANGED <<conn, pipe, pid_r, fd_reader, sent, out, lost>>

(* 5 seconds pass where no writer has this reader's pid or is there to     *)
(* read it, and may where one is.                                          *)
TimesOut(r) ==
  \/ "timeout" \in faults
  \/ \A w \in Writers :
       /\ pid_r[w] = r => pc[w] \in Ended
       /\ pc[w] = "readPid" => \A i \in 1..Len(conn) : conn[i] # r

(* The 5 seconds end although the writer's data is there.                  *)
R_TimesOutBlindly(r) ==
  /\ TimesOut(r)
  /\ Goto(r, "poll", "late")
  /\ UNCHANGED <<conn, pipe, pid_r, fd_reader, sent, out, lost>>

(* poll() returns 0.  The reader's FIFO is open for reading still, and its *)
(* pid in connFIFO for a writer to read.                                   *)
R_TimesOut(r) ==
  /\ TimesOut(r)
  /\ pipe[r] = <<>> /\ ~HungUp(r)
  /\ Goto(r, "poll", "late")
  /\ UNCHANGED <<conn, pipe, pid_r, fd_reader, sent, out, lost>>

(* "Writer not found", and what came since then is not looked at.          *)
R_GiveUp(r) ==
  /\ Leave(r, "late", "failed")
  /\ UNCHANGED <<pipe, pid_r, fd_reader, sent, out, lost>>

(* One read() takes what is in the FIFO, not the greeting alone.           *)
R_GreetingGreedy(r) ==
  /\ Goto(r, "greeting", "read")
  /\ pipe' = [pipe EXCEPT ![r] = <<>>]
  /\ UNCHANGED <<conn, pid_r, fd_reader, sent, out, lost>>

(* The greeting, or 0 from a writer that did not get to send it.           *)
R_Greeting(r) ==
  /\ Goto(r, "greeting", "read")
  /\ pipe' = [pipe EXCEPT ![r] = IF @ = <<>> THEN @ ELSE Tail(@)]
  /\ UNCHANGED <<conn, pid_r, fd_reader, sent, out, lost>>

(* Where fwrite fails it returns 0, CHECK_ERROR looks for -1, and the loop *)
(* goes on.                                                                *)
R_Read(r) ==
  /\ Goto(r, "read", "read")
  /\ pipe[r] # <<>>
  /\ out' = [out EXCEPT ![r] = Append(@, Head(pipe[r]))]
  /\ pipe' = [pipe EXCEPT ![r] = Tail(@)]
  /\ \/ lost' = lost
     \/ /\ "output" \in faults
        /\ lost' = [lost EXCEPT ![r] = @ \cup {Len(out[r]) + 1}]
  /\ UNCHANGED <<conn, pid_r, fd_reader, sent>>

(* Without SetBlock an empty FIFO ends the loop.                           *)
R_EndNonblock(r) ==
  /\ pipe[r] = <<>>
  /\ Leave(r, "read", "done")
  /\ UNCHANGED <<pipe, pid_r, fd_reader, sent, out, lost>>

(* read() returns 0: the FIFO is empty and its writer has closed it.       *)
R_End(r) ==
  /\ pipe[r] = <<>>
  /\ PersWriters(r) = {}
  /\ Leave(r, "read", "done")
  /\ UNCHANGED <<pipe, pid_r, fd_reader, sent, out, lost>>

-----------------------------------------------------------------------------
Kill(p) ==
  /\ "kill" \in faults
  /\ pc[p] \notin Ended
  /\ Leave(p, pc[p], "killed")
  /\ UNCHANGED <<pipe, pid_r, fd_reader, sent, out, lost>>

WriterStep(w) ==
  /\ \/ W_OpenConn(w) \/ W_ReadPid(w) \/ W_NoReader(w) \/ W_GiveUp(w)
     \/ W_OpenPers(w) \/ W_ReaderGone(w) \/ W_Greet(w) \/ W_OpenFile(w)
     \/ W_Copy(w) \/ W_BrokenPipe(w) \/ W_FileFails(w) \/ W_End(w)
  /\ UNCHANGED faults

ReaderStep(r) ==
  /\ \/ R_Create(r) \/ R_OpenConn(r) \/ R_SendPid(r) \/ R_BrokenPipe(r)
     \/ R_Poll(r) \/ R_TimesOut(r) \/ R_GiveUp(r) \/ R_Greeting(r)
     \/ R_Read(r) \/ R_End(r)
  /\ UNCHANGED faults

Next ==
  \/ \E w \in Writers : WriterStep(w)
  \/ \E r \in Readers : ReaderStep(r)
  \/ \E p \in Procs : Kill(p) /\ UNCHANGED faults

Spec == Init /\ [][Next]_vars

(* Every process that can run does.                                        *)
FairSpec ==
  /\ Spec
  /\ \A w \in Writers : WF_vars(WriterStep(w))
  /\ \A r \in Readers : WF_vars(ReaderStep(r))

-----------------------------------------------------------------------------
(* The pids in connFIFO are those of readers, each once at most, and no    *)
(* FIFO holds more than it can.                                            *)
TypeOK ==
  /\ conn \in Seq(Readers)
  /\ \A i, j \in 1..Len(conn) : conn[i] = conn[j] => i = j
  /\ \A r \in Readers : /\ Len(pipe[r]) <= Capacity
                         /\ \A i \in 1..Len(pipe[r]) :
                              \E w \in Writers : pipe[r][i] \in {w} \X (0..FileLen[w])
  /\ pid_r \in [Writers -> Readers \cup {NoReader}]
  /\ fd_reader \in [Writers -> Readers \cup {NoReader}]
  /\ \A w \in Writers : sent[w] \in 0..FileLen[w]

(* A reader prints the first blocks of one writer's file, in order and     *)
(* without the greeting, however many writers read connFIFO (line 14);     *)
(* those that fwrite could not write are left out of what it prints.       *)
OutputOfOneFile ==
  \A r \in Readers : out[r] # <<>> =>
    \E w \in Writers :
      /\ fd_reader[w] = r
      /\ out[r] = SubSeq(Whole(w), 1, Len(out[r]))

(* The blocks of a file that its reader has not come to.                   *)
Unread(r) ==
  IF pc[r] \in {"poll", "greeting", "late", "failed"} THEN Tail(pipe[r])
                                                     ELSE pipe[r]

(* A writer that returns EXIT_SUCCESS has its whole file with fwrite or in *)
(* the reader's FIFO, each block once, unless the reader is killed.  It is *)
(* all in the FIFO, unheard, where the reader's 5 seconds ran out before   *)
(* the greeting came and the FIFO was not closed yet (lines 72 to 77).     *)
SuccessLosesNothing ==
  \A w \in Writers : pc[w] = "done" =>
    LET r == fd_reader[w] IN
    \/ pc[r] = "killed"
    \/ out[r] \o Unread(r) = Whole(w)

PrintedWhole(r, w) == out[r] = Whole(w) /\ lost[r] = {}

(* A reader that returns EXIT_SUCCESS has printed the whole file of a      *)
(* writer, or that writer has failed or been killed, the end of a FIFO     *)
(* being all the reader sees (line 86), or an fwrite has failed (line 87). *)
ShortOnlyByFailure ==
  \A r \in Readers : pc[r] = "done" =>
    \E w \in Writers :
      /\ fd_reader[w] = r
      /\ \/ PrintedWhole(r, w)
         \/ pc[w] \in {"failed", "killed"}
         \/ out[r] = Whole(w) /\ lost[r] # {}

(* Whatever fails and whoever is killed, everybody ends who does not wait  *)
(* in open() for the other end of connFIFO: a reader in poll or read, a    *)
(* writer in a read of connFIFO or in a write to a full FIFO.  And where   *)
(* no file fails and nobody is killed, a writer completes with the reader  *)
(* whose FIFO it has opened, if that one still waits and the greeting has  *)
(* arrived, or nobody takes more than the 5 seconds: both return           *)
(* EXIT_SUCCESS, and the whole file has been given to fwrite.              *)
PairsComplete ==
  /\ <>[](\A p \in Procs : pc[p] \in {"waitConn"} \cup Ended)
  /\ \A w \in Writers :
       LET r == fd_reader[w] IN
       (/\ r \in Readers /\ faults \cap {"file", "kill"} = {}
        /\ pc[r] = "poll"
        /\ pipe[r] # <<>> \/ "timeout" \notin faults)
         ~> (/\ r \in Readers /\ pc[w] = "done" /\ pc[r] = "done"
             /\ out[r] = Whole(w))
=============================================================================
