------------------------------- MODULE Proxy -------------------------------
(***************************************************************************)
(* Proxy/LocalProxy.cpp: a file goes through a chain of N processes and    *)
(* back to the parent after each of them:                                  *)
(*                                                                         *)
(*   client 0 -CS[0]-> chan[0] -SC[1]-> client 1 -CS[1]-> chan[1] ... -> 1 *)
(*                                                                         *)
(* SC and CS are pipes, chan the parent's buffers.  One poll drives them   *)
(* all; its answer is a snapshot that the loop over the channels works     *)
(* through while the clients go on.  Client 0 gets the file's name through *)
(* SC[0] and sends back the file's size through a pipe of its own, and the *)
(* parent counts what it has output until it has that much.                *)
(*                                                                         *)
(* A file is cut into units of 16 bytes, the piece the parent writes at    *)
(* once.  The parent's ends of the pipes do not block: line 76 makes the   *)
(* descriptor 0 block, for m_fdRead is stored two lines below.             *)
(***************************************************************************)
EXTENDS Integers, Sequences, SequencesExt

CONSTANTS
  N,              \* numberClient
  Chars,          \* of which names are made
  Disk,           \* the files there are: the length of each, by name
  Files,          \* the names SendFile is called with, one after the other
  Capacity,       \* of each chan (CalcSizeBuf)
  PipeSize,       \* what a pipe holds
  Faults          \* a subset of FaultKinds

FaultKinds == {"kill",    \* a process is killed
               "fork",    \* pipe2 or fork fails
               "file",    \* the file cannot be opened or read
               "output",  \* a write to the standard output is short or fails
               "eagain"}  \* splice heeds O_NONBLOCK of a pipe (Linux 5.1)

Clients == 0..N - 1
Final == N - 1

ASSUME SizesAssumption ==
  /\ N \in Nat \ {0} /\ PipeSize \in Nat \ {0}
  /\ Capacity \in [Clients -> Nat \ {0}]
  /\ DOMAIN Disk \subseteq Seq(Chars) /\ Disk \in [DOMAIN Disk -> Nat]
  /\ Files \in Seq(Seq(Chars)) /\ Files # <<>>
  /\ \A f \in DOMAIN Files : Files[f] # <<>>
  /\ Faults \subseteq FaultKinds

VARIABLES
  faults,         \* what may go wrong in this run
  pc,             \* where the parent is
  k,              \* the file it sends
  at,             \* i: the client it forks or the channel it looks at
  polled,         \* the revents of the last poll
  chan,           \* for each channel m_buf, m_curPos, m_size
  counter, sizeFile,
  ended,          \* how each SendFile ended: "counted" or "out"
  out,            \* the standard output
  client,         \* where each client is
  first,          \* the files client 0 has opened, one after the other, and
                  \* how much of the last one is sent (its sizeFile)
  names, sizes,   \* the characters in SC[0], and the pipe for its sizeFile
  SC, CS          \* the other pipes

parentVars == <<pc, k, at, polled, chan, counter, sizeFile, ended, out>>
clientVars == <<client, first, names, sizes, SC, CS>>
vars == <<faults, parentVars, clientVars>>

LONG_MAX == -1                  \* no file is that long

(* The f-th of the opened files os, a unit being marked with both numbers. *)
Contents(os, f) == [j \in 1..Disk[os[f]] |-> <<f, j>>]

NoEvents == [hup |-> {}, in |-> {}, out |-> {}]
HasRoom(pipe) == Len(pipe) < PipeSize
Least(a, b) == IF a < b THEN a ELSE b

Init ==
  /\ faults \in SUBSET Faults
  /\ pc = "fork" /\ k = 1 /\ at = 0 /\ polled = NoEvents
  /\ chan = [i \in Clients |-> [buf |-> <<>>, curPos |-> 0, size |-> 0]]
  /\ counter = 0 /\ sizeFile = LONG_MAX /\ ended = <<>> /\ out = <<>>
  /\ client = [i \in Clients |-> "none"]
  /\ first = [opened |-> <<>>, sent |-> 0]
  /\ names = <<>> /\ sizes = <<>>
  /\ SC = [i \in Clients |-> <<>>] /\ CS = [i \in Clients |-> <<>>]

ParentOver == pc \in {"over", "killed"}
Gone(i) == client[i] = "gone"
Leave(i) == client' = [client EXCEPT ![i] = "gone"]

-----------------------------------------------------------------------------
(* StartProxy.  Each client closes the ends of the pipes that it inherits  *)
(* and does not use, so a pipe has ended when its one user has.            *)

Fork ==
  /\ pc = "fork"
  /\ client' = [client EXCEPT ![at] = IF at = 0 THEN "read" ELSE "splice"]
  /\ IF at = Final THEN pc' = "name" /\ at' = 0
                  ELSE at' = at + 1 /\ UNCHANGED pc
  /\ UNCHANGED <<k, polled, chan, counter, sizeFile, ended, out,
                 first, names, sizes, SC, CS>>

(* main returns, and with it everything the parent holds is closed.        *)
ForkFails ==
  /\ pc = "fork" /\ "fork" \in faults
  /\ pc' = "over"
  /\ UNCHANGED <<k, at, polled, chan, counter, sizeFile, ended, out, clientVars>>

-----------------------------------------------------------------------------
(* SendFile                                                                *)

(* The name goes out without its final zero; without a reader it is        *)
(* SIGPIPE that ends the parent.                                           *)
WriteName ==
  /\ pc = "name"
  /\ IF Gone(0) THEN pc' = "killed" /\ UNCHANGED names
                ELSE pc' = "poll" /\ names' = names \o Files[k]
  /\ UNCHANGED <<k, at, polled, chan, ended, out, client, first, sizes, SC, CS>>

(* The count goes on from the file before.                                 *)
SendNameCountsOn ==
  /\ WriteName
  /\ sizeFile' = LONG_MAX /\ UNCHANGED counter

SendName ==
  /\ WriteName
  /\ counter' = 0 /\ sizeFile' = LONG_MAX

(* A POLLHUP, which poll reports unasked, is not looked at.                *)
EventsNoHup ==
  [hup |-> {},
   in  |-> {i \in Clients : chan[i].size = 0 /\ CS[i] # <<>>},
   out |-> {i \in Clients \ {0} : chan[i - 1].size # 0 /\ HasRoom(SC[i])}]

(* POLLOUT depends on the channel's own buffer, not the one before.        *)
EventsOwnBuffer ==
  [hup |-> {i \in Clients : Gone(i)},
   in  |-> {i \in Clients : chan[i].size = 0 /\ CS[i] # <<>>},
   out |-> {i \in Clients \ {0} : chan[i].size # 0 /\ HasRoom(SC[i])}]

(* POLLIN is asked of the channels whose buffer is empty, POLLOUT of the   *)
(* pipes behind a buffer that is not.                                      *)
Events ==
  [hup |-> {i \in Clients : Gone(i)},
   in  |-> {i \in Clients : chan[i].size = 0 /\ CS[i] # <<>>},
   out |-> {i \in Clients \ {0} : chan[i - 1].size # 0 /\ HasRoom(SC[i])}]

(* The size is read before the loop.                                       *)
Poll ==
  /\ pc = "poll"
  /\ sizes # <<>> \/ Events # NoEvents
  /\ polled' = Events
  /\ IF sizes = <<>> THEN UNCHANGED <<sizes, sizeFile>>
       ELSE sizes' = Tail(sizes) /\ sizeFile' = Head(sizes)
  /\ pc' = "in" /\ at' = 0
  /\ UNCHANGED <<k, chan, counter, ended, out, client, first, names, SC, CS>>

(* SendFile returns 0, and main calls it for the next file or ends.        *)
Return(how) ==
  /\ ended' = Append(ended, how)
  /\ at' = 0 /\ polled' = NoEvents
  /\ IF k < Len(Files) THEN pc' = "name" /\ k' = k + 1
                       ELSE pc' = "over" /\ UNCHANGED k
  /\ UNCHANGED <<chan, counter, sizeFile, out, clientVars>>

(* POLLHUP comes before POLLIN, whatever is still in the pipe.             *)
HungUp ==
  /\ pc = "in" /\ at \in polled.hup
  /\ Return("out")

Readable == pc = "in" /\ at \notin polled.hup /\ at \in polled.in

(* The buffer after a read.  m_curPos is at its beginning already.         *)
Filled(i) ==
  LET n == Least(Len(CS[i]), Capacity[i]) IN
  [chan[i] EXCEPT !.buf = SubSeq(CS[i], 1, n), !.size = n]

Drained(i) == [CS EXCEPT ![i] = SubSeq(@, Filled(i).size + 1, Len(@))]

Receive ==
  /\ Readable /\ at < Final
  /\ chan' = [chan EXCEPT ![at] = Filled(at)]
  /\ CS' = Drained(at)
  /\ pc' = "out"
  /\ UNCHANGED <<k, at, polled, counter, sizeFile, ended, out,
                 client, first, names, sizes, SC>>

(* The last channel's data is output at once; what a short write leaves is *)
(* never written, and POLLIN never asked for again.                        *)
Output ==
  /\ Readable /\ at = Final
  /\ \E n \in IF "output" \in faults THEN 0..Filled(at).size
                                     ELSE {Filled(at).size} :
       /\ chan' = [chan EXCEPT ![at] = [Filled(at) EXCEPT !.size = @ - n]]
       /\ out' = out \o SubSeq(Filled(at).buf, 1, n)
       /\ counter' = counter + n
  /\ CS' = Drained(at)
  /\ pc' = "out"
  /\ UNCHANGED <<k, at, polled, sizeFile, ended, client, first, names, sizes, SC>>

(* A write that fails ends SendFile and main with it.                      *)
OutputFails ==
  /\ Readable /\ at = Final /\ "output" \in faults
  /\ chan' = [chan EXCEPT ![at] = Filled(at)]
  /\ CS' = Drained(at)
  /\ pc' = "over"
  /\ UNCHANGED <<k, at, polled, counter, sizeFile, ended, out,
                 client, first, names, sizes, SC>>

Skip ==
  /\ pc = "in" /\ at \notin polled.hup \cup polled.in
  /\ pc' = "out"
  /\ UNCHANGED <<k, at, polled, chan, counter, sizeFile, ended, out, clientVars>>

(* A piece of the buffer before goes on, while there is one and no EAGAIN. *)
Forwarding ==
  /\ at \in polled.out /\ chan[at - 1].size > 0
  /\ HasRoom(SC[at]) \/ Gone(at)

(* m_curPos goes back to the beginning also when something is left.        *)
AdvanceRewinds(c) == [c EXCEPT !.curPos = 0, !.size = @ - 1]

Advance(c) ==
  [c EXCEPT !.curPos = IF c.size = 1 THEN 0 ELSE @ + 1, !.size = @ - 1]

Forward ==
  /\ pc = "out" /\ Forwarding
  /\ IF Gone(at)
       THEN pc' = "killed" /\ UNCHANGED <<SC, chan>>          \* SIGPIPE
       ELSE LET c == chan[at - 1] IN
            /\ SC' = [SC EXCEPT ![at] = Append(@, c.buf[c.curPos + 1])]
            /\ chan' = [chan EXCEPT ![at - 1] = Advance(c)]
            /\ UNCHANGED pc
  /\ UNCHANGED <<k, at, polled, counter, sizeFile, ended, out,
                 client, first, names, sizes, CS>>

NextChannel ==
  /\ pc = "out" /\ ~Forwarding /\ at < Final
  /\ pc' = "in" /\ at' = at + 1
  /\ UNCHANGED <<k, polled, chan, counter, sizeFile, ended, out, clientVars>>

(* The end of the for loop, and the test of the while.                     *)
Enough == sizeFile # LONG_MAX /\ counter >= sizeFile

Again ==
  /\ pc = "out" /\ ~Forwarding /\ at = Final /\ ~Enough
  /\ pc' = "poll" /\ at' = 0 /\ polled' = NoEvents
  /\ UNCHANGED <<k, chan, counter, sizeFile, ended, out, clientVars>>

Counted ==
  /\ pc = "out" /\ ~Forwarding /\ at = Final /\ Enough
  /\ Return("counted")

-----------------------------------------------------------------------------
(* StartFirstClient: both its pipes block.                                 *)

(* What the last read has left in nameFile (names are shorter than that).  *)
nameFile == IF first.opened = <<>> THEN <<>> ELSE Last(first.opened)

(* A read takes all the names there are as one, and puts it over the name  *)
(* before without a zero behind it: what is longer of that one stays, and  *)
(* whatever file has the name that comes of it is the one that is opened.  *)
Overlaid == names \o SubSeq(nameFile, Len(names) + 1, Len(nameFile))

ReadName ==
  /\ client[0] = "read" /\ names # <<>>
  /\ names' = <<>>
  /\ \/ /\ Overlaid \in DOMAIN Disk
        /\ client' = [client EXCEPT ![0] = "splice"]
        /\ first' = [opened |-> Append(first.opened, Overlaid), sent |-> 0]
     \/ /\ Overlaid \notin DOMAIN Disk \/ "file" \in faults
        /\ Leave(0)
        /\ UNCHANGED first
  /\ UNCHANGED <<parentVars, sizes, SC, CS>>

file == Len(first.opened)
AtEnd == first.sent = Disk[nameFile]

SpliceFile ==
  /\ client[0] = "splice" /\ ~AtEnd /\ ~ParentOver
  /\ \E n \in 1..Least(Disk[nameFile] - first.sent, PipeSize - Len(CS[0])) :
       /\ CS' = [CS EXCEPT ![0] =
                   @ \o SubSeq(Contents(first.opened, file),
                              first.sent + 1, first.sent + n)]
       /\ first' = [first EXCEPT !.sent = @ + n]
  /\ UNCHANGED <<parentVars, client, names, sizes, SC>>

FileFails ==
  /\ client[0] = "splice" /\ "file" \in faults
  /\ Leave(0)
  /\ UNCHANGED <<parentVars, first, names, sizes, SC, CS>>

SendSize ==
  /\ client[0] = "splice" /\ AtEnd /\ ~ParentOver
  /\ sizes' = Append(sizes, first.sent)
  /\ client' = [client EXCEPT ![0] = "read"]
  /\ UNCHANGED <<parentVars, first, names, SC, CS>>

(* SIGPIPE                                                                 *)
FirstBroken ==
  /\ client[0] = "splice" /\ ParentOver
  /\ Leave(0)
  /\ UNCHANGED <<parentVars, first, names, sizes, SC, CS>>

FirstFinished ==
  /\ client[0] = "read" /\ names = <<>> /\ ParentOver
  /\ Leave(0)
  /\ UNCHANGED <<parentVars, first, names, sizes, SC, CS>>

-----------------------------------------------------------------------------
(* StartClient: only m_fdRead blocks.                                      *)

Splice(i) ==
  /\ client[i] = "splice" /\ ~ParentOver
  /\ \E n \in 1..Least(Len(SC[i]), PipeSize - Len(CS[i])) :
       /\ CS' = [CS EXCEPT ![i] = @ \o SubSeq(SC[i], 1, n)]
       /\ SC' = [SC EXCEPT ![i] = SubSeq(@, n + 1, Len(@))]
  /\ UNCHANGED <<parentVars, client, first, names, sizes>>

(* m_fdWrite is not blocking, and a kernel that looks at that lets splice  *)
(* fail where another one waits.                                           *)
WouldBlock(i) ==
  /\ client[i] = "splice" /\ ~ParentOver /\ "eagain" \in faults
  /\ SC[i] = <<>> \/ ~HasRoom(CS[i])
  /\ Leave(i)
  /\ UNCHANGED <<parentVars, first, names, sizes, SC, CS>>

(* SIGPIPE                                                                 *)
Broken(i) ==
  /\ client[i] = "splice" /\ ParentOver /\ SC[i] # <<>>
  /\ Leave(i)
  /\ UNCHANGED <<parentVars, first, names, sizes, SC, CS>>

(* No break at the end of the input.                                       *)
FinishedNever(i) ==
  /\ client[i] = "splice" /\ ParentOver /\ SC[i] = <<>>
  /\ UNCHANGED clientVars
  /\ UNCHANGED parentVars

Finished(i) ==
  /\ client[i] = "splice" /\ ParentOver /\ SC[i] = <<>>
  /\ Leave(i)
  /\ UNCHANGED <<parentVars, first, names, sizes, SC, CS>>

-----------------------------------------------------------------------------
KillClient(i) ==
  /\ "kill" \in faults
  /\ client[i] \notin {"none", "gone"}
  /\ Leave(i)
  /\ UNCHANGED <<parentVars, first, names, sizes, SC, CS>>

KillParent ==
  /\ "kill" \in faults
  /\ ~ParentOver
  /\ pc' = "killed"
  /\ UNCHANGED <<k, at, polled, chan, counter, sizeFile, ended, out, clientVars>>

ParentStep ==
  /\ \/ Fork \/ ForkFails \/ SendName \/ Poll \/ HungUp \/ Receive \/ Output
     \/ OutputFails \/ Skip \/ Forward \/ NextChannel \/ Again \/ Counted
  /\ UNCHANGED faults

FirstStep ==
  /\ \/ ReadName \/ SpliceFile \/ FileFails \/ SendSize
     \/ FirstBroken \/ FirstFinished
  /\ UNCHANGED faults

ClientStep(i) ==
  /\ Splice(i) \/ WouldBlock(i) \/ Broken(i) \/ Finished(i)
  /\ UNCHANGED faults

Next ==
  \/ ParentStep \/ FirstStep
  \/ \E i \in Clients \ {0} : ClientStep(i)
  \/ (KillParent \/ \E i \in Clients : KillClient(i)) /\ UNCHANGED faults

Spec == Init /\ [][Next]_vars

(* Every process that is not blocked runs.                                 *)
FairSpec ==
  /\ Spec
  /\ WF_vars(ParentStep) /\ WF_vars(FirstStep)
  /\ \A i \in Clients \ {0} : WF_vars(ClientStep(i))

-----------------------------------------------------------------------------
Held(c) == SubSeq(c.buf, Len(c.buf) - c.size + 1, Len(c.buf))

InChannel(i) == Held(chan[i]) \o CS[i] \o SC[i]

(* What is under way in the first i channels.                              *)
Upstream[i \in 0..N] ==
  IF i = 0 THEN <<>> ELSE InChannel(i - 1) \o Upstream[i - 1]

(* The first f of the opened files os.                                     *)
Sent(os) ==
  LET s[f \in 0..Len(os)] == IF f = 0 THEN <<>> ELSE s[f - 1] \o Contents(os, f)
  IN s

(* Whatever fails, wherever the pipes and buffers fill up: what has been   *)
(* output, and behind it what is under way from the last client to the     *)
(* first, is the files client 0 has opened in the order it opened them,    *)
(* without a unit lost, doubled or overtaken.                              *)
InOrder == IsPrefix(out \o Upstream[N], Sent(first.opened)[file])

(* A SendFile whose loop ended by its count has output its file to the end *)
(* behind those of the SendFiles before it, although the count knows       *)
(* neither the file nor which one it counts.  And where no name before it  *)
(* was longer it is the file that was asked for, however often an earlier  *)
(* one failed: two names are never read as one.                            *)
CountedIsWhole ==
  \A f \in DOMAIN ended : ended[f] = "counted" =>
    /\ f <= file /\ IsPrefix(Sent(first.opened)[f], out)
    /\ (\A e \in 1..f : Len(Files[e]) <= Len(Files[f]))
         => first.opened[f] = Files[f]

(* SendFile ends whoever dies, unless a write to the output is short.      *)
SendFileEnds == "output" \notin faults => <>ParentOver

(* The names as they are opened where each is read before the next one is  *)
(* written.                                                                *)
OpenedAs[f \in DOMAIN Files] ==
  IF f = 1 THEN Files[1]
  ELSE Files[f] \o SubSeq(OpenedAs[f - 1], Len(Files[f]) + 1, Len(OpenedAs[f - 1]))

FilesExist == \A f \in DOMAIN Files : OpenedAs[f] \in DOMAIN Disk

(* And where nothing fails, with a kernel whose splice waits, every        *)
(* SendFile ends by its count, if client 0 finds a file each time.         *)
Delivered ==
  faults = {} /\ FilesExist =>
    <>(/\ pc = "over" /\ first.opened = OpenedAs
       /\ ended = [f \in DOMAIN Files |-> "counted"])

(* The clients end after the parent, however it ended.                     *)
ClientsEnd == ParentOver ~> \A i \in Clients : client[i] \in {"none", "gone"}

(* main.cpp:48: "You can send any number of files": a SendFile that        *)
(* returns 0 where nothing failed has output its file.                     *)
AnyNumberOfFiles ==
  faults = {} => \A f \in DOMAIN ended : ended[f] = "counted"
=============================================================================
