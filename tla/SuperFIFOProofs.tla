-------------------------- MODULE SuperFIFOProofs --------------------------
(***************************************************************************)
(* For every number of readers and writers, every length of their files,   *)
(* every capacity of a FIFO and every set of faults: a reader prints the   *)
(* first blocks of one file, of the file of a writer that succeeds nothing *)
(* is lost but by a reader that ends first, and a reader that succeeds has *)
(* read the whole file of a writer that did not fail.                      *)
(***************************************************************************)
EXTENDS SuperFIFO, SequenceTheorems, TLAPS

ReaderAt == {"create", "openConn", "waitConn", "sendPid", "poll", "late",
             "greeting", "read"} \cup Ended
WriterAt == {"openConn", "waitConn", "readPid", "noReader", "openPers",
             "greet", "openFile", "copy"} \cup Ended

Blocks == UNION {{w} \X (0..FileLen[w]) : w \in Writers}

TypeInv ==
  /\ pc \in [Procs -> ReaderAt \cup WriterAt]
  /\ \A r \in Readers : pc[r] \in ReaderAt
  /\ \A w \in Writers : pc[w] \in WriterAt
  /\ conn \in Seq(Readers)
  /\ pipe \in [Readers -> Seq(Blocks)]
  /\ out \in [Readers -> Seq(Blocks)]
  /\ pid_r \in [Writers -> Readers \cup {NoReader}]
  /\ fd_reader \in [Writers -> Readers \cup {NoReader}]
  /\ sent \in [Writers -> Nat]
  /\ \A w \in Writers : sent[w] <= FileLen[w]
  /\ \A r \in Readers : Len(pipe[r]) <= Capacity

(* A pid is sent once, and is in connFIFO or with one writer.              *)
Unsent == {"create", "openConn", "waitConn", "sendPid"}

PidInv ==
  /\ \A i, j \in 1..Len(conn) : conn[i] = conn[j] => i = j
  /\ \A i \in 1..Len(conn) : pc[conn[i]] \notin Unsent
  /\ \A w \in Writers : pid_r[w] # NoReader =>
       /\ pc[pid_r[w]] \notin Unsent
       /\ \A i \in 1..Len(conn) : conn[i] # pid_r[w]
  /\ \A v, w \in Writers : pid_r[v] # NoReader /\ pid_r[v] = pid_r[w] => v = w

(* What a writer has opened by where it is.                                *)
FdOf(w) ==
  /\ fd_reader[w] # NoReader => fd_reader[w] = pid_r[w]
  /\ pc[w] \in {"openConn", "waitConn", "readPid", "noReader"} =>
       pid_r[w] = NoReader
  /\ pc[w] = "openPers" => pid_r[w] # NoReader
  /\ pc[w] \in {"openConn", "waitConn", "readPid", "noReader", "openPers"} =>
       fd_reader[w] = NoReader
  /\ pc[w] \in {"greet", "openFile", "copy", "done"} =>
       fd_reader[w] # NoReader
  /\ fd_reader[w] = NoReader => sent[w] = 0
  /\ pc[w] = "done" => sent[w] = FileLen[w]

FdInv == \A w \in Writers : FdOf(w)

(* What writer w has sent to reader r, by how far r is: it is in r's FIFO  *)
(* from the greeting on, or in r's output and the rest in r's FIFO.        *)
StreamOf(w, at, readerAt, p, o, n) ==
  /\ readerAt \in {"poll", "greeting", "late", "failed"} =>
       /\ o = <<>>
       /\ \A i \in 1..Len(p) : p[i] = <<w, i - 1>>
       /\ \/ /\ Len(p) = 0 /\ n = 0
             /\ at \notin {"openFile", "copy", "done"}
          \/ Len(p) = n + 1 /\ at # "greet"
  /\ readerAt \in {"read", "done"} =>
       /\ Len(o) + Len(p) = n
       /\ \A i \in 1..Len(p) : p[i] = <<w, Len(o) + i>>
  /\ readerAt \in {"greeting", "read", "done"} => at # "greet"
  /\ readerAt = "done" => p = <<>> /\ at \in Ended
  /\ Len(o) <= n
  /\ \A i \in 1..Len(o) : o[i] = <<w, i>>

StreamInv(w, r) == StreamOf(w, pc[w], pc[r], pipe[r], out[r], sent[w])

Unopened(r) == \A w \in Writers : fd_reader[w] # r

Fresh(r) == /\ pipe[r] = <<>> /\ out[r] = <<>>
            /\ pc[r] \notin {"greeting", "read", "done"}

PipeInv ==
  \A r \in Readers :
    /\ \A w \in Writers : fd_reader[w] = r => StreamInv(w, r)
    /\ Unopened(r) => Fresh(r)

IInv == TypeInv /\ PidInv /\ FdInv /\ PipeInv

(* Sequence q is p with e behind it, or without its head.                  *)
Appended(p, q, e) ==
  /\ Len(p) \in Nat /\ Len(q) = Len(p) + 1 /\ q[Len(p) + 1] = e
  /\ \A i \in 1..Len(p) : q[i] = p[i]
  /\ \A i \in 1..Len(q) : i \in 1..Len(p) \/ i = Len(p) + 1

Beheaded(p, q) ==
  /\ Len(p) \in Nat /\ Len(p) # 0 /\ Len(q) = Len(p) - 1 /\ 1 \in 1..Len(p)
  /\ \A i \in 1..Len(q) : i + 1 \in 1..Len(p) /\ q[i] = p[i + 1]

-----------------------------------------------------------------------------
USE RolesAssumption, SizesAssumption, FaultsAssumption

LEMMA GotoEffect ==
  ASSUME TypeInv, NEW p \in Procs, NEW to \in ReaderAt \cup WriterAt,
         pc' = [pc EXCEPT ![p] = to]
  PROVE  /\ pc' \in [Procs -> ReaderAt \cup WriterAt]
         /\ pc'[p] = to
         /\ \A q \in Procs \ {p} : pc'[q] = pc[q]
  BY DEF TypeInv

(* A reader is opened by one writer at most.                               *)
LEMMA OneWriter ==
  ASSUME IInv, NEW v \in Writers, NEW w \in Writers,
         fd_reader[v] = fd_reader[w], fd_reader[w] # NoReader
  PROVE  v = w
  BY DEF IInv, PidInv, FdInv, FdOf

(* The pids in connFIFO, one added, one taken or all of them gone.         *)
LEMMA TailFacts ==
  ASSUME NEW S, NEW s \in Seq(S), s # <<>>
  PROVE  /\ Head(s) \in S /\ Head(s) = s[1] /\ 1 \in 1..Len(s)
         /\ Tail(s) \in Seq(S) /\ Len(Tail(s)) = Len(s) - 1
         /\ \A i \in 1..Len(Tail(s)) :
              /\ i + 1 \in 1..Len(s) /\ i + 1 # 1
              /\ Tail(s)[i] = s[i + 1]
  OBVIOUS

LEMMA AppendFacts ==
  ASSUME NEW S, NEW s \in Seq(S), NEW e \in S
  PROVE  /\ Append(s, e) \in Seq(S)
         /\ Len(Append(s, e)) = Len(s) + 1
         /\ \A i \in 1..Len(s) : Append(s, e)[i] = s[i]
         /\ Append(s, e)[Len(s) + 1] = e
         /\ \A i \in 1..Len(Append(s, e)) : i \in 1..Len(s) \/ i = Len(s) + 1
  OBVIOUS

(* Three frames for PipeInv: a step of a reader and its writer, of a       *)
(* reader that nobody has opened, of a writer that has opened none.        *)
LEMMA PairFrame ==
  ASSUME IInv, UNCHANGED fd_reader,
         NEW w \in Writers, NEW r \in Readers, fd_reader[w] = r,
         \A q \in Readers \ {r} : pipe'[q] = pipe[q] /\ out'[q] = out[q],
         \A p \in Procs \ {w, r} : pc'[p] = pc[p],
         \A v \in Writers \ {w} : sent'[v] = sent[v],
         StreamInv(w, r)'
  PROVE  PipeInv'
<1>1. ASSUME NEW q \in Readers, NEW v \in Writers, fd_reader[v] = q
      PROVE  StreamInv(v, q)'
  <2>1. CASE v = w
    BY <1>1, <2>1
  <2>2. CASE v # w
    <3>1. q # r /\ v \in Procs \ {w, r} /\ q \in Procs \ {w, r}
      BY <1>1, <2>2, OneWriter DEF Procs
    <3>2. /\ pipe'[q] = pipe[q] /\ out'[q] = out[q] /\ sent'[v] = sent[v]
          /\ pc'[v] = pc[v] /\ pc'[q] = pc[q]
      BY <2>2, <3>1
    <3>3. StreamInv(v, q)
      BY <1>1 DEF IInv, PipeInv
    <3>4. QED
      BY <3>2, <3>3 DEF StreamInv
  <2>3. QED
    BY <2>1, <2>2
<1>2. ASSUME NEW q \in Readers, Unopened(q) PROVE Fresh(q)'
  <2>1. q # r /\ q \in Procs \ {w, r}
    BY <1>2 DEF Unopened, Procs
  <2>2. Fresh(q)
    BY <1>2 DEF IInv, PipeInv
  <2>3. QED
    BY <2>1, <2>2 DEF Fresh
<1>3. QED
  BY <1>1, <1>2 DEF PipeInv, Unopened

LEMMA LoneReaderFrame ==
  ASSUME IInv, UNCHANGED <<fd_reader, pipe, out, sent>>,
         NEW r \in Readers, Unopened(r),
         \A p \in Procs \ {r} : pc'[p] = pc[p],
         pc'[r] \notin {"greeting", "read", "done"}
  PROVE  PipeInv'
<1>1. ASSUME NEW q \in Readers, NEW v \in Writers, fd_reader[v] = q
      PROVE  StreamInv(v, q)'
  <2>1. q \in Procs \ {r} /\ v \in Procs \ {r}
    BY <1>1 DEF Unopened, Procs
  <2>2. StreamInv(v, q)
    BY <1>1 DEF IInv, PipeInv
  <2>3. QED
    BY <2>1, <2>2 DEF StreamInv
<1>2. ASSUME NEW q \in Readers, Unopened(q) PROVE Fresh(q)'
  BY <1>2 DEF IInv, PipeInv, Fresh, Procs
<1>3. QED
  BY <1>1, <1>2 DEF PipeInv, Unopened

LEMMA LoneWriterFrame ==
  ASSUME IInv, UNCHANGED <<fd_reader, pipe, out, sent>>,
         NEW w \in Writers, fd_reader[w] = NoReader,
         \A p \in Procs \ {w} : pc'[p] = pc[p]
  PROVE  PipeInv'
<1>1. ASSUME NEW q \in Readers, NEW v \in Writers, fd_reader[v] = q
      PROVE  StreamInv(v, q)'
  <2>1. q \in Procs \ {w} /\ v \in Procs \ {w}
    BY <1>1 DEF Procs
  <2>2. StreamInv(v, q)
    BY <1>1 DEF IInv, PipeInv
  <2>3. QED
    BY <2>1, <2>2 DEF StreamInv
<1>2. ASSUME NEW q \in Readers, Unopened(q) PROVE Fresh(q)'
  BY <1>2 DEF IInv, PipeInv, Fresh, Procs
<1>3. QED
  BY <1>1, <1>2 DEF PipeInv, Unopened

-----------------------------------------------------------------------------
(* A writer goes on, or ends, and touches no FIFO but connFIFO, which is   *)
(* emptied if it was the last to have it open.                             *)
LEMMA WriterMoves ==
  ASSUME IInv, NEW w \in Writers, NEW to \in WriterAt,
         pc' = [pc EXCEPT ![w] = to],
         conn' \in {<<>>, conn},
         UNCHANGED <<pipe, pid_r, fd_reader, sent, out, lost>>,
         FdOf(w)',
         fd_reader[w] # NoReader => StreamInv(w, fd_reader[w])'
  PROVE  IInv'
<1>1. /\ pc' \in [Procs -> ReaderAt \cup WriterAt]
      /\ pc'[w] = to
      /\ \A q \in Procs \ {w} : pc'[q] = pc[q]
      /\ w \in Procs /\ w \notin Readers
  BY GotoEffect DEF IInv, Procs
<1>2. <<>> \in Seq(Readers) /\ Len(<<>>) = 0
  OBVIOUS
<1>3. TypeInv'
  BY <1>1, <1>2 DEF IInv, TypeInv, Procs
<1>4. \A r \in Readers : pc'[r] = pc[r]
  BY <1>1 DEF Procs
<1>5. /\ \A v \in Writers : pid_r[v] \in Readers \cup {NoReader}
      /\ \A i \in 1..Len(conn) : conn[i] \in Readers
  BY DEF IInv, TypeInv
<1>6. PidInv'
  BY <1>2, <1>4, <1>5 DEF IInv, PidInv
<1>7. FdInv'
  BY <1>1 DEF IInv, FdInv, FdOf, Procs
<1>8. PipeInv'
  <2>1. CASE fd_reader[w] = NoReader
    BY <1>1, <2>1, LoneWriterFrame
  <2>2. CASE fd_reader[w] # NoReader
    <3>1. PICK r \in Readers : fd_reader[w] = r
      BY <2>2 DEF IInv, TypeInv
    <3>2. QED
      BY <1>1, <2>2, <3>1, PairFrame
  <2>3. QED
    BY <2>1, <2>2
<1>9. QED
  BY <1>3, <1>6, <1>7, <1>8 DEF IInv

(* And so for a reader.                                                    *)
LEMMA ReaderMoves ==
  ASSUME IInv, NEW r \in Readers, NEW to \in ReaderAt,
         pc' = [pc EXCEPT ![r] = to],
         conn' \in {<<>>, conn},
         UNCHANGED <<pipe, pid_r, fd_reader, sent, out, lost>>,
         pc[r] \notin Unsent => to \notin Unsent,
         Unopened(r) => to \notin {"greeting", "read", "done"},
         \A w \in Writers : fd_reader[w] = r => StreamInv(w, r)'
  PROVE  IInv'
<1>1. /\ pc' \in [Procs -> ReaderAt \cup WriterAt]
      /\ pc'[r] = to
      /\ \A q \in Procs \ {r} : pc'[q] = pc[q]
      /\ r \in Procs /\ r \notin Writers
  BY GotoEffect DEF IInv, Procs
<1>2. <<>> \in Seq(Readers) /\ Len(<<>>) = 0
  OBVIOUS
<1>3. TypeInv'
  BY <1>1, <1>2 DEF IInv, TypeInv, Procs
<1>4. \A q \in Readers : pc[q] \notin Unsent => pc'[q] \notin Unsent
  BY <1>1 DEF Procs
<1>5. /\ \A v \in Writers : pid_r[v] \in Readers \cup {NoReader}
      /\ \A i \in 1..Len(conn) : conn[i] \in Readers
  BY DEF IInv, TypeInv
<1>6. PidInv'
  BY <1>2, <1>4, <1>5 DEF IInv, PidInv
<1>7. FdInv'
  BY <1>1 DEF IInv, FdInv, FdOf, Procs
<1>8. PipeInv'
  <2>1. CASE Unopened(r)
    BY <1>1, <2>1, LoneReaderFrame
  <2>2. CASE ~Unopened(r)
    <3>1. PICK w \in Writers : fd_reader[w] = r
      BY <2>2 DEF Unopened
    <3>2. QED
      BY <1>1, <3>1, PairFrame
  <2>3. QED
    BY <2>1, <2>2
<1>9. QED
  BY <1>3, <1>6, <1>7, <1>8 DEF IInv

LEMMA WriterFacts ==
  ASSUME IInv, NEW w \in Writers
  PROVE  /\ TypeInv /\ w \in Procs /\ w \notin Readers
         /\ pc[w] \in WriterAt /\ FdOf(w)
         /\ pid_r[w] \in Readers \cup {NoReader}
         /\ fd_reader[w] \in Readers \cup {NoReader}
         /\ fd_reader[w] # NoReader => StreamInv(w, fd_reader[w])
  BY DEF IInv, TypeInv, FdInv, PipeInv, Procs

LEMMA ReaderFacts ==
  ASSUME IInv, NEW r \in Readers
  PROVE  /\ TypeInv /\ r \in Procs /\ r \notin Writers
         /\ pc[r] \in ReaderAt
         /\ \A w \in Writers : fd_reader[w] = r => StreamInv(w, r)
         /\ Unopened(r) => Fresh(r)
         /\ \A v, w \in Writers : fd_reader[v] = r /\ fd_reader[w] = r => v = w
  BY OneWriter DEF IInv, TypeInv, PipeInv, Procs

LEMMA LeaveEffect ==
  ASSUME NEW p, NEW from, NEW how, Leave(p, from, how)
  PROVE  /\ pc[p] = from /\ pc' = [pc EXCEPT ![p] = how]
         /\ conn' \in {<<>>, conn}
  BY DEF Leave, Goto

(* A step of a writer that writes nothing.                                 *)
LEMMA WriterQuiet ==
  ASSUME IInv, NEW w \in Writers,
         \/ W_NoReader(w) \/ W_GiveUp(w) \/ W_ReaderGone(w)
         \/ W_OpenFile(w) \/ W_BrokenPipe(w) \/ W_FileFails(w)
         \/ W_End(w) \/ Kill(w)
  PROVE  IInv'
<1>1. PICK to \in WriterAt : pc' = [pc EXCEPT ![w] = to]
  BY WriterFacts, LeaveEffect
     DEF W_NoReader, W_GiveUp, W_ReaderGone, W_OpenFile, W_BrokenPipe,
         W_FileFails, W_End, Kill, Goto, WriterAt, Ended
<1>2. conn' \in {<<>>, conn}
  BY LeaveEffect
     DEF W_NoReader, W_GiveUp, W_ReaderGone, W_OpenFile, W_BrokenPipe,
         W_FileFails, W_End, Kill
<1>3. UNCHANGED <<pipe, pid_r, fd_reader, sent, out, lost>>
  BY DEF W_NoReader, W_GiveUp, W_ReaderGone, W_OpenFile, W_BrokenPipe,
         W_FileFails, W_End, Kill
<1>4. /\ pc'[w] = to
      /\ \A q \in Procs \ {w} : pc'[q] = pc[q]
  BY <1>1, WriterFacts, GotoEffect
<1>5. \/ pc[w] \in {"noReader", "openPers"} /\ to = "failed"
      \/ pc[w] = "readPid" /\ to = "noReader"
      \/ pc[w] = "openFile" /\ to = "copy"
      \/ pc[w] \in {"openFile", "copy"} /\ to = "failed"
      \/ pc[w] = "copy" /\ to = "done" /\ sent[w] = FileLen[w]
      \/ to = "killed"
  <2>1. ASSUME NEW how, pc' = [pc EXCEPT ![w] = how] PROVE to = how
    BY <1>4, <2>1, WriterFacts DEF TypeInv
  <2>2. CASE W_GiveUp(w) \/ W_ReaderGone(w)
    BY <2>1, <2>2, LeaveEffect DEF W_GiveUp, W_ReaderGone
  <2>3. CASE W_NoReader(w) \/ W_OpenFile(w)
    BY <2>1, <2>3 DEF W_NoReader, W_OpenFile, Goto
  <2>4. CASE W_BrokenPipe(w) \/ Kill(w)
    BY <2>1, <2>4, LeaveEffect DEF W_BrokenPipe, Kill
  <2>5. CASE W_FileFails(w) \/ W_End(w)
    BY <2>1, <2>5, LeaveEffect DEF W_FileFails, W_End
  <2>6. QED
    BY <2>2, <2>3, <2>4, <2>5
<1>6. FdOf(w)'
  BY <1>3, <1>4, <1>5, WriterFacts DEF FdOf
<1>7. ASSUME fd_reader[w] # NoReader PROVE StreamInv(w, fd_reader[w])'
  <2>1. /\ StreamInv(w, fd_reader[w])
        /\ pc'[fd_reader[w]] = pc[fd_reader[w]]
    BY <1>4, <1>7, WriterFacts DEF Procs
  <2>2. QED
    BY <1>3, <1>4, <1>5, <2>1 DEF StreamInv, StreamOf, Ended
<1>8. QED
  BY <1>1, <1>2, <1>3, <1>6, <1>7, WriterMoves

(* A step of a reader that reads nothing.                                  *)
LEMMA ReaderQuiet ==
  ASSUME IInv, NEW r \in Readers,
         \/ R_Create(r) \/ R_BrokenPipe(r) \/ R_Poll(r)
         \/ R_TimesOut(r) \/ R_GiveUp(r) \/ R_End(r) \/ Kill(r)
  PROVE  IInv'
<1>1. PICK to \in ReaderAt : pc' = [pc EXCEPT ![r] = to]
  BY ReaderFacts, LeaveEffect
     DEF R_Create, R_BrokenPipe, R_Poll, R_TimesOut, R_GiveUp, R_End, Kill,
         Goto, ReaderAt, Ended
<1>2. conn' \in {<<>>, conn}
  BY LeaveEffect
     DEF R_Create, R_BrokenPipe, R_Poll, R_TimesOut, R_GiveUp, R_End, Kill
<1>3. UNCHANGED <<pipe, pid_r, fd_reader, sent, out, lost>>
  BY DEF R_Create, R_BrokenPipe, R_Poll, R_TimesOut, R_GiveUp, R_End, Kill
<1>4. /\ pc'[r] = to
      /\ \A q \in Procs \ {r} : pc'[q] = pc[q]
  BY <1>1, ReaderFacts, GotoEffect
<1>5. \/ pc[r] = "create" /\ to = "openConn"
      \/ pc[r] = "sendPid" /\ to = "killed"
      \/ pc[r] = "poll" /\ to = "greeting" /\ (pipe[r] # <<>> \/ HungUp(r))
      \/ pc[r] = "poll" /\ to = "late"
      \/ pc[r] = "late" /\ to = "failed"
      \/ pc[r] = "read" /\ to = "done" /\ pipe[r] = <<>> /\ PersWriters(r) = {}
      \/ to = "killed"
  BY <1>4, ReaderFacts, LeaveEffect, GotoEffect
     DEF R_Create, R_BrokenPipe, R_Poll, R_TimesOut, R_GiveUp, R_End, Kill,
         Goto, ReaderAt, Ended
<1>6. pc[r] \notin Unsent => to \notin Unsent
  BY <1>5 DEF Unsent
<1>7. Unopened(r) => to \notin {"greeting", "read", "done"}
  BY <1>5, ReaderFacts DEF Unopened, Fresh, HungUp
<1>8. ASSUME NEW w \in Writers, fd_reader[w] = r PROVE StreamInv(w, r)'
  <2>1. StreamInv(w, r) /\ pc'[w] = pc[w] /\ pc[w] \in WriterAt
    BY <1>4, <1>8, ReaderFacts, WriterFacts DEF Procs
  <2>2. HungUp(r) => pc[w] \in Ended
    BY <1>8, ReaderFacts DEF HungUp
  <2>3. PersWriters(r) = {} => pc[w] \in Ended
    BY <1>8 DEF PersWriters
  <2>4. /\ pipe[r] # <<>> => Len(pipe[r]) # 0
        /\ pipe[r] = <<>> => Len(pipe[r]) = 0
        /\ Len(pipe[r]) \in Nat /\ Len(out[r]) \in Nat /\ sent[w] \in Nat
        /\ out[r] = <<>> => Len(out[r]) = 0
    BY DEF IInv, TypeInv
  <2>5. StreamOf(w, pc[w], pc[r], pipe[r], out[r], sent[w])
    BY <2>1 DEF StreamInv
  <2>6. StreamOf(w, pc[w], to, pipe[r], out[r], sent[w])
    <3>1. CASE to \in {"openConn", "killed"}
      BY <2>4, <2>5, <3>1 DEF StreamOf
    <3>2. CASE pc[r] = "poll" /\ to = "greeting"
      BY <1>5, <2>2, <2>4, <2>5, <3>2 DEF StreamOf, Ended
    <3>3. CASE to \in {"late", "failed"}
      <4>1. pc[r] \in {"poll", "late"}
        BY <1>5, <3>3
      <4>2. QED
        BY <2>5, <3>3, <4>1 DEF StreamOf
    <3>4. CASE pc[r] = "read" /\ to = "done"
      BY <1>5, <2>3, <2>4, <2>5, <3>4 DEF StreamOf, Ended
    <3>5. \/ to \in {"openConn", "killed"}
          \/ pc[r] = "poll" /\ to = "greeting"
          \/ to \in {"late", "failed"}
          \/ pc[r] = "read" /\ to = "done"
      BY <1>5
    <3>6. QED
      BY ONLY <3>1, <3>2, <3>3, <3>4, <3>5
  <2>7. QED
    BY <1>3, <1>4, <2>1, <2>6 DEF StreamInv
<1>9. QED
  BY <1>1, <1>2, <1>3, <1>6, <1>7, <1>8, ReaderMoves

(* open() of connFIFO lets others through who have sent and read nothing.  *)
LEMMA OpenConnKeeps ==
  ASSUME IInv,
         \/ \E w \in Writers : W_OpenConn(w)
         \/ \E r \in Readers : R_OpenConn(r)
  PROVE  IInv'
<1>1. UNCHANGED <<conn, pipe, pid_r, fd_reader, sent, out, lost>>
  BY DEF W_OpenConn, R_OpenConn, OpenConn
<1>2. \A p \in Procs : /\ p \in Readers <=> p \notin Writers
                       /\ p \in Readers => pc[p] \in ReaderAt
                       /\ p \in Writers => pc[p] \in WriterAt
  BY DEF IInv, TypeInv, Procs
<1> DEFINE ReaderOpens(r) == /\ pc[r] \in {"openConn", "waitConn"}
                             /\ pc'[r] \in {"waitConn", "sendPid"}
           WriterOpens(w) == /\ pc[w] \in {"openConn", "waitConn"}
                             /\ pc'[w] \in {"waitConn", "readPid"}
<1>3. /\ DOMAIN pc' = Procs /\ pc' = [p \in Procs |-> pc'[p]]
      /\ \A r \in Readers : pc'[r] = pc[r] \/ ReaderOpens(r)
      /\ \A w \in Writers : pc'[w] = pc[w] \/ WriterOpens(w)
  <2>1. ASSUME NEW p \in Writers, W_OpenConn(p)
        PROVE  <1>3!:
    <3>1. pc[p] = "openConn" /\ ConnWriters \subseteq Readers /\ p \in Procs
      BY <2>1 DEF W_OpenConn, OpenConn, ConnWriters, Procs
    <3>2. pc' = [q \in Procs |->
             CASE q = p -> IF ConnWriters = {} THEN "waitConn" ELSE "readPid"
               [] q \in ConnWriters /\ pc[q] = "waitConn" -> "sendPid"
               [] OTHER -> pc[q]]
      BY <2>1 DEF W_OpenConn, OpenConn
    <3>3. QED
      BY <1>2, <3>1, <3>2 DEF Procs
  <2>2. ASSUME NEW p \in Readers, R_OpenConn(p)
        PROVE  <1>3!:
    <3>1. pc[p] = "openConn" /\ ConnReaders \subseteq Writers /\ p \in Procs
      BY <2>2 DEF R_OpenConn, OpenConn, ConnReaders, Procs
    <3>2. pc' = [q \in Procs |->
             CASE q = p -> IF ConnReaders = {} THEN "waitConn" ELSE "sendPid"
               [] q \in ConnReaders /\ pc[q] = "waitConn" -> "readPid"
               [] OTHER -> pc[q]]
      BY <2>2 DEF R_OpenConn, OpenConn
    <3>3. QED
      BY <1>2, <3>1, <3>2 DEF Procs
  <2>3. QED
    BY <2>1, <2>2
<1>4. TypeInv'
  BY <1>1, <1>2, <1>3 DEF IInv, TypeInv, ReaderAt, WriterAt, Procs
<1>5. /\ \A r \in Readers : pc[r] \notin Unsent => pc'[r] = pc[r]
      /\ \A v \in Writers : pid_r[v] \in Readers \cup {NoReader}
      /\ \A i \in 1..Len(conn) : conn[i] \in Readers
  BY <1>3 DEF IInv, TypeInv, Unsent
<1>6. PidInv'
  BY <1>1, <1>5 DEF IInv, PidInv
<1>7. FdInv'
  BY <1>1, <1>3 DEF IInv, FdInv, FdOf
<1>8. PipeInv'
  <2>1. ASSUME NEW r \in Readers, NEW w \in Writers, fd_reader[w] = r
        PROVE  StreamInv(w, r)'
    <3>1. pc'[w] = pc[w]
      BY <1>3, <2>1 DEF IInv, FdInv, FdOf
    <3>2. pc'[r] = pc[r]
      BY <1>5, <2>1 DEF IInv, FdInv, FdOf, PidInv
    <3>3. QED
      BY <1>1, <2>1, <3>1, <3>2 DEF IInv, PipeInv, StreamInv
  <2>2. ASSUME NEW r \in Readers, Unopened(r) PROVE Fresh(r)'
    BY <1>1, <1>3, <2>2 DEF IInv, PipeInv, Fresh
  <2>3. QED
    BY <1>1, <2>1, <2>2 DEF PipeInv, Unopened
<1>9. QED
  BY <1>4, <1>6, <1>7, <1>8 DEF IInv

(* The pid a writer reads leaves connFIFO.                                 *)
LEMMA ReadPidKeeps ==
  ASSUME IInv, NEW w \in Writers, W_ReadPid(w)
  PROVE  IInv'
<1>1. /\ conn # <<>> /\ conn \in Seq(Readers)
      /\ pc[w] = "readPid" /\ pc' = [pc EXCEPT ![w] = "openPers"]
      /\ pid_r' = [pid_r EXCEPT ![w] = Head(conn)]
      /\ conn' = Tail(conn)
      /\ UNCHANGED <<pipe, fd_reader, sent, out, lost>>
  BY DEF W_ReadPid, Goto, IInv, TypeInv
<1>2. "openPers" \in WriterAt
  BY DEF WriterAt
<1>3. /\ pc' \in [Procs -> ReaderAt \cup WriterAt] /\ pc'[w] = "openPers"
      /\ \A q \in Procs \ {w} : pc'[q] = pc[q]
  BY <1>1, <1>2, WriterFacts, GotoEffect
<1>4. /\ Head(conn) \in Readers /\ Head(conn) = conn[1] /\ 1 \in 1..Len(conn)
      /\ conn' \in Seq(Readers)
      /\ \A i \in 1..Len(conn') : /\ i + 1 \in 1..Len(conn) /\ i + 1 # 1
                                  /\ conn'[i] = conn[i + 1]
  BY <1>1, TailFacts
<1>5. /\ pid_r' \in [Writers -> Readers \cup {NoReader}]
      /\ pid_r'[w] = conn[1]
      /\ \A v \in Writers \ {w} : pid_r'[v] = pid_r[v]
  BY <1>1, <1>4 DEF IInv, TypeInv
<1>6. TypeInv'
  BY <1>1, <1>2, <1>3, <1>4, <1>5 DEF IInv, TypeInv, Procs
<1>7. /\ \A r \in Readers : pc'[r] = pc[r]
      /\ \A i \in 1..Len(conn) : conn[i] \in Readers
      /\ \A v \in Writers : pid_r[v] \in Readers \cup {NoReader}
  BY <1>1, <1>3 DEF Procs, IInv, TypeInv
<1>8. PidInv'
  <2>1. \A i, j \in 1..Len(conn') : conn'[i] = conn'[j] => i = j
    BY <1>4 DEF IInv, PidInv
  <2>2. \A i \in 1..Len(conn') : pc'[conn'[i]] \notin Unsent
    BY <1>4, <1>7 DEF IInv, PidInv
  <2>3. ASSUME NEW v \in Writers, pid_r'[v] # NoReader
        PROVE  /\ pc'[pid_r'[v]] \notin Unsent
               /\ \A i \in 1..Len(conn') : conn'[i] # pid_r'[v]
    <3>1. CASE v = w
      BY <1>4, <1>5, <1>7, <3>1, SMTT(30) DEF IInv, PidInv
    <3>2. CASE v # w
      BY <1>4, <1>5, <1>7, <2>3, <3>2 DEF IInv, PidInv
    <3>3. QED
      BY <3>1, <3>2
  <2>4. ASSUME NEW u \in Writers, NEW v \in Writers,
               pid_r'[u] # NoReader, pid_r'[u] = pid_r'[v]
        PROVE  u = v
    BY <1>4, <1>5, <2>4 DEF IInv, PidInv
  <2>5. QED
    BY <2>1, <2>2, <2>3, <2>4 DEF PidInv
<1>9. FdInv'
  BY <1>1, <1>3, <1>4, <1>5 DEF IInv, FdInv, FdOf, Procs
<1>10. PipeInv'
  BY <1>1, <1>3, WriterFacts, LoneWriterFrame DEF FdOf
<1>11. QED
  BY <1>6, <1>8, <1>9, <1>10 DEF IInv

(* A reader's pid has not been in connFIFO before.                         *)
LEMMA SendPidKeeps ==
  ASSUME IInv, NEW r \in Readers, R_SendPid(r)
  PROVE  IInv'
<1>1. /\ conn \in Seq(Readers) /\ Len(conn) \in Nat
      /\ pc[r] = "sendPid" /\ pc' = [pc EXCEPT ![r] = "poll"]
      /\ conn' = Append(conn, r)
      /\ UNCHANGED <<pipe, pid_r, fd_reader, sent, out, lost>>
  BY DEF R_SendPid, Goto, IInv, TypeInv
<1>2. "poll" \in ReaderAt /\ "sendPid" \in Unsent /\ "poll" \notin Unsent
  BY DEF ReaderAt, Unsent
<1>3. /\ pc' \in [Procs -> ReaderAt \cup WriterAt] /\ pc'[r] = "poll"
      /\ \A q \in Procs \ {r} : pc'[q] = pc[q]
  BY <1>1, <1>2, ReaderFacts, GotoEffect
<1>4. /\ conn' \in Seq(Readers)
      /\ Len(conn') = Len(conn) + 1
      /\ \A i \in 1..Len(conn) : conn'[i] = conn[i]
      /\ conn'[Len(conn) + 1] = r
      /\ \A i \in 1..Len(conn') : i \in 1..Len(conn) \/ i = Len(conn) + 1
  BY <1>1, AppendFacts
<1>5. TypeInv'
  BY <1>1, <1>2, <1>3, <1>4 DEF IInv, TypeInv, Procs
<1>6. /\ \A i \in 1..Len(conn) : conn[i] # r
      /\ \A w \in Writers : pid_r[w] # r
  <2>1. PidInv /\ pc[r] \in Unsent
    BY <1>1, <1>2 DEF IInv
  <2>2. r # NoReader
    BY RolesAssumption
  <2> QED BY ONLY <2>1, <2>2 DEF PidInv
<1>7. /\ \A q \in Readers : pc[q] \notin Unsent => pc'[q] \notin Unsent
      /\ \A i \in 1..Len(conn) : conn[i] \in Readers
      /\ \A v \in Writers : pid_r[v] \in Readers \cup {NoReader}
      /\ pc'[r] \notin Unsent
  BY <1>1, <1>2, <1>3 DEF Procs, IInv, TypeInv
<1>8. PidInv'
  <2>1. \A i, j \in 1..Len(conn') : conn'[i] = conn'[j] => i = j
    BY <1>4, <1>6 DEF IInv, PidInv
  <2>2. \A i \in 1..Len(conn') : pc'[conn'[i]] \notin Unsent
    BY <1>4, <1>7 DEF IInv, PidInv
  <2>3. ASSUME NEW v \in Writers, pid_r[v] # NoReader
        PROVE  /\ pc'[pid_r[v]] \notin Unsent
               /\ \A i \in 1..Len(conn') : conn'[i] # pid_r[v]
    BY <1>4, <1>6, <1>7, <2>3 DEF IInv, PidInv
  <2>4. QED
    BY <1>1, <2>1, <2>2, <2>3 DEF IInv, PidInv
<1>9. FdInv'
  BY <1>1, <1>3, ReaderFacts DEF IInv, FdInv, FdOf, Procs
<1>10. Unopened(r)
  BY <1>6 DEF Unopened, IInv, FdInv, FdOf
<1>11. PipeInv'
  BY <1>1, <1>3, <1>10, LoneReaderFrame
<1>12. QED
  BY <1>5, <1>8, <1>9, <1>11 DEF IInv

(* Nothing has been sent yet to the reader whose FIFO a writer opens.      *)
LEMMA OpenPersKeeps ==
  ASSUME IInv, NEW w \in Writers, W_OpenPers(w)
  PROVE  IInv'
<1>1. /\ pc[w] = "openPers" /\ pc' = [pc EXCEPT ![w] = "greet"]
      /\ fd_reader' = [fd_reader EXCEPT ![w] = pid_r[w]]
      /\ pc[pid_r[w]] \notin Ended
      /\ UNCHANGED <<conn, pipe, pid_r, sent, out, lost>>
      /\ "greet" \in WriterAt
  BY DEF W_OpenPers, Goto, WriterAt
<1>2. /\ pc' \in [Procs -> ReaderAt \cup WriterAt] /\ pc'[w] = "greet"
      /\ \A q \in Procs \ {w} : pc'[q] = pc[q]
  BY <1>1, WriterFacts, GotoEffect
<1>3. PICK r \in Readers : pid_r[w] = r
  BY <1>1, WriterFacts DEF FdOf
<1>4. /\ fd_reader[w] = NoReader /\ sent[w] = 0
      /\ r # NoReader /\ r \in Procs \ {w}
  BY <1>1, WriterFacts DEF FdOf, Procs
<1>5. /\ fd_reader' \in [Writers -> Readers \cup {NoReader}]
      /\ fd_reader'[w] = r
      /\ \A v \in Writers \ {w} : fd_reader'[v] = fd_reader[v]
  BY <1>1, <1>3 DEF IInv, TypeInv
<1>6. \A v \in Writers : fd_reader[v] # r
  BY <1>3, <1>4 DEF IInv, FdInv, FdOf, PidInv
<1>7. TypeInv'
  BY <1>1, <1>2, <1>5 DEF IInv, TypeInv, Procs
<1>8. /\ \A q \in Readers : pc'[q] = pc[q]
      /\ \A i \in 1..Len(conn) : conn[i] \in Readers
      /\ \A v \in Writers : pid_r[v] \in Readers \cup {NoReader}
  BY <1>2 DEF Procs, IInv, TypeInv
<1>9. PidInv'
  BY <1>1, <1>8 DEF IInv, PidInv
<1>10. FdInv'
  BY <1>1, <1>2, <1>3, <1>4, <1>5 DEF IInv, FdInv, FdOf, Procs
<1>11. PipeInv'
  <2>1. ASSUME NEW q \in Readers, NEW v \in Writers, fd_reader'[v] = q
        PROVE  StreamInv(v, q)'
    <3>1. CASE v # w
      <4>1. /\ StreamInv(v, q) /\ v \in Procs \ {w} /\ q \in Procs \ {w}
        BY <1>5, <2>1, <3>1 DEF IInv, PipeInv, Procs
      <4>2. QED
        BY <1>1, <1>2, <4>1 DEF StreamInv
    <3>2. CASE v = w
      <4>1. q = r /\ Fresh(r) /\ pc[r] \in ReaderAt
        BY <1>5, <1>6, <2>1, <3>2, ReaderFacts DEF Unopened
      <4>2. pipe[r] = <<>> /\ out[r] = <<>>
        BY <4>1 DEF Fresh
      <4>3. pc[r] \notin Ended /\ pc[r] \notin {"greeting", "read", "done"}
        BY <1>1, <1>3, <4>1 DEF Fresh
      <4>4. StreamOf(w, "greet", pc[r], <<>>, <<>>, 0)
        BY <4>3 DEF StreamOf, Ended
      <4>5. QED
        BY <1>1, <1>2, <1>4, <1>8, <3>2, <4>1, <4>2, <4>4 DEF StreamInv
    <3>3. QED
      BY <3>1, <3>2
  <2>2. ASSUME NEW q \in Readers, Unopened(q)' PROVE Fresh(q)'
    <3>1. Unopened(q)
      BY <1>4, <1>5, <2>2 DEF Unopened
    <3>2. Fresh(q)
      BY <3>1 DEF IInv, PipeInv
    <3>3. QED
      BY <1>1, <1>8, <3>2 DEF Fresh
  <2>3. QED
    BY <2>1, <2>2 DEF PipeInv
<1>12. QED
  BY <1>7, <1>9, <1>10, <1>11 DEF IInv

(* How the FIFO changes.                                                   *)
LEMMA AppendIsAppended ==
  ASSUME NEW S, NEW s \in Seq(S), NEW e \in S
  PROVE  Appended(s, Append(s, e), e)
  BY DEF Appended

LEMMA TailIsBeheaded ==
  ASSUME NEW S, NEW s \in Seq(S), s # <<>>
  PROVE  Beheaded(s, Tail(s)) /\ Head(s) = s[1]
  BY DEF Beheaded

(* What a step does to the stream of a writer: the greeting is sent, a     *)
(* block is sent, the greeting is taken off, a block is printed.           *)
LEMMA GreetStream ==
  ASSUME NEW w, NEW p, NEW q, NEW o, NEW n \in Nat,
         NEW at \in {"poll", "greeting", "late", "read"},
         Len(o) \in Nat, Appended(p, q, <<w, 0>>),
         StreamOf(w, "greet", at, p, o, n)
  PROVE  StreamOf(w, "openFile", at, q, o, n)
<1> USE DEF Appended
<1>1. at \in {"poll", "late"}
  BY DEF StreamOf
<1>2. /\ o = <<>> /\ Len(p) = 0 /\ n = 0 /\ Len(o) <= n
      /\ \A i \in 1..Len(o) : o[i] = <<w, i>>
  BY <1>1 DEF StreamOf
<1>3. /\ Len(q) = n + 1
      /\ \A i \in 1..Len(q) : i = 1
  BY <1>2
<1>4. \A i \in 1..Len(q) : q[i] = <<w, i - 1>>
  BY <1>2, <1>3
<1>5. QED
  BY <1>1, <1>2, <1>3, <1>4 DEF StreamOf, Ended

LEMMA CopyStream ==
  ASSUME NEW w, NEW p, NEW q, NEW o, NEW n, NEW m, NEW at,
         at \in {"poll", "greeting", "late", "read"},
         Len(o) \in Nat, n \in Nat, m = n + 1, Appended(p, q, <<w, m>>),
         StreamOf(w, "copy", at, p, o, n)
  PROVE  StreamOf(w, "copy", at, q, o, m)
<1> USE DEF Appended
<1>1. Len(o) <= n + 1 /\ \A i \in 1..Len(o) : o[i] = <<w, i>>
  BY DEF StreamOf
<1>2. CASE at # "read"
  <2>1. /\ o = <<>> /\ Len(p) = n + 1
        /\ \A i \in 1..Len(p) : p[i] = <<w, i - 1>>
    BY <1>2 DEF StreamOf
  <2>2. (Len(p) + 1) - 1 = n + 1 /\ Len(q) = (n + 1) + 1
    BY <2>1
  <2>3. \A i \in 1..Len(q) : q[i] = <<w, i - 1>>
    BY <2>1, <2>2
  <2>4. QED
    BY <1>1, <1>2, <2>1, <2>2, <2>3 DEF StreamOf, Ended
<1>3. CASE at = "read"
  <2>1. /\ Len(o) + Len(p) = n
        /\ \A i \in 1..Len(p) : p[i] = <<w, Len(o) + i>>
    BY <1>3 DEF StreamOf
  <2>2. /\ Len(o) + (Len(p) + 1) = n + 1
        /\ Len(o) + Len(q) = n + 1
    <3>1. Len(o) + Len(p) = n
      BY <2>1
    <3>2. Len(o) + (Len(p) + 1) = n + 1
      BY <3>1
    <3>3. QED
      BY <3>2
  <2>3. \A i \in 1..Len(q) : q[i] = <<w, Len(o) + i>>
    BY <2>1, <2>2
  <2>4. QED
    BY <1>1, <1>3, <2>1, <2>2, <2>3 DEF StreamOf, Ended
<1>4. QED
  BY <1>2, <1>3

LEMMA GreetingStream ==
  ASSUME NEW w, NEW p, NEW q, NEW o, NEW n \in Nat, NEW at,
         Len(o) \in Nat, Len(<<>>) = 0, Beheaded(p, q),
         StreamOf(w, at, "greeting", p, o, n)
  PROVE  StreamOf(w, at, "read", q, o, n)
<1> USE DEF Beheaded
<1>1. /\ o = <<>> /\ Len(p) = n + 1 /\ Len(o) <= n /\ at # "greet"
      /\ \A i \in 1..Len(p) : p[i] = <<w, i - 1>>
      /\ \A i \in 1..Len(o) : o[i] = <<w, i>>
  BY DEF StreamOf
<1>2. Len(o) = 0 /\ Len(q) = n /\ Len(o) + Len(q) = n
  BY <1>1
<1>3. ASSUME NEW i \in 1..Len(q) PROVE q[i] = <<w, Len(o) + i>>
  <2>1. q[i] = <<w, (i + 1) - 1>>
    BY <1>1
  <2>2. (i + 1) - 1 = Len(o) + i
    BY <1>2
  <2>3. QED
    BY <2>1, <2>2
<1>4. QED
  BY <1>1, <1>2, <1>3 DEF StreamOf

LEMMA ReadStream ==
  ASSUME NEW w, NEW p, NEW q, NEW o, NEW u, NEW n \in Nat, NEW at,
         Beheaded(p, q), Appended(o, u, p[1]),
         StreamOf(w, at, "read", p, o, n)
  PROVE  StreamOf(w, at, "read", q, u, n)
<1> USE DEF Appended, Beheaded
<1>1. /\ Len(o) + Len(p) = n /\ at # "greet"
      /\ \A i \in 1..Len(p) : p[i] = <<w, Len(o) + i>>
      /\ \A i \in 1..Len(o) : o[i] = <<w, i>>
  BY DEF StreamOf
<1>2. Len(u) + Len(q) = n /\ Len(u) <= n
  BY <1>1
<1>3. ASSUME NEW i \in 1..Len(q) PROVE q[i] = <<w, Len(u) + i>>
  <2>1. q[i] = <<w, Len(o) + (i + 1)>>
    BY <1>1
  <2>2. Len(o) + (i + 1) = Len(u) + i
    OBVIOUS
  <2>3. QED
    BY <2>1, <2>2
<1>4. \A i \in 1..Len(u) : u[i] = <<w, i>>
  BY <1>1
<1>5. QED
  BY <1>1, <1>2, <1>3, <1>4 DEF StreamOf

(* What Put does to the FIFO of the reader that w has opened.              *)
LEMMA PutEffect ==
  ASSUME IInv, NEW w \in Writers, fd_reader[w] # NoReader,
         NEW n \in 0..FileLen[w], Put(w, n)
  PROVE  \E r \in Readers :
           /\ fd_reader[w] = r /\ pc[r] \notin Ended
           /\ pipe' \in [Readers -> Seq(Blocks)]
           /\ Appended(pipe[r], pipe'[r], <<w, n>>)
           /\ Len(pipe'[r]) <= Capacity
           /\ \A q \in Readers \ {r} : pipe'[q] = pipe[q]
<1>1. PICK r \in Readers : fd_reader[w] = r
  BY WriterFacts
<1>2. /\ pc[r] \notin Ended /\ Len(pipe[r]) < Capacity
      /\ pipe' = [pipe EXCEPT ![r] = Append(pipe[r], <<w, n>>)]
  BY <1>1 DEF Put
<1>3. /\ pipe \in [Readers -> Seq(Blocks)] /\ pipe[r] \in Seq(Blocks)
      /\ <<w, n>> \in Blocks /\ Len(pipe[r]) \in Nat
  BY DEF IInv, TypeInv, Blocks
<1>4. Append(pipe[r], <<w, n>>) \in Seq(Blocks)
  BY <1>3, AppendFacts
<1>5. /\ pipe' \in [Readers -> Seq(Blocks)]
      /\ pipe'[r] = Append(pipe[r], <<w, n>>)
      /\ \A q \in Readers \ {r} : pipe'[q] = pipe[q]
  BY <1>2, <1>3, <1>4
<1>6. Appended(pipe[r], pipe'[r], <<w, n>>)
  BY <1>3, <1>5, AppendIsAppended
<1>7. Len(pipe'[r]) <= Capacity
  BY <1>2, <1>3, <1>6 DEF Appended
<1>8. QED
  BY <1>1, <1>2, <1>5, <1>6, <1>7

(* The greeting is the first thing in the FIFO.                            *)
LEMMA GreetKeeps ==
  ASSUME IInv, NEW w \in Writers, W_Greet(w)
  PROVE  IInv'
<1>1. /\ pc[w] = "greet" /\ pc' = [pc EXCEPT ![w] = "openFile"]
      /\ UNCHANGED <<conn, pid_r, fd_reader, out, lost>>
      /\ "openFile" \in WriterAt
  BY DEF W_Greet, Goto, WriterAt
<1>2. /\ pc' \in [Procs -> ReaderAt \cup WriterAt] /\ pc'[w] = "openFile"
      /\ \A q \in Procs \ {w} : pc'[q] = pc[q]
  BY <1>1, WriterFacts, GotoEffect
<1>3. fd_reader[w] # NoReader
  BY <1>1, WriterFacts DEF FdOf
<1>4. UNCHANGED sent
  BY DEF W_Greet
<1>5. PICK r \in Readers :
        /\ fd_reader[w] = r /\ pc[r] \notin Ended
        /\ pipe' \in [Readers -> Seq(Blocks)]
        /\ Appended(pipe[r], pipe'[r], <<w, 0>>) /\ Len(pipe'[r]) <= Capacity
        /\ \A q \in Readers \ {r} : pipe'[q] = pipe[q]
  <2>1. 0 \in 0..FileLen[w] /\ Put(w, 0)
    BY <1>4 DEF W_Greet
  <2>2. QED
    BY <1>3, <2>1, PutEffect
<1>6. TypeInv'
  <2>1. \A q \in Readers : Len(pipe'[q]) <= Capacity
    BY <1>5 DEF IInv, TypeInv
  <2>2. /\ sent' \in [Writers -> Nat]
        /\ \A v \in Writers : sent'[v] <= FileLen[v]
    BY <1>4 DEF IInv, TypeInv
  <2>3. /\ \A q \in Readers : pc'[q] \in ReaderAt
        /\ \A v \in Writers : pc'[v] \in WriterAt
    BY <1>1, <1>2 DEF IInv, TypeInv, Procs
  <2>4. QED
    BY <1>1, <1>2, <1>5, <2>1, <2>2, <2>3 DEF IInv, TypeInv
<1>7. /\ \A q \in Readers : pc'[q] = pc[q]
      /\ \A i \in 1..Len(conn) : conn[i] \in Readers
      /\ \A v \in Writers : pid_r[v] \in Readers \cup {NoReader}
  BY <1>2 DEF Procs, IInv, TypeInv
<1>8. PidInv'
  BY <1>1, <1>7 DEF IInv, PidInv
<1>9. FdInv'
  BY <1>1, <1>2, <1>3, <1>4 DEF IInv, FdInv, FdOf, Procs
<1>10. PipeInv'
  <2>1. /\ StreamOf(w, "greet", pc[r], pipe[r], out[r], sent[w])
        /\ pc[r] \in ReaderAt /\ pc[r] \notin Unsent
        /\ Len(pipe[r]) \in Nat /\ Len(out[r]) \in Nat /\ sent[w] \in Nat
    <3>1. StreamInv(w, r) /\ pc[r] \in ReaderAt
      BY <1>5, ReaderFacts
    <3>2. pc[r] \notin Unsent
      BY <1>3, <1>5 DEF IInv, FdInv, FdOf, PidInv
    <3>3. QED
      BY <1>1, <3>1, <3>2 DEF StreamInv, IInv, TypeInv
  <2>2. pc[r] \in {"poll", "greeting", "late", "read"}
    BY <1>5, <2>1 DEF ReaderAt, Unsent
  <2>3. StreamOf(w, "openFile", pc[r], pipe'[r], out[r], sent'[w])
    <3>1. StreamOf(w, "openFile", pc[r], pipe'[r], out[r], sent[w])
      <4>1. /\ Appended(pipe[r], pipe'[r], <<w, 0>>)
            /\ StreamOf(w, "greet", pc[r], pipe[r], out[r], sent[w])
            /\ Len(out[r]) \in Nat /\ sent[w] \in Nat
        BY <1>5, <2>1
      <4>2. QED
        BY ONLY <4>1, <2>2, GreetStream, Zenon
    <3>2. QED
      BY <1>4, <3>1
  <2>4. StreamInv(w, r)'
    BY <1>1, <1>2, <1>7, <2>3 DEF StreamInv
  <2>5. QED
    BY <1>1, <1>2, <1>4, <1>5, <2>4, PairFrame
<1>11. QED
  BY <1>6, <1>8, <1>9, <1>10 DEF IInv

(* A block goes behind those that were sent before.                        *)
LEMMA CopyKeeps ==
  ASSUME IInv, NEW w \in Writers, W_Copy(w)
  PROVE  IInv'
<1>1. /\ pc[w] = "copy" /\ pc' = [pc EXCEPT ![w] = "copy"]
      /\ UNCHANGED <<conn, pid_r, fd_reader, out, lost>>
      /\ "copy" \in WriterAt
  BY DEF W_Copy, Goto, WriterAt
<1>2. /\ pc' \in [Procs -> ReaderAt \cup WriterAt] /\ pc'[w] = "copy"
      /\ \A q \in Procs \ {w} : pc'[q] = pc[q]
  BY <1>1, WriterFacts, GotoEffect
<1>3. fd_reader[w] # NoReader
  BY <1>1, WriterFacts DEF FdOf
<1>4. /\ sent' \in [Writers -> Nat] /\ sent'[w] = sent[w] + 1
      /\ sent[w] \in Nat /\ sent[w] + 1 \in Nat /\ sent[w] + 1 <= FileLen[w]
      /\ \A v \in Writers \ {w} : sent'[v] = sent[v]
  BY DEF W_Copy, IInv, TypeInv
<1>5. PICK r \in Readers :
        /\ fd_reader[w] = r /\ pc[r] \notin Ended
        /\ pipe' \in [Readers -> Seq(Blocks)]
        /\ Appended(pipe[r], pipe'[r], <<w, sent[w] + 1>>)
        /\ Len(pipe'[r]) <= Capacity
        /\ \A q \in Readers \ {r} : pipe'[q] = pipe[q]
  <2>1. sent[w] + 1 \in 0..FileLen[w] /\ Put(w, sent[w] + 1)
    BY <1>4 DEF W_Copy
  <2>2. QED
    BY <1>3, <2>1, PutEffect
<1>6. TypeInv'
  <2>1. \A q \in Readers : Len(pipe'[q]) <= Capacity
    BY <1>5 DEF IInv, TypeInv
  <2>2. /\ sent' \in [Writers -> Nat]
        /\ \A v \in Writers : sent'[v] <= FileLen[v]
    BY <1>4 DEF IInv, TypeInv
  <2>3. /\ \A q \in Readers : pc'[q] \in ReaderAt
        /\ \A v \in Writers : pc'[v] \in WriterAt
    BY <1>1, <1>2 DEF IInv, TypeInv, Procs
  <2>4. QED
    BY <1>1, <1>2, <1>5, <2>1, <2>2, <2>3 DEF IInv, TypeInv
<1>7. /\ \A q \in Readers : pc'[q] = pc[q]
      /\ \A i \in 1..Len(conn) : conn[i] \in Readers
      /\ \A v \in Writers : pid_r[v] \in Readers \cup {NoReader}
  BY <1>2 DEF Procs, IInv, TypeInv
<1>8. PidInv'
  BY <1>1, <1>7 DEF IInv, PidInv
<1>9. FdInv'
  BY <1>1, <1>2, <1>3, <1>4 DEF IInv, FdInv, FdOf, Procs
<1>10. PipeInv'
  <2>1. /\ StreamOf(w, "copy", pc[r], pipe[r], out[r], sent[w])
        /\ pc[r] \in ReaderAt /\ pc[r] \notin Unsent
        /\ Len(pipe[r]) \in Nat /\ Len(out[r]) \in Nat /\ sent[w] \in Nat
    <3>1. StreamInv(w, r) /\ pc[r] \in ReaderAt
      BY <1>5, ReaderFacts
    <3>2. pc[r] \notin Unsent
      BY <1>3, <1>5 DEF IInv, FdInv, FdOf, PidInv
    <3>3. QED
      BY <1>1, <3>1, <3>2 DEF StreamInv, IInv, TypeInv
  <2>2. pc[r] \in {"poll", "greeting", "late", "read"}
    BY <1>5, <2>1 DEF ReaderAt, Unsent
  <2>3. StreamOf(w, "copy", pc[r], pipe'[r], out[r], sent'[w])
    <3>1. /\ Appended(pipe[r], pipe'[r], <<w, sent'[w]>>)
          /\ StreamOf(w, "copy", pc[r], pipe[r], out[r], sent[w])
          /\ Len(out[r]) \in Nat /\ sent[w] \in Nat
          /\ sent'[w] = sent[w] + 1
      BY <1>4, <1>5, <2>1
    <3>2. QED
      BY <2>2, <3>1, CopyStream
  <2>4. StreamInv(w, r)'
    BY <1>1, <1>2, <1>7, <2>3 DEF StreamInv
  <2>5. QED
    BY <1>1, <1>2, <1>4, <1>5, <2>4, PairFrame
<1>11. QED
  BY <1>6, <1>8, <1>9, <1>10 DEF IInv

(* The greeting is taken off, or is missing and so is the writer.          *)
LEMMA GreetingKeeps ==
  ASSUME IInv, NEW r \in Readers, R_Greeting(r)
  PROVE  IInv'
<1>1. /\ pc[r] = "greeting" /\ pc' = [pc EXCEPT ![r] = "read"]
      /\ UNCHANGED <<conn, pid_r, fd_reader, sent>>
      /\ "read" \in ReaderAt
  BY DEF R_Greeting, Goto, ReaderAt
<1>2. /\ pc' \in [Procs -> ReaderAt \cup WriterAt] /\ pc'[r] = "read"
      /\ \A q \in Procs \ {r} : pc'[q] = pc[q]
  BY <1>1, ReaderFacts, GotoEffect
<1>3. /\ UNCHANGED out /\ Len(out[r]) \in Nat /\ Len(pipe[r]) \in Nat
      /\ pipe[r] \in Seq(Blocks)
      /\ pipe[r] = <<>> <=> Len(pipe[r]) = 0
  BY DEF R_Greeting, IInv, TypeInv
<1>4. /\ pipe' \in [Readers -> Seq(Blocks)]
      /\ pipe'[r] = IF pipe[r] = <<>> THEN pipe[r] ELSE Tail(pipe[r])
      /\ \A q \in Readers \ {r} : pipe'[q] = pipe[q]
      /\ Len(pipe'[r]) <= Len(pipe[r]) /\ Len(pipe'[r]) \in Nat
  <2>1. pipe[r] # <<>> => /\ Tail(pipe[r]) \in Seq(Blocks)
                          /\ Len(Tail(pipe[r])) <= Len(pipe[r])
                          /\ Len(Tail(pipe[r])) \in Nat
    BY <1>3, TailFacts
  <2>2. QED
    BY <1>3, <2>1 DEF R_Greeting, IInv, TypeInv
<1>5. TypeInv'
  <2>1. /\ Len(pipe[r]) <= Capacity /\ Len(pipe[r]) \in Nat
        /\ Len(pipe'[r]) <= Len(pipe[r]) /\ Len(pipe'[r]) \in Nat
    BY <1>4 DEF IInv, TypeInv
  <2>2. Len(pipe'[r]) <= Capacity
    BY <2>1
  <2>3. \A q \in Readers : Len(pipe'[q]) <= Capacity
    BY <1>4, <2>2 DEF IInv, TypeInv
  <2>4. QED
    BY <1>1, <1>2, <1>3, <1>4, <2>3 DEF IInv, TypeInv, Procs
<1>6. /\ \A q \in Readers : pc[q] \notin Unsent => pc'[q] \notin Unsent
      /\ \A i \in 1..Len(conn) : conn[i] \in Readers
      /\ \A v \in Writers : pid_r[v] \in Readers \cup {NoReader}
  BY <1>2 DEF Procs, Unsent, IInv, TypeInv
<1>7. PidInv'
  BY <1>1, <1>6 DEF IInv, PidInv
<1>8. FdInv'
  BY <1>1, <1>2, ReaderFacts DEF IInv, FdInv, FdOf, Procs
<1>9. PICK w \in Writers : fd_reader[w] = r
  BY <1>1, ReaderFacts DEF Unopened, Fresh
<1>10. /\ StreamOf(w, pc[w], "greeting", pipe[r], out[r], sent[w])
       /\ pc'[w] = pc[w] /\ pc[w] \in WriterAt /\ sent[w] \in Nat
       /\ FdOf(w)
  <2>1. StreamInv(w, r) /\ pc'[w] = pc[w]
    BY <1>2, <1>9, ReaderFacts, WriterFacts
  <2>2. QED
    BY <1>1, <2>1, WriterFacts DEF StreamInv, IInv, TypeInv
<1>11. StreamOf(w, pc[w], "read", pipe'[r], out'[r], sent[w])
  <2>1. CASE pipe[r] = <<>>
    BY <1>3, <1>4, <1>10, <2>1 DEF StreamOf, FdOf, WriterAt, Ended
  <2>2. CASE pipe[r] # <<>>
    <3>1. Beheaded(pipe[r], pipe'[r])
      BY <1>3, <1>4, <2>2, TailIsBeheaded
    <3>2. Len(<<>>) = 0
      OBVIOUS
    <3>3. QED
      BY <1>3, <1>10, <3>1, <3>2, GreetingStream
  <2>3. QED
    BY <2>1, <2>2
<1>12. PipeInv'
  <2>1. StreamInv(w, r)'
    BY <1>1, <1>2, <1>10, <1>11 DEF StreamInv
  <2>2. QED
    BY <1>1, <1>2, <1>3, <1>4, <1>9, <2>1, PairFrame
<1>13. QED
  BY <1>5, <1>7, <1>8, <1>12 DEF IInv

(* The block at the head of the FIFO is the one after those printed.       *)
LEMMA ReadKeeps ==
  ASSUME IInv, NEW r \in Readers, R_Read(r)
  PROVE  IInv'
<1>1. /\ pc[r] = "read" /\ pc' = [pc EXCEPT ![r] = "read"]
      /\ UNCHANGED <<conn, pid_r, fd_reader, sent>>
      /\ "read" \in ReaderAt
  BY DEF R_Read, Goto, ReaderAt
<1>2. /\ pc' \in [Procs -> ReaderAt \cup WriterAt] /\ pc'[r] = "read"
      /\ \A q \in Procs \ {r} : pc'[q] = pc[q]
  BY <1>1, ReaderFacts, GotoEffect
<1>3. /\ pipe[r] \in Seq(Blocks) /\ pipe[r] # <<>> /\ Len(pipe[r]) \in Nat
      /\ out[r] \in Seq(Blocks) /\ Head(pipe[r]) \in Blocks
      /\ Head(pipe[r]) = pipe[r][1]
  BY TailFacts DEF R_Read, IInv, TypeInv
<1>4. /\ pipe' \in [Readers -> Seq(Blocks)]
      /\ out' \in [Readers -> Seq(Blocks)]
      /\ Beheaded(pipe[r], pipe'[r]) /\ Appended(out[r], out'[r], pipe[r][1])
      /\ \A q \in Readers \ {r} : pipe'[q] = pipe[q] /\ out'[q] = out[q]
      /\ Len(pipe'[r]) <= Len(pipe[r]) /\ Len(pipe'[r]) \in Nat
  <2>1. /\ out' = [out EXCEPT ![r] = Append(out[r], Head(pipe[r]))]
        /\ pipe' = [pipe EXCEPT ![r] = Tail(pipe[r])]
    BY DEF R_Read
  <2>2. /\ Tail(pipe[r]) \in Seq(Blocks)
        /\ Append(out[r], Head(pipe[r])) \in Seq(Blocks)
    BY <1>3, TailFacts, AppendFacts
  <2>3. /\ pipe' \in [Readers -> Seq(Blocks)] /\ pipe'[r] = Tail(pipe[r])
        /\ out' \in [Readers -> Seq(Blocks)]
        /\ out'[r] = Append(out[r], Head(pipe[r]))
        /\ \A q \in Readers \ {r} : pipe'[q] = pipe[q] /\ out'[q] = out[q]
    BY <2>1, <2>2 DEF IInv, TypeInv
  <2>4. Beheaded(pipe[r], pipe'[r])
    BY <1>3, <2>3, TailIsBeheaded
  <2>5. Appended(out[r], out'[r], pipe[r][1])
    BY <1>3, <2>3, AppendIsAppended
  <2>6. Len(pipe'[r]) <= Len(pipe[r]) /\ Len(pipe'[r]) \in Nat
    BY <1>3, <2>3, TailFacts
  <2>7. QED
    BY <2>3, <2>4, <2>5, <2>6
<1>5. TypeInv'
  <2>1. /\ Len(pipe[r]) <= Capacity /\ Len(pipe[r]) \in Nat
        /\ Len(pipe'[r]) <= Len(pipe[r]) /\ Len(pipe'[r]) \in Nat
    BY <1>4 DEF IInv, TypeInv
  <2>2. Len(pipe'[r]) <= Capacity
    BY <2>1
  <2>3. \A q \in Readers : Len(pipe'[q]) <= Capacity
    BY <1>4, <2>2 DEF IInv, TypeInv
  <2>4. QED
    BY <1>1, <1>2, <1>3, <1>4, <2>3 DEF IInv, TypeInv, Procs
<1>6. /\ \A q \in Readers : pc[q] \notin Unsent => pc'[q] \notin Unsent
      /\ \A i \in 1..Len(conn) : conn[i] \in Readers
      /\ \A v \in Writers : pid_r[v] \in Readers \cup {NoReader}
  BY <1>2 DEF Procs, Unsent, IInv, TypeInv
<1>7. PidInv'
  BY <1>1, <1>6 DEF IInv, PidInv
<1>8. FdInv'
  BY <1>1, <1>2, ReaderFacts DEF IInv, FdInv, FdOf, Procs
<1>9. PICK w \in Writers : fd_reader[w] = r
  BY <1>1, ReaderFacts DEF Unopened, Fresh
<1>10. /\ StreamOf(w, pc[w], "read", pipe[r], out[r], sent[w])
       /\ pc'[w] = pc[w] /\ pc[w] \in WriterAt /\ sent[w] \in Nat
       /\ FdOf(w)
  <2>1. StreamInv(w, r) /\ pc'[w] = pc[w]
    BY <1>2, <1>9, ReaderFacts, WriterFacts
  <2>2. QED
    BY <1>1, <2>1, WriterFacts DEF StreamInv, IInv, TypeInv
<1>11. StreamOf(w, pc[w], "read", pipe'[r], out'[r], sent[w])
  BY <1>3, <1>4, <1>10, ReadStream
<1>12. PipeInv'
  <2>1. StreamInv(w, r)'
    BY <1>1, <1>2, <1>10, <1>11 DEF StreamInv
  <2>2. QED
    BY <1>1, <1>2, <1>3, <1>4, <1>9, <2>1, PairFrame
<1>13. QED
  BY <1>5, <1>7, <1>8, <1>12 DEF IInv
-----------------------------------------------------------------------------
LEMMA InitInv == Init => IInv
<1>1. SUFFICES ASSUME Init PROVE IInv
  OBVIOUS
<1>2. TypeInv
  BY <1>1 DEF Init, TypeInv, ReaderAt, WriterAt, Procs
<1>3. Len(conn) = 0 /\ \A w \in Writers : pid_r[w] = NoReader
  BY <1>1 DEF Init
<1>4. PidInv
  BY <1>3 DEF PidInv
<1>5. FdInv
  BY <1>1 DEF Init, FdInv, FdOf, Procs
<1>6. \A r \in Readers : Fresh(r)
  BY <1>1 DEF Init, Fresh, Procs
<1>7. PipeInv
  BY <1>1, <1>6 DEF Init, PipeInv
<1>8. QED
  BY <1>2, <1>4, <1>5, <1>7 DEF IInv

LEMMA NextInv == IInv /\ [Next]_vars => IInv'
<1>1. SUFFICES ASSUME IInv, [Next]_vars PROVE IInv'
  OBVIOUS
<1>2. ASSUME NEW w \in Writers, WriterStep(w) PROVE IInv'
  BY <1>1, <1>2, WriterQuiet, OpenConnKeeps, ReadPidKeeps, OpenPersKeeps,
     GreetKeeps, CopyKeeps
     DEF WriterStep
<1>3. ASSUME NEW r \in Readers, ReaderStep(r) PROVE IInv'
  BY <1>1, <1>3, ReaderQuiet, OpenConnKeeps, SendPidKeeps, GreetingKeeps,
     ReadKeeps
     DEF ReaderStep
<1>4. ASSUME NEW p \in Procs, Kill(p) PROVE IInv'
  BY <1>1, <1>4, WriterQuiet, ReaderQuiet DEF Procs
<1>5. CASE UNCHANGED vars
  <2>1. /\ TypeInv' <=> TypeInv
        /\ PidInv' <=> PidInv
        /\ FdInv' <=> FdInv
    BY <1>5 DEF vars, TypeInv, PidInv, FdInv, FdOf
  <2>2. PipeInv' <=> PipeInv
    BY <1>5 DEF vars, PipeInv, Unopened, Fresh, StreamInv
  <2>3. QED
    BY <1>1, <2>1, <2>2 DEF IInv
<1>6. QED
  BY <1>1, <1>2, <1>3, <1>4, <1>5 DEF Next

(* Nobody but its one writer fills a reader's FIFO, with the greeting and  *)
(* the blocks of the file in order, and the reader takes them off in order.*)
THEOREM InductiveInvariant == Spec => []IInv
<1>1. Init => IInv
  BY InitInv
<1>2. IInv /\ [Next]_vars => IInv'
  BY NextInv
<1>3. QED
  BY <1>1, <1>2, PTL DEF Spec

(* connFIFO holds each reader's pid once at most and no FIFO more than it  *)
(* can, or anything but greetings and blocks of the writers' files.        *)
THEOREM TypesKept == Spec => []TypeOK
<1>1. IInv => TypeOK
  <2>1. SUFFICES ASSUME IInv PROVE TypeOK
    OBVIOUS
  <2>2. ASSUME NEW r \in Readers, NEW i \in 1..Len(pipe[r])
        PROVE  \E w \in Writers : pipe[r][i] \in {w} \X (0..FileLen[w])
    <3>1. pipe[r][i] \in Blocks
      BY <2>1 DEF IInv, TypeInv
    <3>2. QED
      BY <3>1 DEF Blocks
  <2>3. \A w \in Writers : sent[w] \in 0..FileLen[w]
    BY <2>1 DEF IInv, TypeInv
  <2>4. QED
    BY <2>1, <2>2, <2>3 DEF IInv, TypeInv, PidInv, TypeOK
<1>2. QED
  BY <1>1, InductiveInvariant, PTL

-----------------------------------------------------------------------------
LEMMA WholeFacts ==
  ASSUME NEW w \in Writers
  PROVE  /\ Whole(w) \in Seq(Blocks) /\ Len(Whole(w)) = FileLen[w]
         /\ FileLen[w] \in Nat
         /\ \A i \in 1..FileLen[w] : Whole(w)[i] = <<w, i>>
<1>1. FileLen[w] \in Nat /\ \A i \in 1..FileLen[w] : <<w, i>> \in Blocks
  BY DEF Blocks
<1>2. /\ Whole(w) \in [1..FileLen[w] -> Blocks]
      /\ \A i \in 1..FileLen[w] : Whole(w)[i] = <<w, i>>
  BY <1>1 DEF Whole
<1>3. QED
  BY ONLY <1>1, <1>2

(* The first blocks of w's file, and what is printed with what comes after.*)
LEMMA Prefix ==
  ASSUME NEW w \in Writers, NEW o \in Seq(Blocks), Len(o) <= FileLen[w],
         \A i \in 1..Len(o) : o[i] = <<w, i>>
  PROVE  o = SubSeq(Whole(w), 1, Len(o))
<1>1. Len(o) \in Nat /\ \A i \in 1..Len(o) : i \in 1..FileLen[w]
  BY WholeFacts
<1>2. PICK n \in Nat : n = Len(o)
  BY <1>1
<1>3. \A i \in 1..n : Whole(w)[i] \in Blocks /\ Whole(w)[i] = o[i]
  <2>1. SUFFICES ASSUME NEW i \in 1..n
                 PROVE  Whole(w)[i] \in Blocks /\ Whole(w)[i] = o[i]
    OBVIOUS
  <2>2. i \in 1..Len(o) /\ i \in 1..FileLen[w]
    BY <1>1, <1>2
  <2>3. Whole(w)[i] = <<w, i>> /\ o[i] = <<w, i>>
    BY <2>2, WholeFacts
  <2>4. o[i] \in Blocks
    BY <2>2, ElementOfSeq
  <2>5. QED
    BY <2>3, <2>4
<1>4. /\ SubSeq(Whole(w), 1, n) \in Seq(Blocks)
      /\ Len(SubSeq(Whole(w), 1, n)) = IF 1 <= n THEN n - 1 + 1 ELSE 0
      /\ \A i \in 1..n - 1 + 1 :
           SubSeq(Whole(w), 1, n)[i] = Whole(w)[1 + i - 1]
  BY <1>3, SubSeqProperties
<1>5. Len(SubSeq(Whole(w), 1, n)) = n
  BY <1>4
<1>6. \A i \in 1..n : SubSeq(Whole(w), 1, n)[i] = o[i]
  BY <1>3, <1>4
<1>7. QED
  BY <1>2, <1>4, <1>5, <1>6, SeqEqual

LEMMA Split ==
  ASSUME NEW w \in Writers, NEW o \in Seq(Blocks), NEW p \in Seq(Blocks),
         Len(o) + Len(p) = FileLen[w],
         \A i \in 1..Len(o) : o[i] = <<w, i>>,
         \A i \in 1..Len(p) : p[i] = <<w, Len(o) + i>>
  PROVE  o \o p = Whole(w)
<1>1. /\ o \o p \in Seq(Blocks) /\ Len(o \o p) = Len(o) + Len(p)
      /\ \A i \in 1..Len(o) + Len(p) :
           (o \o p)[i] = IF i <= Len(o) THEN o[i] ELSE p[i - Len(o)]
  BY ConcatProperties
<1>2. Len(o) \in Nat /\ Len(p) \in Nat
  OBVIOUS
<1>3. ASSUME NEW i \in 1..FileLen[w] PROVE (o \o p)[i] = <<w, i>>
  <2>1. CASE i <= Len(o)
    BY <1>1, <1>2, <1>3, <2>1
  <2>2. CASE ~(i <= Len(o))
    <3>1. /\ i - Len(o) \in 1..Len(p)
          /\ Len(o) + (i - Len(o)) = i
      BY <1>2, <2>2
    <3>2. QED
      BY <1>1, <1>2, <2>2, <3>1
  <2>3. QED
    BY <2>1, <2>2
<1>4. /\ Whole(w) \in Seq(Blocks) /\ Len(Whole(w)) = FileLen[w]
      /\ \A i \in 1..FileLen[w] : Whole(w)[i] = (o \o p)[i]
  BY <1>3, WholeFacts
<1>5. Len(o \o p) = Len(Whole(w))
  BY <1>1, <1>4
<1>6. \A i \in 1..Len(o \o p) : (o \o p)[i] = Whole(w)[i]
  BY <1>4, <1>5
<1>7. QED
  BY <1>1, <1>4, <1>5, <1>6, SeqEqual

(* A reader prints the first blocks of one writer's file, in order and     *)
(* without the greeting, however many writers read connFIFO (line 14).     *)
THEOREM OneFileOnly == Spec => []OutputOfOneFile
<1>1. IInv => OutputOfOneFile
  <2>1. SUFFICES ASSUME IInv, NEW r \in Readers, out[r] # <<>>
                 PROVE  \E w \in Writers :
                          /\ fd_reader[w] = r
                          /\ out[r] = SubSeq(Whole(w), 1, Len(out[r]))
    BY DEF OutputOfOneFile
  <2>2. PICK w \in Writers : fd_reader[w] = r
    BY <2>1, ReaderFacts DEF Unopened, Fresh
  <2>3. StreamInv(w, r)
    BY <2>1, <2>2, ReaderFacts
  <2>4. /\ Len(out[r]) <= sent[w] /\ sent[w] <= FileLen[w]
        /\ Len(out[r]) \in Nat /\ sent[w] \in Nat /\ FileLen[w] \in Nat
        /\ out[r] \in Seq(Blocks)
        /\ \A i \in 1..Len(out[r]) : out[r][i] = <<w, i>>
    BY <2>1, <2>3 DEF StreamInv, StreamOf, IInv, TypeInv
  <2>5. Len(out[r]) <= FileLen[w]
    BY <2>4
  <2>6. QED
    BY <2>2, <2>4, <2>5, Prefix
<1>2. QED
  BY <1>1, InductiveInvariant, PTL

(* A writer that returns EXIT_SUCCESS has its whole file with fwrite or in *)
(* the reader's FIFO, each block once, unless the reader is killed.        *)
THEOREM SuccessKept == Spec => []SuccessLosesNothing
<1>1. IInv => SuccessLosesNothing
  <2>1. SUFFICES ASSUME IInv, NEW w \in Writers, pc[w] = "done",
                        NEW r, r = fd_reader[w], pc[r] # "killed"
                 PROVE  out[r] \o Unread(r) = Whole(w)
    BY DEF SuccessLosesNothing
  <2>2. /\ r \in Readers /\ StreamInv(w, r) /\ sent[w] = FileLen[w]
        /\ pc[r] \in ReaderAt /\ pc[r] \notin Unsent
    <3>1. /\ r \in Readers /\ r # NoReader /\ r = pid_r[w]
          /\ sent[w] = FileLen[w]
      BY <2>1, WriterFacts DEF FdOf
    <3>2. QED
      BY <2>1, <3>1, WriterFacts, ReaderFacts DEF IInv, PidInv
  <2>3. /\ StreamOf(w, "done", pc[r], pipe[r], out[r], FileLen[w])
        /\ out[r] \in Seq(Blocks) /\ pipe[r] \in Seq(Blocks)
        /\ FileLen[w] \in Nat
    BY <2>1, <2>2 DEF StreamInv, IInv, TypeInv
  <2>4. CASE pc[r] \in {"poll", "greeting", "late", "failed"}
    <3>1. /\ out[r] = <<>> /\ Len(pipe[r]) = FileLen[w] + 1
          /\ \A i \in 1..Len(pipe[r]) : pipe[r][i] = <<w, i - 1>>
      BY <2>3, <2>4 DEF StreamOf
    <3>3. PICK t \in Seq(Blocks) : t = Tail(pipe[r]) /\ Beheaded(pipe[r], t)
      <4>1. pipe[r] # <<>>
        BY <2>3, <3>1, EmptySeq
      <4>2. Tail(pipe[r]) \in Seq(Blocks)
        BY <2>3, <4>1, TailFacts
      <4>3. Beheaded(pipe[r], Tail(pipe[r]))
        BY <2>3, <4>1, TailIsBeheaded
      <4>4. QED
        BY <4>2, <4>3
    <3>4. /\ Len(t) = FileLen[w] /\ Len(out[r]) = 0
          /\ Len(out[r]) + Len(t) = FileLen[w]
      BY <2>3, <3>1, <3>3 DEF Beheaded
    <3>5. ASSUME NEW i \in 1..Len(t) PROVE t[i] = <<w, Len(out[r]) + i>>
      <4>1. t[i] = <<w, (i + 1) - 1>>
        BY <3>1, <3>3 DEF Beheaded
      <4>2. (i + 1) - 1 = Len(out[r]) + i
        BY <3>4
      <4>3. QED
        BY <4>1, <4>2
    <3>6. \A i \in 1..Len(out[r]) : out[r][i] = <<w, i>>
      BY <3>4
    <3>7. QED
      BY <2>3, <2>4, <3>3, <3>4, <3>5, <3>6, Split DEF Unread
  <2>5. CASE pc[r] \in {"read", "done"}
    <3>1. /\ Len(out[r]) + Len(pipe[r]) = FileLen[w]
          /\ \A i \in 1..Len(pipe[r]) : pipe[r][i] = <<w, Len(out[r]) + i>>
          /\ \A i \in 1..Len(out[r]) : out[r][i] = <<w, i>>
      BY <2>3, <2>5 DEF StreamOf
    <3>2. QED
      BY <2>3, <2>5, <3>1, Split DEF Unread
  <2>6. QED
    BY <2>1, <2>2, <2>4, <2>5 DEF ReaderAt, Unsent, Ended
<1>2. QED
  BY <1>1, InductiveInvariant, PTL

(* A reader that returns EXIT_SUCCESS has printed the whole file of a      *)
(* writer, or that writer has failed or been killed (line 86), or an       *)
(* fwrite has failed (line 87).                                            *)
THEOREM ShortOnlyThen == Spec => []ShortOnlyByFailure
<1>1. IInv => ShortOnlyByFailure
  <2>1. SUFFICES ASSUME IInv, NEW r \in Readers, pc[r] = "done"
                 PROVE  \E w \in Writers :
                          /\ fd_reader[w] = r
                          /\ \/ out[r] = Whole(w)
                             \/ pc[w] \in {"failed", "killed"}
    BY DEF ShortOnlyByFailure, PrintedWhole
  <2>2. PICK w \in Writers : fd_reader[w] = r
    BY <2>1, ReaderFacts DEF Unopened, Fresh
  <2>3. /\ StreamOf(w, pc[w], "done", pipe[r], out[r], sent[w])
        /\ pipe[r] \in Seq(Blocks) /\ out[r] \in Seq(Blocks)
    BY <2>1, <2>2, ReaderFacts DEF StreamInv, IInv, TypeInv
  <2>4. CASE pc[w] = "done"
    <3>1. /\ sent[w] = FileLen[w] /\ pipe[r] = <<>>
          /\ Len(out[r]) + Len(pipe[r]) = FileLen[w]
          /\ \A i \in 1..Len(pipe[r]) : pipe[r][i] = <<w, Len(out[r]) + i>>
          /\ \A i \in 1..Len(out[r]) : out[r][i] = <<w, i>>
      BY <2>1, <2>3, <2>4, WriterFacts DEF StreamOf, FdOf
    <3>2. out[r] \o pipe[r] = Whole(w)
      BY <2>3, <3>1, Split
    <3>3. out[r] = Whole(w)
      BY <2>3, <3>1, <3>2, ConcatEmptySeq
    <3>4. QED
      BY <2>2, <3>3
  <2>5. CASE pc[w] # "done"
    BY <2>2, <2>3, <2>5 DEF StreamOf, Ended
  <2>6. QED
    BY <2>4, <2>5
<1>2. QED
  BY <1>1, InductiveInvariant, PTL
=============================================================================
