------------------------- MODULE PersTransferProofs -------------------------
(***************************************************************************)
(* What is proved of PersTransfer, for every file length and every set of  *)
(* faults: its type invariant, the exclusive use of the buffer, the order  *)
(* of the output, and that it implements FileTransfer.                     *)
(***************************************************************************)
EXTENDS PersTransfer, TLAPS

(* The inductive invariant behind the safety properties.  One token says   *)
(* whose turn it is: EMPTY, FULL, or the side between its P and its V.  A  *)
(* killed holder takes the token with it.                                  *)
WriterHolds == wpc \in {"read", "store", "V"}
ReaderHolds == rpc \in {"load", "print", "V"}

Count(b) == IF b THEN 1 ELSE 0

OneToken == EMPTY + FULL + Count(WriterHolds) + Count(ReaderHolds) <= 1

(* A size x in hand: the next block, in buf, or the end of the file.       *)
Loaded(x) ==
  \/ x = 0 /\ Len(out) = FileLen /\ pos = FileLen
  \/ x > 0 /\ x = buf /\ x = pos /\ x = Len(out) + 1

WriterInv ==
  /\ (EMPTY = 1 \/ wpc = "read") => Len(out) = pos
  /\ wpc = "store" => \/ got = -1 /\ Len(out) = pos
                      \/ Loaded(got)
  /\ wpc = "V" => got = currSizeData /\ Loaded(got)
  /\ wpc = "check" => currSizeData >= 0
  /\ (wpc = "check" /\ currSizeData = 0) => Len(out) = FileLen
  /\ wpc = "done" => Len(out) = FileLen
  /\ currSizeData = -1 => wpc = "unreadable"

ReaderInv ==
  /\ (FULL = 1 \/ rpc \in {"load", "print"}) => Loaded(currSizeData)
  /\ rpc = "print" => len = currSizeData
  /\ rpc = "V" => Len(out) = pos
  /\ (rpc \in {"V", "check"} /\ currSizeData = 0) => Len(out) = FileLen
  /\ rpc \in {"remove", "done"} =>
        Len(out) = FileLen \/ wpc = "unreadable"

(* All of it.                                                              *)
IInv ==
  /\ TypeOK
  /\ OneToken
  /\ WriterInv
  /\ ReaderInv
  /\ Len(out) <= pos
  /\ OutputIsPrefix

USE FileLenAssumption, FaultsAssumption

(* Printing the block that follows the printed ones keeps them in order.   *)
LEMMA AppendNext ==
  ASSUME NEW s \in Seq(0..FileLen),
         NEW b \in 0..FileLen,
         b = Len(s) + 1,
         \A i \in 1..Len(s) : s[i] = i
  PROVE  /\ Append(s, b) \in Seq(0..FileLen)
         /\ Len(Append(s, b)) = Len(s) + 1
         /\ \A i \in 1..Len(Append(s, b)) : Append(s, b)[i] = i
<1>1. /\ Append(s, b) \in Seq(0..FileLen)
      /\ Len(Append(s, b)) = Len(s) + 1
  OBVIOUS
<1>2. ASSUME NEW i \in 1..Len(Append(s, b)) PROVE Append(s, b)[i] = i
  BY <1>1
<1>3. QED
  BY <1>1, <1>2

(* The invariant holds of a fresh segment and a fresh semaphore set.       *)
LEMMA InitInv == Init => IInv
  BY DEF Init, InitPersSem, IInv, TypeOK, OneToken, WriterInv, ReaderInv,
         Loaded, Count, WriterHolds, ReaderHolds, OutputIsPrefix, Ended

(* No step of either process, no timeout, failure or kill breaks it.       *)
LEMMA NextInv == IInv /\ [Next]_vars => IInv'
<1> SUFFICES ASSUME IInv, [Next]_vars PROVE IInv'
  OBVIOUS
<1> USE DEF IInv, TypeOK, OneToken, WriterInv, ReaderInv, Loaded, Count,
            WriterHolds, ReaderHolds, OutputIsPrefix, Ended,
            vars, wvars, rvars, sems, shm
<1>0. faults' = faults
  BY DEF Next, WriterStep, ReaderStep, SomeoneIsKilled, Stopped
<1> USE <1>0
<1>1. CASE WOpen
  BY <1>1 DEF WOpen
<1>2. CASE WP
  BY <1>2 DEF WP
<1>3. CASE WPFail
  BY <1>3 DEF WPFail
<1>4. CASE WRead
  BY <1>4 DEF WRead
<1>5. CASE WStore
  BY <1>5 DEF WStore
<1>6. CASE WV
  BY <1>6 DEF WV
<1>7. CASE WCheck
  BY <1>7 DEF WCheck
<1>8. CASE RP
  BY <1>8 DEF RP
<1>9. CASE RPFail
  BY <1>9 DEF RPFail
<1>10. CASE RLoad
  BY <1>10 DEF RLoad
<1>11. CASE RPrint
  <2>1. CASE len = 0
    BY <1>11, <2>1 DEF RPrint
  <2>2. CASE len # 0
    <3>1. len = buf /\ buf = Len(out) + 1 /\ buf \in 1..FileLen
      BY <1>11, <2>2 DEF RPrint
    <3>2. out' = Append(out, buf)
      BY <1>11, <2>2, <3>1 DEF RPrint
    <3>3. /\ out' \in Seq(0..FileLen)
          /\ Len(out') = Len(out) + 1
          /\ OutputIsPrefix'
      BY <3>1, <3>2, AppendNext
    <3>4. QED
      BY <1>11, <3>1, <3>3 DEF RPrint
  <2>3. QED
    BY <2>1, <2>2
<1>12. CASE RPrintFail
  BY <1>12 DEF RPrintFail
<1>13. CASE RV
  BY <1>13 DEF RV
<1>14. CASE RCheck
  BY <1>14 DEF RCheck
<1>15. CASE RRemove
  BY <1>15, ZenonT(60) DEF RRemove
<1>16. CASE WKill
  BY <1>16 DEF WKill
<1>17. CASE RKill
  BY <1>17 DEF RKill
<1>18. CASE UNCHANGED vars
  BY <1>18
<1>19. QED
  BY <1>1, <1>2, <1>3, <1>4, <1>5, <1>6, <1>7, <1>8, <1>9, <1>10, <1>11, <1>12,
     <1>13, <1>14, <1>15, <1>16, <1>17, <1>18
     DEF Next, WriterStep, ReaderStep, SomeoneIsKilled, Stopped

(* The invariant holds of every reachable state of every instance.         *)
THEOREM InductiveInvariant == Spec => []IInv
<1>1. QED
  BY InitInv, NextInv, PTL DEF Spec

(* No semaphore ever counts two blocks and currSizeData stays a size.      *)
THEOREM TypeCorrect == Spec => []TypeOK
<1>1. IInv => TypeOK
  BY DEF IInv
<1>2. QED
  BY <1>1, InductiveInvariant, PTL

(* The block is never filled while it is printed.                          *)
THEOREM Exclusion == Spec => []BufferExclusive
<1>1. IInv => BufferExclusive
  BY DEF IInv, TypeOK, OneToken, Count, WriterHolds, ReaderHolds,
         BufferExclusive
<1>2. QED
  BY <1>1, InductiveInvariant, PTL

(* What is printed is the file's blocks in order, never a torn one.        *)
THEOREM PrefixOutput == Spec => []OutputIsPrefix
<1>1. IInv => OutputIsPrefix
  BY DEF IInv
<1>2. QED
  BY <1>1, InductiveInvariant, PTL

(* What else holds when nothing can go wrong, beside IInv: nobody fails    *)
(* before the reader has removed the set, and once the 0 that ends the     *)
(* file is in currSizeData the writer reads no more.  A writer that finds  *)
(* the set gone therefore finds a reader that has returned.                *)
NoError ==
  /\ rpc \notin {"failed", "killed"}
  /\ wpc \notin {"unreadable", "killed"}
  /\ currSizeData # -1 /\ got # -1
  /\ setAlive <=> rpc # "done"
  /\ wpc = "failed" => rpc = "done"

EndOfFile ==
  /\ rpc \in {"remove", "done"} => currSizeData = 0
  /\ wpc = "done" => currSizeData = 0
  /\ currSizeData = 0 => \/ wpc \in {"V", "check", "done", "failed"}
                         \/ rpc = "P" /\ FULL = 0
  /\ (currSizeData = 0 /\ wpc \in {"check", "done"} /\ rpc = "P") => FULL = 1

CleanInv == faults = {} => NoError /\ EndOfFile

(* It holds at the start, where the 0 is that of the fresh segment.        *)
LEMMA CleanInit == Init => CleanInv
  BY DEF Init, InitPersSem, CleanInv, NoError, EndOfFile

(* No step of a run without faults breaks it.                              *)
LEMMA CleanNext == IInv /\ CleanInv /\ [Next]_vars => CleanInv'
<1> SUFFICES ASSUME IInv, CleanInv, [Next]_vars, faults = {}
             PROVE  CleanInv'
  BY DEF CleanInv, Next, WriterStep, ReaderStep, SomeoneIsKilled, Stopped,
         vars
<1> USE DEF IInv, TypeOK, OneToken, WriterInv, ReaderInv, Loaded, Count,
            WriterHolds, ReaderHolds, Ended, CleanInv, NoError, EndOfFile,
            TimesOut, vars, wvars, rvars, sems, shm
<1>1. CASE WOpen
  BY <1>1 DEF WOpen
<1>2. CASE WP
  BY <1>2 DEF WP
<1>3. CASE WPFail
  BY <1>3 DEF WPFail
<1>4. CASE WRead
  BY <1>4 DEF WRead
<1>5. CASE WStore
  BY <1>5 DEF WStore
<1>6. CASE WV
  BY <1>6 DEF WV
<1>7. CASE WCheck
  BY <1>7 DEF WCheck
<1>8. CASE RP
  BY <1>8 DEF RP
<1>9. CASE RPFail
  BY <1>9 DEF RPFail
<1>10. CASE RLoad
  BY <1>10 DEF RLoad
<1>11. CASE RPrint
  BY <1>11 DEF RPrint
<1>12. CASE RPrintFail
  BY <1>12 DEF RPrintFail
<1>13. CASE RV
  BY <1>13 DEF RV
<1>14. CASE RCheck
  BY <1>14 DEF RCheck
<1>15. CASE RRemove
  BY <1>15 DEF RRemove
<1>16. CASE WKill
  BY <1>16 DEF WKill
<1>17. CASE RKill
  BY <1>17 DEF RKill
<1>18. CASE UNCHANGED vars
  BY <1>18
<1>19. QED
  BY <1>1, <1>2, <1>3, <1>4, <1>5, <1>6, <1>7, <1>8, <1>9, <1>10, <1>11, <1>12,
     <1>13, <1>14, <1>15, <1>16, <1>17, <1>18
     DEF Next, WriterStep, ReaderStep, SomeoneIsKilled, Stopped

(* A writer that returns -1 although nothing failed has been overtaken by  *)
(* a reader that printed the whole file and removed the set.               *)
THEOREM HarmlessFailure == Spec => []SpuriousFailureIsHarmless
<1>1. IInv /\ CleanInv => SpuriousFailureIsHarmless
  BY DEF IInv, ReaderInv, CleanInv, NoError, EndOfFile,
         SpuriousFailureIsHarmless
<1>2. QED
  BY <1>1, CleanInit, CleanNext, InductiveInvariant, PTL DEF Spec

(* A fresh segment stands for a transfer that has printed nothing.         *)
LEMMA InitRefines == Init => FT!Init
  BY DEF Init, FT!Init, SenderStatus, ReceiverStatus

(* Every step is a step of FileTransfer or changes nothing it sees: only   *)
(* RPrint prints, and each other step may end one of the two processes.    *)
LEMMA NextRefines == IInv /\ [Next]_vars => [FT!Next]_FT!vars
<1> SUFFICES ASSUME IInv, [Next]_vars PROVE [FT!Next]_FT!vars
  OBVIOUS
<1> USE DEF IInv, TypeOK, WriterInv, ReaderInv, Loaded, SenderStatus,
            ReceiverStatus, FT!vars, vars, wvars, rvars, sems, shm, Ended
<1>1. ASSUME WOpen PROVE FT!SenderErr \/ UNCHANGED FT!vars
  BY <1>1 DEF WOpen, FT!SenderErr
<1>2. ASSUME WP PROVE UNCHANGED FT!vars
  BY <1>2 DEF WP
<1>3. ASSUME WPFail PROVE FT!SenderErr \/ UNCHANGED FT!vars
  BY <1>3 DEF WPFail, FT!SenderErr
<1>4. ASSUME WRead PROVE UNCHANGED FT!vars
  BY <1>4 DEF WRead
<1>5. ASSUME WStore PROVE FT!SenderErr \/ UNCHANGED FT!vars
  BY <1>5 DEF WStore, FT!SenderErr
<1>6. ASSUME WV PROVE FT!SenderErr \/ UNCHANGED FT!vars
  BY <1>6 DEF WV, FT!SenderErr
<1>7. ASSUME WCheck PROVE FT!SenderOk \/ UNCHANGED FT!vars
  BY <1>7 DEF WCheck, FT!SenderOk
<1>8. ASSUME RP PROVE UNCHANGED FT!vars
  BY <1>8 DEF RP
<1>9. ASSUME RPFail PROVE FT!ReceiverErr \/ UNCHANGED FT!vars
  BY <1>9 DEF RPFail, FT!ReceiverErr
<1>10. ASSUME RLoad PROVE UNCHANGED FT!vars
  BY <1>10 DEF RLoad
<1>11. ASSUME RPrintFail PROVE FT!ReceiverErr \/ UNCHANGED FT!vars
  BY <1>11 DEF RPrintFail, FT!ReceiverErr
<1>12. ASSUME RV PROVE UNCHANGED FT!vars
  BY <1>12 DEF RV
<1>13. ASSUME RCheck PROVE UNCHANGED FT!vars
  BY <1>13 DEF RCheck
<1>14. ASSUME RRemove PROVE FT!ReceiverOk \/ UNCHANGED FT!vars
  BY <1>14 DEF RRemove, FT!ReceiverOk
<1>15. ASSUME WKill PROVE FT!SenderErr \/ UNCHANGED FT!vars
  BY <1>15 DEF WKill, FT!SenderErr
<1>16. ASSUME RKill PROVE FT!ReceiverErr \/ UNCHANGED FT!vars
  BY <1>16 DEF RKill, FT!ReceiverErr
<1>17. ASSUME RPrint PROVE FT!Deliver \/ UNCHANGED FT!vars
  <2>1. len = currSizeData /\ Loaded(currSizeData)
    BY <1>17 DEF RPrint
  <2>2. CASE len = 0
    BY <1>17, <2>2 DEF RPrint
  <2>3. CASE len # 0
    <3>1. Len(out') = Len(out) + 1
      BY <1>17, <2>3 DEF RPrint, Torn
    <3>2. QED
      BY <1>17, <2>1, <2>3, <3>1 DEF RPrint, FT!Deliver
  <2>4. QED
    BY <2>2, <2>3
<1>18. ASSUME UNCHANGED vars PROVE UNCHANGED FT!vars
  BY <1>18
<1>19. QED
  BY <1>1, <1>2, <1>3, <1>4, <1>5, <1>6, <1>7, <1>8, <1>9, <1>10, <1>11, <1>12,
     <1>13, <1>14, <1>15, <1>16, <1>17, <1>18
     DEF Next, WriterStep, ReaderStep, SomeoneIsKilled, Stopped, FT!Next

(* The transfer implements the abstract one, whatever the length of the    *)
(* file and the faults: EXIT_SUCCESS of the writer means a printed file.   *)
THEOREM Refinement == Spec => Implements
<1>1. QED
  BY InitRefines, NextRefines, InductiveInvariant, PTL
     DEF Spec, Implements, FT!Spec
=============================================================================
