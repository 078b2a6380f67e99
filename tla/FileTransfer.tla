---------------------------- MODULE FileTransfer ----------------------------
(***************************************************************************)
(* What a file transfer of this repository promises, whatever carries the  *)
(* bytes: a sender has a file of FileLen blocks, a receiver prints blocks. *)
(* The printed blocks are always the first blocks of the file, in order,   *)
(* so a number is all there is to say about the output.                    *)
(***************************************************************************)
EXTENDS Naturals

CONSTANT FileLen        \* how many blocks the sender's file has

VARIABLES
  delivered,  \* the blocks 1..delivered have been printed
  sender,     \* "busy", or the way the sending process ended
  receiver    \* "busy", or the way the receiving process ended

vars == <<delivered, sender, receiver>>

Init ==
  /\ delivered = 0
  /\ sender = "busy"
  /\ receiver = "busy"

(* One more block is printed.  Nothing is required of the sender: it may   *)
(* have died after handing the block over.                                 *)
Deliver ==
  /\ receiver = "busy"
  /\ delivered < FileLen
  /\ delivered' = delivered + 1
  /\ UNCHANGED <<sender, receiver>>

(* The sender may report success only when everything has been printed.    *)
SenderOk ==
  /\ sender = "busy"
  /\ delivered = FileLen
  /\ sender' = "ok"
  /\ UNCHANGED <<delivered, receiver>>

(* It may give up at any time; a file it could not read is an end of its   *)
(* own, for the receiver may mistake it for the end of the file.           *)
SenderErr ==
  /\ sender = "busy"
  /\ sender' \in {"err", "unreadable"}
  /\ UNCHANGED <<delivered, receiver>>

(* The receiver may report success only when everything has been printed   *)
(* or the file could not be read to its end.                               *)
ReceiverOk ==
  /\ receiver = "busy"
  /\ delivered = FileLen \/ sender = "unreadable"
  /\ receiver' = "ok"
  /\ UNCHANGED <<delivered, sender>>

ReceiverErr ==
  /\ receiver = "busy"
  /\ receiver' = "err"
  /\ UNCHANGED <<delivered, sender>>

Next == Deliver \/ SenderOk \/ SenderErr \/ ReceiverOk \/ ReceiverErr

Spec == Init /\ [][Next]_vars
=============================================================================
