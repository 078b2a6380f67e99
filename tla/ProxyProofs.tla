---------------------------- MODULE ProxyProofs ----------------------------
(***************************************************************************)
(* What is proved of Proxy, for every number of clients, all files and     *)
(* names, capacities and faults: what is output and what is under way is   *)
(* always a prefix of the files client 0 has opened (InOrder), and a       *)
(* SendFile that ends by its count has output the whole of its own, which  *)
(* is the one it was called for if no earlier name is longer               *)
(* (CountedIsWhole).                                                       *)
(***************************************************************************)
EXTENDS Proxy, SequenceTheorems, WellFoundedInduction, TLAPS

NumFiles == Len(Files)
Unit == Nat \X Nat
Chan == [buf : Seq(Unit), curPos : Nat, size : Nat]

Units == Seq(Unit)
Polled == [hup : SUBSET Clients, in : SUBSET Clients, out : SUBSET (Clients \ {0})]
Opened == Seq(DOMAIN Disk)
First == [opened : Opened, sent : Nat]
Ends == Seq({"counted", "out"})
Names == Seq(Chars)
Sizes == Seq(Nat)

TypeInv ==
  /\ pc \in {"fork", "name", "poll", "in", "out", "over", "killed"}
  /\ k \in 1..NumFiles /\ at \in Clients
  /\ polled \in Polled
  /\ chan \in [Clients -> Chan]
  /\ counter \in Nat /\ sizeFile \in Nat \cup {LONG_MAX}
  /\ ended \in Ends /\ out \in Units
  /\ client \in [Clients -> {"none", "read", "splice", "gone"}]
  /\ first \in First /\ names \in Names /\ sizes \in Sizes
  /\ SC \in [Clients -> Units] /\ CS \in [Clients -> Units]

(* A buffer's data ends where the buffer does, and m_curPos is where it    *)
(* begins; the last channel has no use for its m_curPos.                   *)
ChanInv ==
  \A i \in Clients :
    /\ chan[i].size <= Len(chan[i].buf)
    /\ i # Final => chan[i].curPos = IF chan[i].size = 0 THEN 0
                                       ELSE Len(chan[i].buf) - chan[i].size

(* The snapshot's POLLIN is still true of the channels not yet looked at,  *)
(* and those with POLLHUP have not been passed.                            *)
Ahead(i) == i > at \/ (i = at /\ pc = "in")

PollInv ==
  /\ pc \in {"in", "out"} => \A i \in polled.in : Ahead(i) => chan[i].size = 0
  /\ pc \in {"in", "out"} => \A i \in polled.hup : Ahead(i)
  /\ \A i \in polled.hup : Gone(i)

ForkInv == pc = "fork" => \A i \in Clients : i >= at => client[i] = "none"

(* Everything client 0 has sent is output or under way.                    *)
SentByFirst ==
  IF file = 0 THEN <<>>
  ELSE Sent(first.opened)[file - 1]
         \o SubSeq(Contents(first.opened, file), 1, first.sent)

StreamInv ==
  /\ SC[0] = <<>>
  /\ out \o Upstream[N] = SentByFirst

(* Client 0 reads a name when it has sent all of its last file.            *)
FirstInv ==
  /\ client[0] = "splice" => file # 0
  /\ file = 0 => first.sent = 0
  /\ file # 0 => first.sent <= Disk[first.opened[file]]
  /\ client[0] \in {"none", "read"} /\ file # 0 =>
       first.sent = Disk[first.opened[file]]

(* Once a SendFile has ended by POLLHUP, so do all those after it.         *)
OutBefore == \E f \in DOMAIN ended : ended[f] = "out"

OutInv ==
  /\ OutBefore => \E i \in Clients : Gone(i)
  /\ OutBefore /\ pc \in {"in", "out"} => polled.hup # {}

(* Before that client 0 has opened a file for every name up to the one     *)
(* under way, the count is that of file k, and one size at most is asked   *)
(* for, under way or known: that of file k.                                *)
Sending == pc \in {"poll", "in", "out"}

CountInv ==
  ~OutBefore =>
    /\ pc \in {"fork", "name"} =>
         /\ file = k - 1
         /\ names = <<>> /\ sizes = <<>> /\ client[0] # "splice"
         /\ Len(out) = Len(Sent(first.opened)[k - 1])
    /\ Sending =>
         /\ file \in {k - 1, k}
         /\ Len(out) = Len(Sent(first.opened)[k - 1]) + counter
         /\ names # <<>> =>
              /\ names = Files[k] /\ file = k - 1
              /\ sizes = <<>> /\ sizeFile = LONG_MAX /\ client[0] # "splice"
         /\ client[0] = "splice" =>
              file = k /\ sizes = <<>> /\ sizeFile = LONG_MAX
         /\ sizes # <<>> =>
              /\ file = k /\ sizes = <<Disk[first.opened[k]]>>
              /\ sizeFile = LONG_MAX
         /\ sizeFile # LONG_MAX => file = k /\ sizeFile = Disk[first.opened[k]]

(* nameFile is then as long as the longest name up to the last one, and    *)
(* the last one itself if that is as long.                                 *)
LongestTo(f, l) == \A e \in 1..f : Len(Files[e]) <= l

KeepsName(name, f) ==
  /\ LongestTo(f, Len(Files[f])) => name = Files[f]
  /\ \A l \in Nat : LongestTo(f, l) => Len(name) <= l

NamesInv ==
  ~OutBefore /\ ~ParentOver => \A f \in 1..file : KeepsName(first.opened[f], f)

EndedInv ==
  /\ Len(ended) <= k
  /\ pc \notin {"over", "killed"} => Len(ended) = k - 1
  /\ CountedIsWhole

IInv ==
  /\ TypeInv /\ ChanInv /\ PollInv /\ ForkInv /\ StreamInv
  /\ FirstInv /\ OutInv /\ CountInv /\ NamesInv /\ EndedInv

-----------------------------------------------------------------------------
(* Induction over the natural numbers, for a set of them.                  *)
LEMMA LeastNat ==
  ASSUME NEW T \in SUBSET Nat, T # {}
  PROVE  \E x \in T : \A y \in T : x <= y
<1> DEFINE R == OpToRel(<, Nat)
<1>1. IsWellFoundedOn(R, Nat)
  BY NatLessThanWellFounded
<1>2. \A x, y \in Nat : <<y, x>> \in R <=> y < x
  BY DEF OpToRel
<1> HIDE DEF R
<1>3. PICK x \in T : \A y \in T : ~ (<<y, x>> \in R)
  BY <1>1, WFMin
<1>4. ASSUME NEW y \in T PROVE x <= y
  <2>1. ~(y < x)
    BY <1>2, <1>3
  <2> QED BY <2>1
<1>5. QED
  BY <1>4

LEMMA Induction ==
  ASSUME NEW T \in SUBSET Nat, 0 \in T, \A n \in Nat : n \in T => n + 1 \in T
  PROVE  T = Nat
<1> SUFFICES ASSUME T # Nat PROVE FALSE
  OBVIOUS
<1>1. PICK x \in Nat \ T : \A y \in Nat \ T : x <= y
  BY LeastNat, Nat \ T # {}, Nat \ T \in SUBSET Nat
<1>2. x - 1 \in Nat /\ x - 1 \notin T
  BY <1>1
<1> QED BY <1>1, <1>2

(* The function that joins the sequences of c, the later ones behind.      *)
LEMMA JoinExists ==
  ASSUME NEW c, NEW n \in Nat
  PROVE  \E f : f = [i \in 0..n |-> IF i = 0 THEN <<>> ELSE f[i - 1] \o c[i]]
<1> DEFINE Is(f, m) ==
             f = [i \in 0..m |-> IF i = 0 THEN <<>> ELSE f[i - 1] \o c[i]]
           T == {m \in Nat : \E f : Is(f, m)}
<1>1. 0 \in T
  <2>1. Is([i \in 0..0 |-> <<>>], 0)
    OBVIOUS
  <2> QED BY <2>1
<1>2. ASSUME NEW m \in Nat, m \in T PROVE m + 1 \in T
  <2>1. PICK f : Is(f, m)
    BY <1>2
  <2> DEFINE g == [i \in 0..(m + 1) |-> IF i = m + 1 THEN f[m] \o c[m + 1] ELSE f[i]]
  <2>2. ASSUME NEW i \in 0..(m + 1)
        PROVE  g[i] = IF i = 0 THEN <<>> ELSE g[i - 1] \o c[i]
    <3>1. CASE i = m + 1
      <4>1. i \in 0..(m + 1) /\ i # 0 /\ i - 1 = m /\ m \in 0..(m + 1) /\ m # m + 1
        BY <3>1
      <4>2. g[m + 1] = f[m] \o c[m + 1] /\ g[m] = f[m]
        BY <4>1, <3>1
      <4> HIDE DEF g
      <4> QED BY <3>1, <4>1, <4>2
    <3>2. CASE i # m + 1
      <4>1. i \in 0..m /\ i - 1 \in -1..(m - 1) /\ i - 1 # m + 1
        BY <3>2
      <4>2. g[i] = f[i] /\ (i # 0 => g[i - 1] = f[i - 1])
        BY <4>1
      <4>3. f[i] = IF i = 0 THEN <<>> ELSE f[i - 1] \o c[i]
        BY <2>1, <4>1
      <4> QED BY <4>2, <4>3
    <3> QED BY <3>1, <3>2
  <2>3. Is(g, m + 1)
    BY <2>2
  <2> HIDE DEF g, Is
  <2> QED BY <2>3
<1> HIDE DEF T
<1>3. T = Nat
  BY <1>1, <1>2, Induction DEF T
<1> QED BY <1>3 DEF T

(* And the later ones in front.                                            *)
LEMMA StackExists ==
  ASSUME NEW c, NEW n \in Nat
  PROVE  \E f : f = [i \in 0..n |-> IF i = 0 THEN <<>> ELSE c[i - 1] \o f[i - 1]]
<1> DEFINE Is(f, m) ==
             f = [i \in 0..m |-> IF i = 0 THEN <<>> ELSE c[i - 1] \o f[i - 1]]
           T == {m \in Nat : \E f : Is(f, m)}
<1>1. 0 \in T
  <2>1. Is([i \in 0..0 |-> <<>>], 0)
    OBVIOUS
  <2> QED BY <2>1
<1>2. ASSUME NEW m \in Nat, m \in T PROVE m + 1 \in T
  <2>1. PICK f : Is(f, m)
    BY <1>2
  <2> DEFINE g == [i \in 0..(m + 1) |-> IF i = m + 1 THEN c[m] \o f[m] ELSE f[i]]
  <2>2. ASSUME NEW i \in 0..(m + 1)
        PROVE  g[i] = IF i = 0 THEN <<>> ELSE c[i - 1] \o g[i - 1]
    <3>1. CASE i = m + 1
      <4>1. i \in 0..(m + 1) /\ i # 0 /\ i - 1 = m /\ m \in 0..(m + 1) /\ m # m + 1
        BY <3>1
      <4>2. g[m + 1] = c[m] \o f[m] /\ g[m] = f[m]
        BY <4>1, <3>1
      <4> HIDE DEF g
      <4> QED BY <3>1, <4>1, <4>2
    <3>2. CASE i # m + 1
      <4>1. i \in 0..m /\ i - 1 \in -1..(m - 1) /\ i - 1 # m + 1
        BY <3>2
      <4>2. g[i] = f[i] /\ (i # 0 => g[i - 1] = f[i - 1])
        BY <4>1
      <4>3. f[i] = IF i = 0 THEN <<>> ELSE c[i - 1] \o f[i - 1]
        BY <2>1, <4>1
      <4> QED BY <4>2, <4>3
    <3> QED BY <3>1, <3>2
  <2>3. Is(g, m + 1)
    BY <2>2
  <2> HIDE DEF g, Is
  <2> QED BY <2>3
<1> HIDE DEF T
<1>3. T = Nat
  BY <1>1, <1>2, Induction DEF T
<1> QED BY <1>3 DEF T

(* Two stacks of the same sequences from the i-th on: if the second begins *)
(* with the first and p behind it, so it ends.                             *)
TwoStacks(S, n, i, p, c, f, g) ==
  /\ n \in Nat /\ i \in 0..n /\ p \in Seq(S)
  /\ \A j \in 0..(n - 1) : c[j] \in Seq(S) /\ f[j] \in Seq(S)
  /\ \A j \in i..(n - 1) : f[j + 1] = c[j] \o f[j]
  /\ \A j \in i..(n - 1) : g[j + 1] = c[j] \o g[j]
  /\ g[i] = f[i] \o p

LEMMA StackGrows ==
  ASSUME NEW S, NEW n, NEW i, NEW p, NEW c, NEW f, NEW g,
         TwoStacks(S, n, i, p, c, f, g)
  PROVE  g[n] = f[n] \o p
<1> USE DEF TwoStacks
<1> DEFINE P(m) == m \in i..n => g[m] = f[m] \o p
           T == {m \in Nat : P(m)}
<1>1. P(0)
  <2>1. 0 \in i..n => i = 0
    OBVIOUS
  <2> QED BY <2>1
<1>2. ASSUME NEW m \in Nat, P(m) PROVE P(m + 1)
  <2>1. CASE m \in i..(n - 1)
    <3>1. g[m] = f[m] \o p /\ c[m] \in Seq(S) /\ f[m] \in Seq(S)
      <4>1. m \in i..n /\ m \in 0..(n - 1)
        BY <2>1
      <4> QED BY <1>2, <4>1
    <3>2. f[m + 1] = c[m] \o f[m] /\ g[m + 1] = c[m] \o g[m]
      BY <2>1
    <3> DEFINE x == c[m]
               y == f[m]
    <3> HIDE DEF x, y
    <3>3. x \in Seq(S) /\ y \in Seq(S)
      BY <3>1 DEF x, y
    <3>4. (x \o y) \o p = x \o (y \o p)
      BY <3>3, ConcatAssociative, SMTT(30)
    <3>5. f[m + 1] = x \o y /\ g[m + 1] = x \o (y \o p)
      BY <3>1, <3>2 DEF x, y
    <3> QED BY <3>4, <3>5
  <2>2. CASE m + 1 = i
    BY <2>2
  <2>3. CASE m + 1 \notin i..n
    BY <2>3
  <2> QED BY <2>1, <2>2, <2>3
<1> HIDE DEF P
<1>3. T \in SUBSET Nat /\ 0 \in T /\ \A m \in Nat : m \in T => m + 1 \in T
  BY <1>1, <1>2
<1> HIDE DEF T
<1>4. T = Nat
  BY <1>3, Induction
<1>5. P(n)
  BY <1>4 DEF T
<1> QED BY <1>5 DEF P

-----------------------------------------------------------------------------
(* The files and what they make when they are sent one after the other.    *)
LEMMA FileFacts ==
  /\ NumFiles \in Nat \ {0}
  /\ \A f \in 1..NumFiles : Files[f] \in Seq(Chars) /\ Files[f] # <<>>
<1>1. NumFiles \in Nat \ {0}
  BY SizesAssumption, EmptySeq DEF NumFiles
<1>2. ASSUME NEW f \in 1..NumFiles
      PROVE  Files[f] \in Seq(Chars) /\ Files[f] # <<>>
  <2>1. Files \in Seq(Seq(Chars)) /\ f \in 1..Len(Files)
    BY SizesAssumption DEF NumFiles
  <2>2. Files[f] \in Seq(Chars) /\ f \in DOMAIN Files
    BY ONLY <2>1, ElementOfSeq
  <2> QED BY <2>2, SizesAssumption
<1> QED BY <1>1, <1>2

LEMMA DiskFacts ==
  ASSUME NEW os \in Opened
  PROVE  /\ Len(os) \in Nat
         /\ \A f \in 1..Len(os) :
              /\ os[f] \in DOMAIN Disk /\ Disk[os[f]] \in Nat
              /\ Contents(os, f) \in Seq(Unit)
              /\ Len(Contents(os, f)) = Disk[os[f]]
<1>1. os \in Seq(DOMAIN Disk)
  BY DEF Opened
<1>2. ASSUME NEW f \in 1..Len(os)
      PROVE  os[f] \in DOMAIN Disk /\ Disk[os[f]] \in Nat
  <2>1. os[f] \in DOMAIN Disk
    BY ONLY <1>1, ElementOfSeq
  <2> QED BY <2>1, SizesAssumption
<1>3. ASSUME NEW f \in 1..Len(os)
      PROVE  Contents(os, f) \in Seq(Unit) /\ Len(Contents(os, f)) = Disk[os[f]]
  <2>1. Disk[os[f]] \in Nat /\ f \in Nat
    BY <1>1, <1>2
  <2> DEFINE n == Disk[os[f]]
  <2> HIDE DEF n
  <2>2. [j \in 1..n |-> <<f, j>>] \in [1..n -> Unit] /\ n \in Nat
    BY <2>1 DEF Unit, n
  <2> QED BY <2>2 DEF Contents, n
<1> QED BY <1>1, <1>2, <1>3

LEMMA SentRec ==
  ASSUME NEW os \in Opened
  PROVE  /\ Sent(os)[0] = <<>>
         /\ \A f \in 1..Len(os) : Sent(os)[f] = Sent(os)[f - 1] \o Contents(os, f)
<1> DEFINE c == [i \in 1..Len(os) |-> Contents(os, i)]
<1>0. Len(os) \in Nat
  BY DiskFacts
<1>1. PICK s : s = [i \in 0..Len(os) |->
                      IF i = 0 THEN <<>> ELSE s[i - 1] \o c[i]]
  <2> HIDE DEF c
  <2> QED BY <1>0, JoinExists
<1>2. s = [i \in 0..Len(os) |->
             IF i = 0 THEN <<>> ELSE s[i - 1] \o Contents(os, i)]
  <2>1. \A i \in 0..Len(os) : i # 0 => i \in 1..Len(os)
    BY <1>0
  <2> QED BY <1>1, <2>1
<1>3. Sent(os) = [i \in 0..Len(os) |->
                    IF i = 0 THEN <<>> ELSE Sent(os)[i - 1] \o Contents(os, i)]
  <2> HIDE DEF c
  <2> QED BY ONLY <1>2 DEF Sent
<1>4. 0 \in 0..Len(os)
  BY <1>0
<1>5. ASSUME NEW f \in 1..Len(os)
      PROVE  Sent(os)[f] = Sent(os)[f - 1] \o Contents(os, f)
  <2>1. f \in 0..Len(os) /\ f # 0
    BY <1>0
  <2> QED BY <1>3, <2>1
<1>6. Sent(os)[0] = <<>>
  BY <1>3, <1>4
<1> QED BY <1>5, <1>6

LEMMA SentType ==
  ASSUME NEW os \in Opened
  PROVE  \A f \in 0..Len(os) : Sent(os)[f] \in Seq(Unit)
<1> DEFINE T == {f \in Nat : f <= Len(os) => Sent(os)[f] \in Seq(Unit)}
<1>0. Len(os) \in Nat
  BY DiskFacts
<1>1. 0 \in T
  BY SentRec, EmptySeq
<1>2. ASSUME NEW f \in Nat, f \in T PROVE f + 1 \in T
  <2>1. CASE f + 1 <= Len(os)
    <3>1. f <= Len(os) /\ f + 1 \in 1..Len(os) /\ (f + 1) - 1 = f
      BY <1>0, <2>1
    <3>2. Sent(os)[f] \in Seq(Unit)
      BY <1>2, <3>1
    <3>3. Sent(os)[f + 1] = Sent(os)[f] \o Contents(os, f + 1)
      BY <3>1, SentRec
    <3>4. Sent(os)[f + 1] \in Seq(Unit)
      BY <3>1, <3>2, <3>3, DiskFacts, ConcatProperties
    <3> QED BY <3>4
  <2>2. CASE ~(f + 1 <= Len(os))
    BY <2>2
  <2> QED BY <2>1, <2>2
<1>3. T \in SUBSET Nat
  OBVIOUS
<1> HIDE DEF T
<1>4. T = Nat
  BY <1>1, <1>2, <1>3, Induction
<1>5. ASSUME NEW f \in 0..Len(os) PROVE Sent(os)[f] \in Seq(Unit)
  <2>1. f \in Nat /\ f <= Len(os)
    BY <1>0
  <2> QED BY <1>4, <2>1 DEF T
<1> QED BY <1>5

(* What has been sent of the files opened stays when one more is opened.   *)
OneMore(os, name, ns) ==
  /\ ns \in Opened /\ Len(ns) = Len(os) + 1 /\ ns[Len(ns)] = name
  /\ \A f \in 1..Len(os) : ns[f] = os[f]
  /\ \A f \in 0..Len(os) : Sent(ns)[f] = Sent(os)[f]

LEMMA SentStays ==
  ASSUME NEW os \in Opened, NEW name \in DOMAIN Disk,
         NEW ns, ns = Append(os, name)
  PROVE  OneMore(os, name, ns)
<1>1. /\ ns \in Opened /\ Len(ns) = Len(os) + 1 /\ ns[Len(ns)] = name
      /\ \A f \in 1..Len(os) : ns[f] = os[f]
  <2>1. os \in Seq(DOMAIN Disk) /\ Len(os) \in Nat
    BY DiskFacts DEF Opened
  <2> QED BY <2>1, AppendProperties DEF Opened
<1> DEFINE T == {f \in Nat : f <= Len(os) => Sent(ns)[f] = Sent(os)[f]}
<1>0. Len(os) \in Nat
  BY DiskFacts
<1>2. 0 \in T
  BY <1>1, SentRec
<1>3. ASSUME NEW f \in Nat, f \in T PROVE f + 1 \in T
  <2>1. CASE f + 1 <= Len(os)
    <3>1. /\ f <= Len(os) /\ f + 1 \in 1..Len(os) /\ (f + 1) - 1 = f
          /\ f + 1 \in 1..Len(ns)
      BY <1>0, <1>1, <2>1
    <3>2. /\ Sent(os)[f + 1] = Sent(os)[f] \o Contents(os, f + 1)
          /\ Sent(ns)[f + 1] = Sent(ns)[f] \o Contents(ns, f + 1)
      BY <1>1, <3>1, SentRec
    <3>3. Contents(ns, f + 1) = Contents(os, f + 1)
      BY <1>1, <3>1 DEF Contents
    <3>4. Sent(ns)[f] = Sent(os)[f]
      BY <1>3, <3>1
    <3>5. Sent(ns)[f + 1] = Sent(os)[f + 1]
      BY ONLY <3>2, <3>3, <3>4
    <3> QED BY <3>5
  <2>2. CASE ~(f + 1 <= Len(os))
    BY <2>2
  <2> QED BY <2>1, <2>2
<1>4. T \in SUBSET Nat
  OBVIOUS
<1> HIDE DEF T
<1>5. T = Nat
  BY <1>2, <1>3, <1>4, Induction
<1>6. ASSUME NEW f \in 0..Len(os) PROVE Sent(ns)[f] = Sent(os)[f]
  <2>1. f \in Nat /\ f <= Len(os)
    BY <1>0
  <2> QED BY <1>5, <2>1 DEF T
<1> QED BY <1>1, <1>6 DEF OneMore

(* What client 0 has opened.                                               *)
LEMMA OpenedFacts ==
  ASSUME TypeInv
  PROVE  /\ first.opened \in Opened /\ first.sent \in Nat
         /\ file \in Nat /\ (file = 0 <=> first.opened = <<>>)
         /\ file = 0 => nameFile = <<>>
         /\ file # 0 => /\ file \in 1..file
                        /\ nameFile = first.opened[file]
                        /\ nameFile \in DOMAIN Disk /\ Disk[nameFile] \in Nat
<1>1. first.opened \in Opened /\ first.sent \in Nat
  BY DEF TypeInv, First
<1>2. file \in Nat /\ (file = 0 <=> first.opened = <<>>)
  <2>1. first.opened \in Seq(DOMAIN Disk)
    BY <1>1 DEF Opened
  <2>2. first.opened = <<>> <=> Len(first.opened) = 0
    BY ONLY <2>1, EmptySeq
  <2> QED BY <2>1, <2>2 DEF file
<1>3. file = 0 => nameFile = <<>>
  BY <1>2 DEF nameFile
<1>4. file # 0 => /\ file \in 1..file /\ nameFile = first.opened[file]
                  /\ nameFile \in DOMAIN Disk /\ Disk[nameFile] \in Nat
  <2>1. SUFFICES ASSUME file # 0
                 PROVE  /\ file \in 1..file /\ nameFile = first.opened[file]
                        /\ nameFile \in DOMAIN Disk /\ Disk[nameFile] \in Nat
    OBVIOUS
  <2>2. file \in 1..file /\ first.opened # <<>>
    BY <1>2, <2>1
  <2>3. nameFile = first.opened[file]
    BY <2>2 DEF nameFile, file, Last
  <2> QED BY <1>1, <2>2, <2>3, DiskFacts DEF file
<1> QED BY <1>1, <1>2, <1>3, <1>4

(* Prefixes.                                                               *)
LEMMA PrefixOfJoin ==
  ASSUME NEW S, NEW s \in Seq(S), NEW t \in Seq(S)
  PROVE  IsPrefix(s, s \o t)
<1>1. s \o t \in Seq(S) /\ Len(s \o t) = Len(s) + Len(t) /\ Len(s) \in Nat /\ Len(t) \in Nat
  BY ConcatProperties
<1>2. \A i \in 1..Len(s) : (s \o t)[i] = s[i]
  BY <1>1, ConcatProperties
<1>3. SubSeq(s \o t, 1, Len(s)) = SubSeq(s, 1, Len(s))
  BY <1>1, <1>2
<1> QED BY <1>1, <1>3 DEF IsPrefix

(* A prefix is known by its elements.                                      *)
LEMMA PrefixElements ==
  ASSUME NEW S, NEW s \in Seq(S), NEW t \in Seq(S)
  PROVE  IsPrefix(s, t) <=> /\ Len(s) <= Len(t)
                            /\ \A i \in 1..Len(s) : s[i] = t[i]
<1>1. ASSUME IsPrefix(s, t), NEW i \in 1..Len(s) PROVE s[i] = t[i]
  <2>1. SubSeq(s, 1, Len(s))[i] = s[i] /\ SubSeq(t, 1, Len(s))[i] = t[i]
    OBVIOUS
  <2> QED BY <1>1, <2>1 DEF IsPrefix
<1>2. ASSUME Len(s) <= Len(t), \A i \in 1..Len(s) : s[i] = t[i]
      PROVE  SubSeq(s, 1, Len(s)) = SubSeq(t, 1, Len(s))
  BY <1>2
<1> QED BY <1>1, <1>2 DEF IsPrefix

LEMMA PrefixTransitive ==
  ASSUME NEW S, NEW s \in Seq(S), NEW t \in Seq(S), NEW u \in Seq(S),
         IsPrefix(s, t), IsPrefix(t, u)
  PROVE  IsPrefix(s, u)
  BY PrefixElements

LEMMA PrefixSameLen ==
  ASSUME NEW S, NEW s \in Seq(S), NEW t \in Seq(S), IsPrefix(s, t), Len(t) <= Len(s)
  PROVE  s = t
  BY PrefixElements, SeqEqual

-----------------------------------------------------------------------------
(* What is under way, channel by channel.                                  *)
UpstreamIs ==
  /\ Upstream[0] = <<>>
  /\ \A i \in Clients : Upstream[i + 1] = InChannel(i) \o Upstream[i]

LEMMA ClientFacts ==
  /\ N \in Nat \ {0} /\ Clients = 0..(N - 1) /\ Final = N - 1
  /\ Final \in Clients /\ 0 \in Clients
  BY SizesAssumption DEF Clients, Final

LEMMA UpstreamRec == UpstreamIs
<1> DEFINE c == [i \in Clients |-> InChannel(i)]
<1>1. PICK s : s = [i \in 0..N |-> IF i = 0 THEN <<>> ELSE c[i - 1] \o s[i - 1]]
  <2> HIDE DEF c
  <2> QED BY ClientFacts, StackExists
<1>2. s = [i \in 0..N |-> IF i = 0 THEN <<>> ELSE InChannel(i - 1) \o s[i - 1]]
  <2>1. \A i \in 0..N : i # 0 => i - 1 \in Clients
    BY ClientFacts
  <2> QED BY <1>1, <2>1
<1>3. Upstream = [i \in 0..N |-> IF i = 0 THEN <<>>
                                 ELSE InChannel(i - 1) \o Upstream[i - 1]]
  <2> HIDE DEF c
  <2> QED BY <1>2 DEF Upstream
<1>4. 0 \in 0..N
  BY ClientFacts
<1>5. ASSUME NEW i \in Clients PROVE Upstream[i + 1] = InChannel(i) \o Upstream[i]
  <2>1. i + 1 \in 0..N /\ i + 1 # 0 /\ (i + 1) - 1 = i
    BY ClientFacts
  <2> QED BY <1>3, <2>1
<1>6. Upstream[0] = <<>>
  BY <1>3, <1>4
<1> QED BY <1>5, <1>6 DEF UpstreamIs

LEMMA UpstreamRecNext == UpstreamIs'
  BY UpstreamRec, PTL

(* What a channel's buffer holds.                                          *)
LEMMA HeldType ==
  ASSUME NEW c \in Chan, c.size <= Len(c.buf)
  PROVE  Held(c) \in Seq(Unit) /\ Len(Held(c)) = c.size
<1>1. c.buf \in Seq(Unit) /\ c.size \in Nat /\ Len(c.buf) \in Nat
  BY DEF Chan
<1> DEFINE b == c.buf
           z == c.size
<1> HIDE DEF b, z
<1>2. b \in Seq(Unit) /\ z \in Nat /\ Len(b) \in Nat /\ z <= Len(b)
  BY <1>1 DEF b, z
<1>3. SubSeq(b, Len(b) - z + 1, Len(b)) \in Seq(Unit)
  BY <1>2
<1>4. Len(SubSeq(b, Len(b) - z + 1, Len(b))) = z
  BY <1>2
<1> QED BY <1>3, <1>4 DEF Held, b, z

LEMMA ChannelType ==
  ASSUME TypeInv, ChanInv, NEW i \in Clients
  PROVE  InChannel(i) \in Seq(Unit)
<1>1. Held(chan[i]) \in Seq(Unit)
  BY HeldType DEF TypeInv, ChanInv
<1>2. CS[i] \in Seq(Unit) /\ SC[i] \in Seq(Unit)
  BY DEF TypeInv, Units
<1> QED BY <1>1, <1>2 DEF InChannel

LEMMA ChannelTypes ==
  TypeInv /\ ChanInv => \A i \in Clients : InChannel(i) \in Seq(Unit)
  BY ChannelType

LEMMA UpstreamType ==
  ASSUME TypeInv, ChanInv
  PROVE  \A i \in 0..N : Upstream[i] \in Seq(Unit)
<1> DEFINE T == {i \in Nat : i <= N => Upstream[i] \in Seq(Unit)}
<1>1. 0 \in T
  BY UpstreamRec, EmptySeq DEF UpstreamIs
<1>2. ASSUME NEW i \in Nat, i \in T PROVE i + 1 \in T
  <2>1. CASE i + 1 <= N
    <3>1. i \in Clients /\ i <= N
      BY <2>1, ClientFacts
    <3>2. Upstream[i] \in Seq(Unit) /\ InChannel(i) \in Seq(Unit)
      BY <1>2, <3>1, ChannelType
    <3>3. Upstream[i + 1] = InChannel(i) \o Upstream[i]
      BY <3>1, UpstreamRec DEF UpstreamIs
    <3>4. Upstream[i + 1] \in Seq(Unit)
      BY <3>2, <3>3, ConcatProperties
    <3> QED BY <3>4
  <2>2. CASE ~(i + 1 <= N)
    BY <2>2
  <2> QED BY <2>1, <2>2
<1>3. T \in SUBSET Nat
  OBVIOUS
<1> HIDE DEF T
<1>4. T = Nat
  BY <1>1, <1>2, <1>3, Induction
<1>5. ASSUME NEW i \in 0..N PROVE Upstream[i] \in Seq(Unit)
  <2>1. i \in Nat /\ i <= N
    BY ClientFacts
  <2> QED BY <1>4, <2>1 DEF T
<1> QED BY <1>5

(* A step that leaves the channels from lo to hi as they are adds to the   *)
(* end of all of them what it adds to the end of those before.             *)
LEMMA UpstreamGrows ==
  ASSUME TypeInv, ChanInv,
         NEW hi \in 0..N, NEW lo \in 0..hi, NEW p \in Seq(Unit),
         \A j \in lo..(hi - 1) : InChannel(j)' = InChannel(j),
         Upstream'[lo] = Upstream[lo] \o p
  PROVE  Upstream'[hi] = Upstream[hi] \o p
<1> DEFINE c == [j \in Clients |-> InChannel(j)]
<1>0. hi \in Nat /\ \A j \in 0..(hi - 1) : j \in Clients
  BY ClientFacts
<1>1. \A j \in 0..(hi - 1) : c[j] \in Seq(Unit)
  BY <1>0, ChannelType
<1>2. \A j \in 0..(hi - 1) : Upstream[j] \in Seq(Unit)
  BY UpstreamType, ClientFacts
<1>3. \A j \in lo..(hi - 1) : Upstream[j + 1] = c[j] \o Upstream[j]
  <2> SUFFICES ASSUME NEW j \in lo..(hi - 1)
               PROVE  Upstream[j + 1] = c[j] \o Upstream[j]
    OBVIOUS
  <2>1. j \in Clients /\ j \in 0..(hi - 1)
    BY <1>0
  <2> QED BY <2>1, UpstreamRec DEF UpstreamIs
<1>4. \A j \in lo..(hi - 1) : Upstream'[j + 1] = c[j] \o Upstream'[j]
  <2> SUFFICES ASSUME NEW j \in lo..(hi - 1)
               PROVE  Upstream'[j + 1] = c[j] \o Upstream'[j]
    OBVIOUS
  <2>1. j \in Clients /\ j \in 0..(hi - 1)
    BY <1>0
  <2>2. Upstream'[j + 1] = InChannel(j)' \o Upstream'[j]
    BY <2>1, UpstreamRecNext DEF UpstreamIs
  <2> QED BY <2>1, <2>2
<1> HIDE DEF c
<1> DEFINE u == Upstream
           v == Upstream'
<1>5. /\ hi \in Nat /\ lo \in 0..hi
      /\ \A j \in 0..(hi - 1) : c[j] \in Seq(Unit) /\ u[j] \in Seq(Unit)
      /\ \A j \in lo..(hi - 1) : u[j + 1] = c[j] \o u[j]
      /\ \A j \in lo..(hi - 1) : v[j + 1] = c[j] \o v[j]
      /\ v[lo] = u[lo] \o p
  BY <1>0, <1>1, <1>2, <1>3, <1>4
<1> HIDE DEF u, v
<1>6. TwoStacks(Unit, hi, lo, p, c, u, v)
  BY <1>5 DEF TwoStacks
<1>7. v[hi] = u[hi] \o p
  BY <1>6, StackGrows
<1> QED BY <1>7 DEF u, v

-----------------------------------------------------------------------------
(* The steps that the proof need not tell apart.                           *)
ParentEnding ==
  /\ pc' \in {"over", "killed"}
  /\ UNCHANGED <<k, at, polled, chan, counter, sizeFile, ended, out, clientVars>>

Leaving(i) ==
  /\ client[i] # "none" /\ Leave(i)
  /\ UNCHANGED <<parentVars, first, names, sizes, SC, CS>>

(* A read into a buffer, from which nothing is output yet.                 *)
Filling ==
  /\ Readable
  /\ chan' = [chan EXCEPT ![at] = Filled(at)]
  /\ CS' = Drained(at)
  /\ pc' \in {"out", "over"} /\ (pc' = "over" => at = Final)
  /\ UNCHANGED <<k, at, polled, counter, sizeFile, ended, out,
                 client, first, names, sizes, SC>>

LEMMA StepCases ==
  ASSUME [Next]_vars
  PROVE  \/ UNCHANGED vars \/ ParentEnding \/ \E i \in Clients : Leaving(i)
         \/ Fork \/ SendName \/ Poll \/ HungUp \/ Filling \/ Output \/ Skip
         \/ Forward \/ NextChannel \/ Again \/ Counted
         \/ ReadName \/ SpliceFile \/ SendSize
         \/ \E i \in Clients \ {0} : Splice(i)
<1>1. CASE ParentStep
  <2>1. CASE Receive \/ OutputFails
    BY <2>1 DEF Receive, OutputFails, Filling
  <2> QED BY <1>1, <2>1 DEF ParentStep, ForkFails, ParentEnding
<1>2. CASE FirstStep
  <2>1. CASE FileFails \/ FirstBroken \/ FirstFinished
    <3>1. Leaving(0)
      BY <2>1 DEF FileFails, FirstBroken, FirstFinished, Leaving
    <3> QED BY <3>1, ClientFacts
  <2> QED BY <1>2, <2>1 DEF FirstStep
<1>3. ASSUME NEW i \in Clients \ {0}, ClientStep(i)
      PROVE  Splice(i) \/ Leaving(i)
  BY <1>3 DEF ClientStep, WouldBlock, Broken, Finished, Leaving
<1>4. CASE KillParent
  BY <1>4 DEF KillParent, ParentEnding
<1>5. ASSUME NEW i \in Clients, KillClient(i) PROVE Leaving(i)
  BY <1>5 DEF KillClient, Leaving
<1> QED BY <1>1, <1>2, <1>3, <1>4, <1>5 DEF Next

(* The buffer after a read holds the beginning of the pipe.                *)
LEMMA FilledFacts ==
  ASSUME TypeInv, NEW i \in Clients
  PROVE  /\ Filled(i) \in Chan
         /\ Filled(i).size \in 0..Len(CS[i])
         /\ Filled(i).buf = SubSeq(CS[i], 1, Filled(i).size)
         /\ Len(Filled(i).buf) = Filled(i).size
         /\ Filled(i).curPos = chan[i].curPos
<1> DEFINE s == CS[i]
           n == Least(Len(s), Capacity[i])
<1>1. s \in Seq(Unit) /\ Capacity[i] \in Nat \ {0} /\ chan[i] \in Chan
  BY SizesAssumption DEF TypeInv, Units
<1>2. Len(s) \in Nat
  BY <1>1
<1>3. n \in 0..Len(s)
  BY <1>1, <1>2 DEF Least
<1>4. Filled(i) = [chan[i] EXCEPT !.buf = SubSeq(s, 1, n), !.size = n]
  BY DEF Filled
<1> HIDE DEF s, n
<1>5. SubSeq(s, 1, n) \in Seq(Unit) /\ Len(SubSeq(s, 1, n)) = n /\ n \in Nat
  BY <1>1, <1>2, <1>3
<1>6. /\ Filled(i).buf = SubSeq(s, 1, n) /\ Filled(i).size = n
      /\ Filled(i).curPos = chan[i].curPos /\ Filled(i) \in Chan
  BY <1>1, <1>4, <1>5 DEF Chan
<1> QED BY <1>3, <1>5, <1>6 DEF s

LEMMA SplitFacts ==
  ASSUME NEW S, NEW s \in Seq(S), NEW n \in 0..Len(s)
  PROVE  /\ SubSeq(s, 1, n) \in Seq(S) /\ SubSeq(s, n + 1, Len(s)) \in Seq(S)
         /\ Len(SubSeq(s, 1, n)) = n
         /\ Len(SubSeq(s, n + 1, Len(s))) = Len(s) - n
         /\ SubSeq(s, 1, n) \o SubSeq(s, n + 1, Len(s)) = s
<1> DEFINE a == SubSeq(s, 1, n)
           b == SubSeq(s, n + 1, Len(s))
<1>1. Len(s) \in Nat /\ n \in Nat /\ n <= Len(s)
  OBVIOUS
<1>2. a \in Seq(S) /\ Len(a) = n /\ \A i \in 1..n : a[i] = s[i]
  BY <1>1
<1>3. /\ b \in Seq(S) /\ Len(b) = Len(s) - n
      /\ \A i \in 1..(Len(s) - n) : b[i] = s[i + n]
  BY <1>1
<1> HIDE DEF a, b
<1>4. /\ a \o b \in Seq(S) /\ Len(a \o b) = Len(s)
      /\ \A i \in 1..Len(s) : (a \o b)[i] = IF i <= n THEN a[i] ELSE b[i - n]
  BY <1>1, <1>2, <1>3, ConcatProperties
<1>5. \A i \in 1..Len(s) : (a \o b)[i] = s[i]
  BY <1>1, <1>2, <1>3, <1>4
<1>6. a \o b = s
  BY <1>4, <1>5, SeqEqual
<1> QED BY <1>2, <1>3, <1>6 DEF a, b

LEMMA SliceFacts ==
  ASSUME NEW S, NEW s \in Seq(S), NEW q \in Nat, NEW n \in Nat, q + n <= Len(s)
  PROVE  /\ SubSeq(s, 1, q) \in Seq(S)
         /\ SubSeq(s, q + 1, q + n) \in Seq(S)
         /\ SubSeq(s, 1, q) \o SubSeq(s, q + 1, q + n) = SubSeq(s, 1, q + n)
<1> DEFINE t == SubSeq(s, 1, q + n)
<1>1. Len(s) \in Nat
  OBVIOUS
<1>2. t \in Seq(S) /\ Len(t) = q + n /\ \A i \in 1..(q + n) : t[i] = s[i]
  BY <1>1
<1>3. SubSeq(s, 1, q) = SubSeq(t, 1, q)
  BY <1>1, <1>2
<1>4. SubSeq(s, q + 1, q + n) = SubSeq(t, q + 1, q + n)
  BY <1>1, <1>2
<1> HIDE DEF t
<1>5. q \in 0..Len(t)
  BY <1>2
<1>6. /\ SubSeq(t, 1, q) \in Seq(S) /\ SubSeq(t, q + 1, Len(t)) \in Seq(S)
      /\ SubSeq(t, 1, q) \o SubSeq(t, q + 1, Len(t)) = t
  BY <1>2, <1>5, SplitFacts
<1> QED BY <1>2, <1>3, <1>4, <1>6 DEF t

LEMMA AdvanceFacts ==
  ASSUME NEW c \in Chan, c.size > 0
  PROVE  /\ Advance(c) \in Chan
         /\ Advance(c).buf = c.buf /\ Advance(c).size = c.size - 1
         /\ Advance(c).curPos = IF c.size = 1 THEN 0 ELSE c.curPos + 1
<1> DEFINE x == IF c.size = 1 THEN 0 ELSE c.curPos + 1
           y == c.size - 1
<1>1. x \in Nat /\ y \in Nat
  BY DEF Chan
<1>2. Advance(c) = [c EXCEPT !.curPos = x, !.size = y]
  BY DEF Advance
<1> HIDE DEF x, y
<1>3. /\ Advance(c) \in Chan /\ Advance(c).buf = c.buf
      /\ Advance(c).size = y /\ Advance(c).curPos = x
  BY <1>1, <1>2 DEF Chan
<1> QED BY <1>3 DEF x, y

(* What the steps that move data do.                                       *)
LEMMA OutputFacts ==
  ASSUME TypeInv, Output
  PROVE  \E n \in 0..Filled(at).size :
           /\ chan' = [chan EXCEPT ![at] = [Filled(at) EXCEPT !.size = @ - n]]
           /\ out' = out \o SubSeq(Filled(at).buf, 1, n)
           /\ counter' = counter + n
<1> DEFINE c == Filled(at)
<1>1. c.size \in Nat
  BY FilledFacts DEF TypeInv, Units
<1>2. PICK n \in IF "output" \in faults THEN 0..c.size ELSE {c.size} :
        /\ chan' = [chan EXCEPT ![at] = [c EXCEPT !.size = @ - n]]
        /\ out' = out \o SubSeq(c.buf, 1, n)
        /\ counter' = counter + n
  BY DEF Output
<1> HIDE DEF c
<1>3. n \in 0..c.size
  BY <1>1, <1>2
<1> QED BY <1>2, <1>3 DEF c

LEMMA ForwardFacts ==
  ASSUME TypeInv, ChanInv, Forward, ~Gone(at),
         NEW c, c = chan[at - 1]
  PROVE  /\ at \in Clients \ {0} /\ at - 1 \in Clients /\ at - 1 # Final
         /\ c \in Chan /\ c.size \in 1..Len(c.buf)
         /\ c.curPos = Len(c.buf) - c.size
         /\ SC' = [SC EXCEPT ![at] = Append(@, c.buf[c.curPos + 1])]
         /\ chan' = [chan EXCEPT ![at - 1] = Advance(c)]
<1>1. at \in Clients \ {0}
  BY DEF Forward, Forwarding, TypeInv, Polled
<1>2. at - 1 \in Clients /\ at - 1 # Final
  BY <1>1, ClientFacts
<1>3. c \in Chan /\ c.size > 0
  BY <1>2 DEF Forward, Forwarding, TypeInv
<1>4. c.size <= Len(c.buf) /\ c.curPos = IF c.size = 0 THEN 0 ELSE Len(c.buf) - c.size
  BY <1>2 DEF ChanInv
<1>5. c.size \in Nat /\ Len(c.buf) \in Nat
  BY <1>3 DEF Chan
<1> QED BY <1>1, <1>2, <1>3, <1>4, <1>5 DEF Forward

LEMMA SpliceFileFacts ==
  ASSUME TypeInv, FirstInv, SpliceFile
  PROVE  \E n \in Nat \ {0} :
           /\ first.sent + n <= Disk[first.opened[file]]
           /\ CS' = [CS EXCEPT ![0] =
                        @ \o SubSeq(Contents(first.opened, file),
                                   first.sent + 1, first.sent + n)]
           /\ first' = [first EXCEPT !.sent = @ + n]
<1> DEFINE b == Disk[first.opened[file]]
           q == first.sent
           r == PipeSize - Len(CS[0])
<1>1. b \in Nat /\ q \in Nat /\ b = Disk[nameFile]
  BY OpenedFacts DEF FirstInv, SpliceFile
<1>2. r \in Int
  <2>1. PipeSize \in Nat /\ Len(CS[0]) \in Nat
    BY SizesAssumption, ClientFacts DEF TypeInv, Units
  <2> QED BY <2>1
<1>3. PICK n \in 1..Least(b - q, r) :
        /\ CS' = [CS EXCEPT ![0] =
                     @ \o SubSeq(Contents(first.opened, file), q + 1, q + n)]
        /\ first' = [first EXCEPT !.sent = @ + n]
  BY <1>1 DEF SpliceFile
<1> HIDE DEF b, q, r
<1>4. n \in Nat \ {0} /\ q + n <= b
  BY <1>1, <1>2, <1>3 DEF Least
<1> QED BY <1>3, <1>4 DEF b, q

LEMMA SpliceFacts ==
  ASSUME TypeInv, NEW i \in Clients \ {0}, Splice(i)
  PROVE  \E n \in 0..Len(SC[i]) :
           /\ CS' = [CS EXCEPT ![i] = @ \o SubSeq(SC[i], 1, n)]
           /\ SC' = [SC EXCEPT ![i] = SubSeq(@, n + 1, Len(@))]
<1> DEFINE b == Len(SC[i])
           r == PipeSize - Len(CS[i])
<1>1. b \in Nat
  BY DEF TypeInv, Units
<1>2. r \in Int
  <2>1. PipeSize \in Nat /\ Len(CS[i]) \in Nat
    BY SizesAssumption DEF TypeInv, Units
  <2> QED BY <2>1
<1>3. PICK n \in 1..Least(b, r) :
        /\ CS' = [CS EXCEPT ![i] = @ \o SubSeq(SC[i], 1, n)]
        /\ SC' = [SC EXCEPT ![i] = SubSeq(@, n + 1, Len(@))]
  BY DEF Splice
<1> HIDE DEF b, r
<1>4. n \in 0..b
  BY <1>1, <1>2, <1>3 DEF Least
<1> QED BY <1>3, <1>4 DEF b

LEMMA DrainedType ==
  ASSUME TypeInv, NEW i \in Clients
  PROVE  Drained(i) \in [Clients -> Units]
<1>1. CS[i] \in Seq(Unit) /\ Filled(i).size \in 0..Len(CS[i])
  BY FilledFacts DEF TypeInv, Units
<1>2. SubSeq(CS[i], Filled(i).size + 1, Len(CS[i])) \in Units
  BY <1>1, SplitFacts DEF Units
<1> QED BY <1>2 DEF Drained, TypeInv

LEMMA NameAppended ==
  ASSUME TypeInv
  PROVE  names \o Files[k] \in Names
<1>1. names \in Seq(Chars) /\ Files[k] \in Seq(Chars)
  BY FileFacts DEF TypeInv, Names
<1> QED BY <1>1, ConcatProperties DEF Names

(* A name that is read opens one file more, or ends client 0.              *)
Opening ==
  /\ Overlaid \in DOMAIN Disk
  /\ client' = [client EXCEPT ![0] = "splice"]
  /\ first' = [opened |-> Append(first.opened, Overlaid), sent |-> 0]

LEMMA ReadNameCases ==
  ASSUME TypeInv, ReadName
  PROVE  /\ client[0] = "read" /\ names # <<>> /\ names' = <<>>
         /\ UNCHANGED <<parentVars, sizes, SC, CS>>
         /\ \/ Opening /\ client'[0] = "splice"
            \/ Leave(0) /\ first' = first /\ client'[0] = "gone"
  BY ClientFacts DEF ReadName, Opening, Leave, TypeInv

LEMMA OpeningFacts ==
  ASSUME TypeInv, Opening
  PROVE  /\ first' \in First /\ first'.opened \in Opened /\ first'.sent = 0
         /\ file' = file + 1 /\ first'.opened[file + 1] = Overlaid
         /\ \A f \in 1..file : first'.opened[f] = first.opened[f]
         /\ \A f \in 0..file : Sent(first'.opened)[f] = Sent(first.opened)[f]
<1>1. PICK os \in Opened : os = first.opened
  BY OpenedFacts
<1>2. PICK name \in DOMAIN Disk : name = Overlaid
  BY DEF Opening
<1>3. PICK ns : ns = Append(os, name)
  OBVIOUS
<1>4. /\ ns \in Opened /\ Len(ns) = Len(os) + 1 /\ ns[Len(ns)] = name
      /\ \A f \in 1..Len(os) : ns[f] = os[f]
      /\ \A f \in 0..Len(os) : Sent(ns)[f] = Sent(os)[f]
  <2>1. OneMore(os, name, ns)
    BY ONLY <1>3, SentStays
  <2> QED BY <2>1 DEF OneMore
<1>5. first'.opened = ns /\ first'.sent = 0 /\ first' \in First
  BY <1>1, <1>2, <1>3, <1>4 DEF Opening, First
<1>6. file' = Len(ns)
  BY <1>5 DEF file
<1> QED BY <1>1, <1>2, <1>4, <1>5, <1>6 DEF file

LEMMA NoneWaiting == <<>> \in Names /\ <<>> \in Sizes /\ <<>> \in Units
  BY EmptySeq DEF Names, Sizes, Units

(* SendFile's return, however it came about.                               *)
LEMMA ReturnType ==
  ASSUME TypeInv, NEW how \in {"counted", "out"}, Return(how)
  PROVE  TypeInv'
<1>1. ended' \in Seq({"counted", "out"})
  BY AppendProperties DEF TypeInv, Return, Ends
<1>2. k' \in 1..NumFiles /\ at' \in Clients /\ pc' \in {"name", "over"}
  BY ClientFacts, FileFacts DEF TypeInv, Return, NumFiles
<1>3. /\ polled' \in Polled
      /\ chan' \in [Clients -> Chan] /\ counter' \in Nat
      /\ sizeFile' \in Nat \cup {LONG_MAX}
  BY DEF TypeInv, Return, NoEvents, Polled, clientVars
<1>4. /\ out' \in Units /\ names' \in Names /\ sizes' \in Sizes
      /\ SC' \in [Clients -> Units] /\ CS' \in [Clients -> Units]
  BY Zenon DEF TypeInv, Return, clientVars
<1>5. /\ client' \in [Clients -> {"none", "read", "splice", "gone"}]
      /\ first' \in First
  BY Zenon DEF TypeInv, Return, clientVars
<1> QED BY <1>1, <1>2, <1>3, <1>4, <1>5, Zenon DEF TypeInv, Ends

-----------------------------------------------------------------------------
(* The types.                                                              *)
LEMMA TypeStep ==
  ASSUME TypeInv, ChanInv, PollInv, FirstInv, [Next]_vars
  PROVE  TypeInv'
<1> USE DEF TypeInv, parentVars, clientVars, vars
<1>1. CASE UNCHANGED vars
  BY <1>1
<1>2. CASE ParentEnding
  BY <1>2 DEF ParentEnding
<1>3. ASSUME NEW i \in Clients, Leaving(i) PROVE TypeInv'
  BY <1>3 DEF Leaving, Leave
<1>4. CASE Fork
  BY <1>4, ClientFacts DEF Fork
<1>5. CASE SendName
  BY <1>5, NameAppended DEF SendName, WriteName
<1>6. CASE Poll
  <2>1. sizes' \in Sizes /\ sizeFile' \in Nat \cup {LONG_MAX}
    <3>1. CASE sizes = <<>>
      BY <1>6, <3>1 DEF Poll
    <3>2. CASE sizes # <<>>
      <4>1. sizes' = Tail(sizes) /\ sizeFile' = Head(sizes)
        BY <1>6, <3>2 DEF Poll
      <4>2. sizes \in Seq(Nat)
        BY DEF Sizes
      <4>3. Head(sizes) \in Nat /\ Tail(sizes) \in Seq(Nat)
        BY ONLY <3>2, <4>2, HeadTailProperties, Zenon
      <4> QED BY ONLY <4>1, <4>3 DEF Sizes
    <3> QED BY <3>1, <3>2
  <2>2. polled' \in Polled
    BY <1>6 DEF Poll, Events, Polled
  <2> QED BY <1>6, <2>1, <2>2, ClientFacts DEF Poll
<1>7. CASE HungUp
  BY <1>7, ReturnType DEF HungUp
<1>8. CASE Filling
  <2>1. Filled(at) \in Chan /\ Drained(at) \in [Clients -> Units]
    BY FilledFacts, DrainedType
  <2> QED BY <1>8, <2>1 DEF Filling
<1>9. CASE Output
  <2> DEFINE c == Filled(at)
  <2>1. /\ c \in Chan /\ Drained(at) \in [Clients -> Units]
        /\ c.size \in 0..Len(CS[at]) /\ Len(c.buf) = c.size
    BY FilledFacts, DrainedType
  <2>2. PICK n \in 0..c.size :
          /\ chan' = [chan EXCEPT ![at] = [c EXCEPT !.size = @ - n]]
          /\ out' = out \o SubSeq(c.buf, 1, n)
          /\ counter' = counter + n
    BY <1>9, OutputFacts
  <2> HIDE DEF c
  <2>3. n \in 0..Len(c.buf) /\ c.buf \in Seq(Unit) /\ c.size - n \in Nat /\ n \in Nat
    BY <2>1, <2>2, SMTT(30) DEF Chan
  <2>4. [c EXCEPT !.size = @ - n] \in Chan
    BY <2>1, <2>3 DEF Chan
  <2>5. out' \in Units
    <3>1. SubSeq(c.buf, 1, n) \in Seq(Unit)
      BY <2>3, SplitFacts
    <3>2. out \in Seq(Unit)
      BY DEF Units
    <3> QED BY <2>2, <3>1, <3>2, ConcatProperties DEF Units
  <2>6. chan' \in [Clients -> Chan] /\ counter' \in Nat
    BY <2>2, <2>3, <2>4
  <2>7. CS' \in [Clients -> Units]
    BY <1>9, <2>1 DEF Output
  <2> QED BY <1>9, <2>5, <2>6, <2>7 DEF Output
<1>10. CASE Skip
  BY <1>10 DEF Skip
<1>11. CASE Forward
  <2>1. CASE Gone(at)
    BY <1>11, <2>1 DEF Forward
  <2>2. CASE ~Gone(at)
    <3>1. PICK c : c = chan[at - 1]
      OBVIOUS
    <3> DEFINE e == c.buf[c.curPos + 1]
    <3>2. /\ at \in Clients \ {0} /\ at - 1 \in Clients
          /\ c \in Chan /\ c.size \in 1..Len(c.buf)
          /\ c.curPos = Len(c.buf) - c.size
          /\ SC' = [SC EXCEPT ![at] = Append(@, e)]
          /\ chan' = [chan EXCEPT ![at - 1] = Advance(c)]
      BY <1>11, <2>2, <3>1, ForwardFacts
    <3>3. e \in Unit
      <4>1. c.buf \in Seq(Unit) /\ c.curPos + 1 \in 1..Len(c.buf)
        BY <3>2, SMTT(30) DEF Chan
      <4> QED BY <4>1, ElementOfSeq
    <3>4. Advance(c) \in Chan
      BY <3>2, AdvanceFacts, SMTT(30) DEF Chan
    <3> HIDE DEF e
    <3>5. Append(SC[at], e) \in Units
      BY <3>2, <3>3, AppendProperties DEF Units
    <3>6. SC' \in [Clients -> Units] /\ chan' \in [Clients -> Chan]
      BY <3>2, <3>4, <3>5
    <3> QED BY <1>11, <2>2, <3>6 DEF Forward
  <2> QED BY <2>1, <2>2
<1>12. CASE NextChannel
  BY <1>12, ClientFacts DEF NextChannel
<1>13. CASE Again
  BY <1>13, ClientFacts DEF Again, NoEvents, Polled
<1>14. CASE Counted
  BY <1>14, ReturnType DEF Counted
<1>15. CASE ReadName
  <2>1. /\ names' \in Names /\ UNCHANGED <<parentVars, sizes, SC, CS>>
        /\ (Opening /\ client'[0] = "splice") \/ (Leave(0) /\ first' = first)
    BY <1>15, ReadNameCases, NoneWaiting
  <2>2. client' \in [Clients -> {"none", "read", "splice", "gone"}]
    BY <2>1 DEF Opening, Leave
  <2>3. first' \in First
    BY <2>1, OpeningFacts
  <2> QED BY <2>1, <2>2, <2>3
<1>16. CASE SpliceFile
  <2> DEFINE s == Contents(first.opened, file)
             q == first.sent
  <2>1. /\ s \in Seq(Unit) /\ Len(s) = Disk[first.opened[file]] /\ q \in Nat
        /\ 0 \in Clients /\ first.opened \in Opened
    <3>1. file \in 1..Len(first.opened) /\ first.opened \in Opened
      BY <1>16, OpenedFacts DEF FirstInv, SpliceFile, file
    <3>2. s \in Seq(Unit) /\ Len(s) = Disk[first.opened[file]]
      BY <3>1, DiskFacts
    <3> QED BY <3>1, <3>2, OpenedFacts, ClientFacts
  <2>2. PICK n \in Nat \ {0} :
          /\ q + n <= Disk[first.opened[file]]
          /\ CS' = [CS EXCEPT ![0] = @ \o SubSeq(s, q + 1, q + n)]
          /\ first' = [first EXCEPT !.sent = @ + n]
    BY <1>16, SpliceFileFacts
  <2>3. q + n <= Len(s)
    BY <2>1, <2>2
  <2> HIDE DEF s, q
  <2>4. SubSeq(s, q + 1, q + n) \in Seq(Unit)
    BY <2>1, <2>2, <2>3, SliceFacts
  <2>5. CS[0] \o SubSeq(s, q + 1, q + n) \in Units
    BY <2>1, <2>4, ConcatProperties DEF Units
  <2>6. CS' \in [Clients -> Units]
    BY <2>1, <2>2, <2>5
  <2>7. first' \in First
    <3>1. first.sent + n \in Nat
      BY <2>1, <2>2 DEF q
    <3> QED BY <2>2, <3>1 DEF First
  <2> QED BY <1>16, <2>6, <2>7 DEF SpliceFile
<1>17. CASE SendSize
  BY <1>17, AppendProperties DEF SendSize, First, Sizes
<1>18. ASSUME NEW i \in Clients \ {0}, Splice(i) PROVE TypeInv'
  <2>1. PICK n \in 0..Len(SC[i]) :
          /\ CS' = [CS EXCEPT ![i] = @ \o SubSeq(SC[i], 1, n)]
          /\ SC' = [SC EXCEPT ![i] = SubSeq(@, n + 1, Len(@))]
    BY <1>18, SpliceFacts
  <2>2. SC[i] \in Seq(Unit) /\ CS[i] \in Seq(Unit)
    BY DEF Units
  <2>4. CS[i] \o SubSeq(SC[i], 1, n) \in Units /\ SubSeq(SC[i], n + 1, Len(SC[i])) \in Units
    BY <2>1, <2>2, SplitFacts, ConcatProperties DEF Units
  <2>5. CS' \in [Clients -> Units] /\ SC' \in [Clients -> Units]
    BY <2>1, <2>4
  <2> QED BY <1>18, <2>5 DEF Splice
<1> QED
  BY StepCases, <1>1, <1>2, <1>3, <1>4, <1>5, <1>6, <1>7, <1>8, <1>9, <1>10,
     <1>11, <1>12, <1>13, <1>14, <1>15, <1>16, <1>17, <1>18

(* The buffers' data ends where they do.                                   *)
LEMMA ChanStep ==
  ASSUME TypeInv, ChanInv, PollInv, [Next]_vars
  PROVE  ChanInv'
<1> USE DEF ChanInv, parentVars, clientVars, vars
<1>1. CASE UNCHANGED vars
  BY <1>1
<1>2. CASE ParentEnding
  BY <1>2 DEF ParentEnding
<1>3. ASSUME NEW i \in Clients, Leaving(i) PROVE ChanInv'
  BY <1>3 DEF Leaving, Leave
<1>4. CASE Fork
  BY <1>4 DEF Fork
<1>5. CASE SendName
  BY <1>5 DEF SendName, WriteName
<1>6. CASE Poll
  BY <1>6 DEF Poll
<1>7. CASE HungUp
  BY <1>7 DEF HungUp, Return
<1>8. CASE Filling
  <2>1. /\ Filled(at).size \in Nat /\ Len(Filled(at).buf) = Filled(at).size
        /\ Filled(at).curPos = chan[at].curPos
    BY FilledFacts DEF TypeInv, Units
  <2>2. chan' = [chan EXCEPT ![at] = Filled(at)] /\ at \in Clients
    BY <1>8, ClientFacts DEF Filling, TypeInv
  <2>3. at # Final => chan[at].curPos = 0
    BY <1>8, <2>2 DEF Filling, Readable, PollInv, Ahead
  <2>4. chan \in [Clients -> Chan]
    BY DEF TypeInv
  <2> HIDE DEF vars
  <2> QED BY <2>1, <2>2, <2>3, <2>4
<1>9. CASE Output
  <2>1. /\ Filled(at).size \in Nat /\ Len(Filled(at).buf) = Filled(at).size
        /\ Filled(at) \in Chan
    BY FilledFacts DEF TypeInv, Units
  <2>2. PICK n \in 0..Filled(at).size :
          chan' = [chan EXCEPT ![at] = [Filled(at) EXCEPT !.size = @ - n]]
    BY <1>9, OutputFacts
  <2>3. at = Final /\ at \in Clients /\ chan \in [Clients -> Chan]
    BY <1>9 DEF Output, TypeInv
  <2>4. [Filled(at) EXCEPT !.size = @ - n].size <= Len([Filled(at) EXCEPT !.size = @ - n].buf)
    BY <2>1, <2>2 DEF Chan
  <2> QED BY <2>2, <2>3, <2>4
<1>10. CASE Skip
  BY <1>10 DEF Skip
<1>11. CASE Forward
  <2>1. CASE Gone(at)
    BY <1>11, <2>1 DEF Forward
  <2>2. CASE ~Gone(at)
    <3>1. PICK c : c = chan[at - 1]
      OBVIOUS
    <3>2. /\ at - 1 \in Clients /\ at - 1 # Final
          /\ c \in Chan /\ c.size \in 1..Len(c.buf)
          /\ c.curPos = Len(c.buf) - c.size
          /\ chan' = [chan EXCEPT ![at - 1] = Advance(c)]
      BY <1>11, <2>2, <3>1, ForwardFacts
    <3>3. Len(c.buf) \in Nat
      BY <3>2 DEF Chan
    <3>4. /\ Advance(c).size <= Len(Advance(c).buf)
          /\ Advance(c).curPos = IF Advance(c).size = 0 THEN 0
                                    ELSE Len(Advance(c).buf) - Advance(c).size
      BY <3>2, <3>3, AdvanceFacts
    <3>5. chan \in [Clients -> Chan]
      BY DEF TypeInv
    <3> QED BY <3>2, <3>4, <3>5
  <2> QED BY <2>1, <2>2
<1>12. CASE NextChannel
  BY <1>12 DEF NextChannel
<1>13. CASE Again
  BY <1>13 DEF Again
<1>14. CASE Counted
  BY <1>14 DEF Counted, Return
<1>15. CASE ReadName
  BY <1>15 DEF ReadName
<1>16. CASE SpliceFile
  BY <1>16 DEF SpliceFile
<1>17. CASE SendSize
  BY <1>17 DEF SendSize
<1>18. ASSUME NEW i \in Clients \ {0}, Splice(i) PROVE ChanInv'
  BY <1>18 DEF Splice
<1> QED
  BY StepCases, <1>1, <1>2, <1>3, <1>4, <1>5, <1>6, <1>7, <1>8, <1>9, <1>10,
     <1>11, <1>12, <1>13, <1>14, <1>15, <1>16, <1>17, <1>18

(* The snapshot stays true of the channels that have not been looked at.   *)
LEMMA PollStep ==
  ASSUME TypeInv, ChanInv, PollInv, ForkInv, [Next]_vars
  PROVE  PollInv'
<1> USE DEF PollInv, Ahead, Gone, parentVars, clientVars, vars
<1>1. CASE UNCHANGED vars
  BY <1>1
<1>2. CASE ParentEnding
  BY <1>2 DEF ParentEnding
<1>3. ASSUME NEW i \in Clients, Leaving(i) PROVE PollInv'
  <2>1. client' = [client EXCEPT ![i] = "gone"] /\ polled' = polled /\ pc' = pc
        /\ at' = at /\ chan' = chan
    BY <1>3 DEF Leaving, Leave
  <2>2. client \in [Clients -> {"none", "read", "splice", "gone"}] /\ polled \in Polled
    BY DEF TypeInv
  <2> QED BY <2>1, <2>2 DEF Polled
<1>4. CASE Fork
  <2>1. /\ \A i \in Clients : client[i] = "gone" => client'[i] = "gone"
        /\ polled' = polled /\ pc' \in {"fork", "name"}
    BY <1>4, ClientFacts DEF Fork, TypeInv, ForkInv
  <2>2. polled \in Polled
    BY DEF TypeInv
  <2> QED BY <2>1, <2>2 DEF Polled
<1>5. CASE SendName
  BY <1>5 DEF SendName, WriteName
<1>6. CASE Poll
  <2>1. /\ polled' = Events /\ pc' = "in" /\ at' = 0
        /\ chan' = chan /\ client' = client
    BY <1>6 DEF Poll
  <2>2. \A i \in Clients : i = 0 \/ i > 0
    BY ClientFacts
  <2> QED BY <2>1, <2>2 DEF Events
<1>7. CASE HungUp
  BY <1>7 DEF HungUp, Return, NoEvents
<1>8. CASE Filling
  <2>1. /\ chan' = [chan EXCEPT ![at] = Filled(at)] /\ pc = "in"
        /\ pc' \in {"out", "over"}
        /\ at' = at /\ polled' = polled /\ client' = client /\ at \notin polled.hup
    BY <1>8 DEF Filling, Readable
  <2>2. chan \in [Clients -> Chan] /\ at \in Nat /\ polled \in Polled
    BY ClientFacts DEF TypeInv
  <2> QED BY <2>1, <2>2, ClientFacts DEF Polled
<1>9. CASE Output
  <2>1. PICK c : chan' = [chan EXCEPT ![at] = c]
    BY <1>9 DEF Output
  <2>2. /\ pc = "in" /\ pc' = "out"
        /\ at' = at /\ polled' = polled /\ client' = client /\ at \notin polled.hup
    BY <1>9 DEF Output, Readable
  <2>3. chan \in [Clients -> Chan] /\ at \in Nat /\ polled \in Polled
    BY ClientFacts DEF TypeInv
  <2> QED BY <2>1, <2>2, <2>3, ClientFacts DEF Polled
<1>10. CASE Skip
  <2>1. at \in Nat /\ polled \in Polled
    BY ClientFacts DEF TypeInv
  <2> QED BY <1>10, <2>1, ClientFacts DEF Skip, Polled
<1>11. CASE Forward
  <2>1. CASE Gone(at)
    BY <1>11, <2>1 DEF Forward
  <2>2. CASE ~Gone(at)
    <3>1. PICK c : c = chan[at - 1]
      OBVIOUS
    <3>2. /\ at \in Clients /\ at - 1 \in Clients
          /\ chan' = [chan EXCEPT ![at - 1] = Advance(c)]
      BY <1>11, <2>2, <3>1, ForwardFacts
    <3>3. /\ pc = "out" /\ pc' = "out" /\ at' = at /\ polled' = polled
          /\ client' = client /\ chan \in [Clients -> Chan] /\ polled \in Polled
      BY <1>11, <2>2 DEF Forward, TypeInv
    <3> QED BY <3>2, <3>3, ClientFacts DEF Polled
  <2> QED BY <2>1, <2>2
<1>12. CASE NextChannel
  <2>1. at \in Nat /\ polled \in Polled
    BY ClientFacts DEF TypeInv
  <2> QED BY <1>12, <2>1, ClientFacts DEF NextChannel, Polled
<1>13. CASE Again
  BY <1>13 DEF Again, NoEvents
<1>14. CASE Counted
  BY <1>14 DEF Counted, Return, NoEvents
<1>15. CASE ReadName
  <2>1. /\ \A i \in Clients : client[i] = "gone" => client'[i] = "gone"
        /\ polled' = polled /\ pc' = pc /\ at' = at /\ chan' = chan
    BY <1>15 DEF ReadName, Leave, TypeInv
  <2>2. polled \in Polled
    BY DEF TypeInv
  <2> QED BY <2>1, <2>2 DEF Polled
<1>16. CASE SpliceFile
  BY <1>16 DEF SpliceFile
<1>17. CASE SendSize
  <2>1. /\ \A i \in Clients : client[i] = "gone" => client'[i] = "gone"
        /\ polled' = polled /\ pc' = pc /\ at' = at /\ chan' = chan
    BY <1>17 DEF SendSize, TypeInv
  <2>2. polled \in Polled
    BY DEF TypeInv
  <2> QED BY <2>1, <2>2 DEF Polled
<1>18. ASSUME NEW i \in Clients \ {0}, Splice(i) PROVE PollInv'
  BY <1>18 DEF Splice
<1> QED
  BY StepCases, <1>1, <1>2, <1>3, <1>4, <1>5, <1>6, <1>7, <1>8, <1>9, <1>10,
     <1>11, <1>12, <1>13, <1>14, <1>15, <1>16, <1>17, <1>18

(* A client that is not forked yet is nowhere.                             *)
LEMMA ForkStep ==
  ASSUME TypeInv, ForkInv, [Next]_vars
  PROVE  ForkInv'
<1> USE DEF ForkInv, parentVars, clientVars, vars
<1>1. CASE UNCHANGED vars
  BY <1>1
<1>2. CASE ParentEnding
  BY <1>2 DEF ParentEnding
<1>3. ASSUME NEW i \in Clients, Leaving(i) PROVE ForkInv'
  <2>1. client' = [client EXCEPT ![i] = "gone"] /\ client[i] # "none" /\ pc' = pc
        /\ at' = at /\ client \in [Clients -> {"none", "read", "splice", "gone"}]
    BY <1>3 DEF Leaving, Leave, TypeInv
  <2> QED BY <2>1
<1>4. CASE Fork
  <2>1. /\ \A i \in Clients : i # at => client'[i] = client[i]
        /\ pc = "fork" /\ at \in Clients
        /\ pc' = "fork" => at' = at + 1
    BY <1>4 DEF Fork, TypeInv
  <2> QED BY <2>1, ClientFacts
<1>5. CASE SendName
  BY <1>5 DEF SendName, WriteName
<1>6. CASE Poll
  BY <1>6 DEF Poll
<1>7. CASE HungUp
  BY <1>7 DEF HungUp, Return
<1>8. CASE Filling
  BY <1>8 DEF Filling
<1>9. CASE Output
  BY <1>9 DEF Output
<1>10. CASE Skip
  BY <1>10 DEF Skip
<1>11. CASE Forward
  BY <1>11 DEF Forward
<1>12. CASE NextChannel
  BY <1>12 DEF NextChannel
<1>13. CASE Again
  BY <1>13 DEF Again
<1>14. CASE Counted
  BY <1>14 DEF Counted, Return
<1>15. CASE ReadName
  <2>1. client[0] = "read" /\ pc' = pc /\ at' = at
        /\ \A i \in Clients : i # 0 => client'[i] = client[i]
    BY <1>15 DEF ReadName, Leave, TypeInv
  <2> QED BY <2>1
<1>16. CASE SpliceFile
  BY <1>16 DEF SpliceFile
<1>17. CASE SendSize
  <2>1. client[0] = "splice" /\ pc' = pc /\ at' = at
        /\ \A i \in Clients : i # 0 => client'[i] = client[i]
    BY <1>17 DEF SendSize, TypeInv
  <2> QED BY <2>1
<1>18. ASSUME NEW i \in Clients \ {0}, Splice(i) PROVE ForkInv'
  BY <1>18 DEF Splice
<1> QED
  BY StepCases, <1>1, <1>2, <1>3, <1>4, <1>5, <1>6, <1>7, <1>8, <1>9, <1>10,
     <1>11, <1>12, <1>13, <1>14, <1>15, <1>16, <1>17, <1>18

(* A client that has gone stays so.                                        *)
LEMMA GoneStays ==
  ASSUME TypeInv, ForkInv, NEW j \in Clients, Gone(j), [Next]_vars
  PROVE  Gone(j)'
<1> USE DEF Gone, parentVars, clientVars, vars
<1>1. CASE UNCHANGED vars
  BY <1>1
<1>2. CASE ParentEnding
  BY <1>2 DEF ParentEnding
<1>3. ASSUME NEW i \in Clients, Leaving(i) PROVE Gone(j)'
  BY <1>3 DEF Leaving, Leave, TypeInv
<1>4. CASE Fork
  BY <1>4, ClientFacts DEF Fork, TypeInv, ForkInv
<1>5. CASE SendName
  BY <1>5 DEF SendName, WriteName
<1>6. CASE Poll
  BY <1>6 DEF Poll
<1>7. CASE HungUp
  BY <1>7 DEF HungUp, Return
<1>8. CASE Filling
  BY <1>8 DEF Filling
<1>9. CASE Output
  BY <1>9 DEF Output
<1>10. CASE Skip
  BY <1>10 DEF Skip
<1>11. CASE Forward
  BY <1>11 DEF Forward
<1>12. CASE NextChannel
  BY <1>12 DEF NextChannel
<1>13. CASE Again
  BY <1>13 DEF Again
<1>14. CASE Counted
  BY <1>14 DEF Counted, Return
<1>15. CASE ReadName
  BY <1>15 DEF ReadName, Leave, TypeInv
<1>16. CASE SpliceFile
  BY <1>16 DEF SpliceFile
<1>17. CASE SendSize
  BY <1>17 DEF SendSize, TypeInv
<1>18. ASSUME NEW i \in Clients \ {0}, Splice(i) PROVE Gone(j)'
  BY <1>18 DEF Splice
<1> QED
  BY StepCases, <1>1, <1>2, <1>3, <1>4, <1>5, <1>6, <1>7, <1>8, <1>9, <1>10,
     <1>11, <1>12, <1>13, <1>14, <1>15, <1>16, <1>17, <1>18

LEMMA EndedAppend ==
  ASSUME TypeInv, NEW how \in {"counted", "out"}, ended' = Append(ended, how)
  PROVE  /\ DOMAIN ended = 1..Len(ended) /\ Len(ended) \in Nat
         /\ DOMAIN ended' = 1..(Len(ended) + 1)
         /\ \A f \in 1..Len(ended) : ended'[f] = ended[f]
         /\ ended'[Len(ended) + 1] = how
         /\ OutBefore' <=> OutBefore \/ how = "out"
<1>1. ended \in Seq({"counted", "out"})
  BY DEF TypeInv, Ends
<1>2. /\ DOMAIN ended = 1..Len(ended) /\ Len(ended) \in Nat
      /\ DOMAIN ended' = 1..(Len(ended) + 1)
      /\ \A f \in 1..Len(ended) : ended'[f] = ended[f]
      /\ ended'[Len(ended) + 1] = how
  BY <1>1, AppendProperties
<1>3. OutBefore' <=> OutBefore \/ how = "out"
  BY <1>2 DEF OutBefore
<1> QED BY <1>2, <1>3

(* Who ends a SendFile by POLLHUP is there to end the next one too.        *)
LEMMA OutStep ==
  ASSUME TypeInv, PollInv, ForkInv, OutInv, [Next]_vars
  PROVE  OutInv'
<1>1. (\E i \in Clients : Gone(i)) => \E i \in Clients : Gone(i)'
  BY GoneStays
<1>2. CASE HungUp
  <2>1. ended' = Append(ended, "out") /\ pc' \in {"name", "over"} /\ client' = client
    BY <1>2 DEF HungUp, Return, clientVars
  <2>2. at \in Clients /\ Gone(at)
    BY <1>2 DEF HungUp, PollInv, TypeInv
  <2> QED BY <2>1, <2>2, EndedAppend DEF OutInv, Gone
<1>3. CASE Counted
  <2>1. ended' = Append(ended, "counted") /\ pc' \in {"name", "over"}
    BY <1>3 DEF Counted, Return
  <2>2. OutBefore' <=> OutBefore
    BY <2>1, EndedAppend
  <2> QED BY <1>1, <2>1, <2>2 DEF OutInv
<1>4. CASE Poll
  <2>1. ended' = ended /\ polled'.hup = {i \in Clients : Gone(i)}
    BY <1>4 DEF Poll, Events
  <2> QED BY <1>1, <2>1 DEF OutInv, OutBefore
<1>5. ASSUME ~HungUp, ~Counted, ~Poll
      PROVE  /\ ended' = ended
             /\ pc' \in {"in", "out"} => pc \in {"in", "out"} /\ polled' = polled
  <2> USE DEF vars, parentVars, clientVars
  <2>1. CASE UNCHANGED vars
    BY <2>1
  <2>2. CASE ParentEnding
    BY <2>2 DEF ParentEnding
  <2>3. ASSUME NEW i \in Clients, Leaving(i)
        PROVE  ended' = ended /\ pc' = pc /\ polled' = polled
    BY <2>3 DEF Leaving
  <2>4. ASSUME NEW i \in Clients \ {0}, Splice(i)
        PROVE  ended' = ended /\ pc' = pc /\ polled' = polled
    BY <2>4 DEF Splice
  <2>5. CASE Fork \/ SendName \/ Again
    BY <2>5 DEF Fork, SendName, WriteName, Again
  <2>6. CASE Filling \/ Output \/ Skip \/ Forward \/ NextChannel
    BY <2>6 DEF Filling, Output, Readable, Skip, Forward, NextChannel
  <2>7. CASE ReadName \/ SpliceFile \/ SendSize
    BY <2>7 DEF ReadName, SpliceFile, SendSize
  <2> QED BY <1>5, StepCases, <2>1, <2>2, <2>3, <2>4, <2>5, <2>6, <2>7
<1>6. CASE ~HungUp /\ ~Counted /\ ~Poll
  BY <1>1, <1>5, <1>6 DEF OutInv, OutBefore
<1> QED BY <1>2, <1>3, <1>4, <1>6

LEMMA Assoc ==
  \A s, t, u \in Seq(Unit) : (s \o t) \o u = s \o (t \o u)
  BY ConcatAssociative

LEMMA ChannelTypesNext ==
  ASSUME TypeInv', ChanInv'
  PROVE  \A j \in Clients : InChannel(j)' \in Seq(Unit)
<1>1. (TypeInv /\ ChanInv => \A i \in Clients : InChannel(i) \in Seq(Unit))'
  BY ChannelTypes, PTL
<1> QED BY <1>1

-----------------------------------------------------------------------------
(* What the steps do to what is under way.                                 *)
LEMMA UpstreamKept ==
  ASSUME TypeInv, ChanInv, NEW hi \in 0..N,
         \A j \in 0..(hi - 1) : InChannel(j)' = InChannel(j)
  PROVE  Upstream'[hi] = Upstream[hi]
<1>1. Upstream[0] = <<>> /\ Upstream'[0] = <<>>
  BY UpstreamRec, UpstreamRecNext DEF UpstreamIs
<1>2. <<>> \in Seq(Unit) /\ <<>> \o <<>> = <<>> /\ 0 \in 0..hi
  BY ClientFacts
<1>3. Upstream'[hi] = Upstream[hi] \o <<>>
  BY <1>1, <1>2, UpstreamGrows
<1>4. Upstream[hi] \in Seq(Unit)
  BY UpstreamType
<1> QED BY <1>3, <1>4, ConcatEmptySeq

(* Data that goes from the end of one channel to the front of the next.    *)
LEMMA UpstreamPair ==
  ASSUME TypeInv, ChanInv, TypeInv', ChanInv', NEW i \in Clients \ {0},
         InChannel(i)' \o InChannel(i - 1)' = InChannel(i) \o InChannel(i - 1),
         \A j \in Clients \ {i, i - 1} : InChannel(j)' = InChannel(j)
  PROVE  Upstream'[N] = Upstream[N]
<1>1. i - 1 \in Clients /\ i \in 0..N /\ i - 1 \in 0..N /\ i + 1 \in 0..N /\ N \in 0..N
  BY ClientFacts
<1>2. Upstream'[i - 1] = Upstream[i - 1]
  <2>1. \A j \in 0..((i - 1) - 1) : InChannel(j)' = InChannel(j)
    BY ClientFacts
  <2> QED BY <1>1, <2>1, UpstreamKept
<1> DEFINE u == Upstream[i - 1]
           x == InChannel(i)
           y == InChannel(i - 1)
           xx == InChannel(i)'
           yy == InChannel(i - 1)'
<1>3. Upstream[i] = y \o u /\ Upstream[i + 1] = x \o Upstream[i]
  <2>1. (i - 1) + 1 = i
    BY ClientFacts
  <2> QED BY <1>1, <2>1, UpstreamRec DEF UpstreamIs
<1>4. Upstream'[i] = yy \o u /\ Upstream'[i + 1] = xx \o Upstream'[i]
  <2>1. (i - 1) + 1 = i
    BY ClientFacts
  <2> QED BY <1>1, <1>2, <2>1, UpstreamRecNext DEF UpstreamIs
<1>5. /\ u \in Seq(Unit) /\ x \in Seq(Unit) /\ y \in Seq(Unit)
      /\ xx \in Seq(Unit) /\ yy \in Seq(Unit)
  <2>1. \A j \in Clients : InChannel(j) \in Seq(Unit)
    BY ChannelType
  <2>2. \A j \in Clients : InChannel(j)' \in Seq(Unit)
    BY ChannelTypesNext
  <2> QED BY <1>1, <2>1, <2>2, UpstreamType
<1> HIDE DEF u, x, y, xx, yy
<1>6. xx \o yy = x \o y
  BY DEF x, y, xx, yy
<1>7. Upstream[i + 1] = (x \o y) \o u
  <2>1. (x \o y) \o u = x \o (y \o u)
    BY <1>5, Assoc
  <2> QED BY <1>3, <2>1
<1>8. Upstream'[i + 1] = (xx \o yy) \o u
  <2>1. (xx \o yy) \o u = xx \o (yy \o u)
    BY <1>5, Assoc
  <2> QED BY <1>4, <2>1
<1>9. Upstream'[i + 1] = Upstream[i + 1] \o <<>>
  <2>1. Upstream[i + 1] \in Seq(Unit)
    BY <1>1, UpstreamType
  <2> QED BY <2>1, <1>6, <1>7, <1>8, ConcatEmptySeq
<1>10. \A j \in (i + 1)..(N - 1) : InChannel(j)' = InChannel(j)
  BY ClientFacts
<1>11. Upstream'[N] = Upstream[N] \o <<>>
  <2>1. i + 1 \in 0..N /\ <<>> \in Seq(Unit)
    BY <1>1
  <2> QED BY <1>1, <1>9, <1>10, <2>1, UpstreamGrows
<1>12. Upstream[N] \in Seq(Unit)
  BY <1>1, UpstreamType
<1> QED BY <1>11, <1>12, ConcatEmptySeq

(* Data that client 0 sends.                                               *)
LEMMA UpstreamStart ==
  ASSUME TypeInv, ChanInv, NEW p \in Seq(Unit),
         InChannel(0)' = InChannel(0) \o p,
         \A j \in Clients \ {0} : InChannel(j)' = InChannel(j)
  PROVE  Upstream'[N] = Upstream[N] \o p
<1>1. 0 \in Clients /\ 0 + 1 = 1 /\ 1 \in 0..N /\ N \in 0..N
  BY ClientFacts
<1>2. /\ Upstream[1] = InChannel(0) \o <<>>
      /\ Upstream'[1] = InChannel(0)' \o <<>>
  BY <1>1, UpstreamRec, UpstreamRecNext DEF UpstreamIs
<1>3. InChannel(0) \in Seq(Unit)
  BY <1>1, ChannelType
<1>4. InChannel(0) \o p \in Seq(Unit)
  BY <1>3, ConcatProperties
<1>5. Upstream'[1] = Upstream[1] \o p
  BY <1>2, <1>3, <1>4, ConcatEmptySeq
<1>6. \A j \in 1..(N - 1) : InChannel(j)' = InChannel(j)
  BY ClientFacts
<1> QED BY <1>1, <1>5, <1>6, UpstreamGrows

(* Data that is output.                                                    *)
LEMMA UpstreamEnd ==
  ASSUME TypeInv, ChanInv, TypeInv', ChanInv',
         out' \o InChannel(Final)' = out \o InChannel(Final),
         \A j \in Clients \ {Final} : InChannel(j)' = InChannel(j)
  PROVE  out' \o Upstream'[N] = out \o Upstream[N]
<1>1. Final \in Clients /\ Final + 1 = N /\ Final \in 0..N
  BY ClientFacts
<1>2. Upstream'[Final] = Upstream[Final]
  <2>1. \A j \in 0..(Final - 1) : InChannel(j)' = InChannel(j)
    BY ClientFacts
  <2> QED BY <1>1, <2>1, UpstreamKept
<1> DEFINE u == Upstream[Final]
           x == InChannel(Final)
           xx == InChannel(Final)'
           o == out
           oo == out'
<1>3. Upstream[N] = x \o u /\ Upstream'[N] = xx \o u
  BY <1>1, <1>2, UpstreamRec, UpstreamRecNext DEF UpstreamIs
<1>4. /\ u \in Seq(Unit) /\ x \in Seq(Unit) /\ o \in Seq(Unit)
      /\ xx \in Seq(Unit) /\ oo \in Seq(Unit)
  <2>1. \A j \in Clients : InChannel(j)' \in Seq(Unit)
    BY ChannelTypesNext
  <2>2. out \in Seq(Unit) /\ out' \in Seq(Unit)
    BY DEF TypeInv, Units
  <2> QED BY <1>1, <2>1, <2>2, ChannelType, UpstreamType
<1> HIDE DEF u, x, xx, o, oo
<1>5. oo \o xx = o \o x
  BY DEF x, xx, o, oo
<1>6. oo \o (xx \o u) = (oo \o xx) \o u /\ o \o (x \o u) = (o \o x) \o u
  BY <1>4, Assoc
<1>7. oo \o (xx \o u) = o \o (x \o u)
  BY <1>5, <1>6
<1> QED BY <1>3, <1>7 DEF o, oo

LEMMA Joined ==
  \A s, t \in Seq(Unit) : s \o t \in Seq(Unit)
  BY ConcatProperties

LEMMA NothingJoined ==
  <<>> \in Seq(Unit) /\ \A s \in Seq(Unit) : s \o <<>> = s /\ <<>> \o s = s
  BY ConcatEmptySeq, EmptySeq

(* What a buffer holds after its first n units.                            *)
LEMMA HeldFrom ==
  ASSUME NEW d \in Chan, NEW n \in 0..Len(d.buf), d.size = Len(d.buf) - n
  PROVE  Held(d) = SubSeq(d.buf, n + 1, Len(d.buf))
<1> DEFINE l == Len(d.buf)
<1>1. l \in Nat
  BY DEF Chan
<1> HIDE DEF l
<1>2. l - (l - n) + 1 = n + 1
  BY <1>1 DEF l
<1> QED BY <1>2 DEF Held, l

LEMMA HeldNothing ==
  ASSUME NEW d \in Chan, d.size = 0
  PROVE  Held(d) = <<>>
<1>1. Len(d.buf) \in Nat
  BY DEF Chan
<1>2. Held(d) = SubSeq(d.buf, Len(d.buf) + 1, Len(d.buf))
  <2>1. Len(d.buf) \in 0..Len(d.buf) /\ d.size = Len(d.buf) - Len(d.buf)
    BY <1>1
  <2> QED BY <2>1, HeldFrom
<1> QED BY <1>1, <1>2, SubSeqEmpty

LEMMA HeldAll ==
  ASSUME NEW d \in Chan, d.size = Len(d.buf)
  PROVE  Held(d) = d.buf
<1>1. Len(d.buf) \in Nat /\ d.buf \in Seq(Unit)
  BY DEF Chan
<1>2. Held(d) = SubSeq(d.buf, 0 + 1, Len(d.buf))
  BY <1>1, HeldFrom
<1> QED BY <1>1, <1>2, SubSeqFull

LEMMA HeldAdvance ==
  ASSUME NEW c \in Chan, c.size \in 1..Len(c.buf), c.curPos = Len(c.buf) - c.size
  PROVE  /\ c.buf[c.curPos + 1] \in Unit
         /\ Held(Advance(c)) \in Seq(Unit)
         /\ Held(c) = <<c.buf[c.curPos + 1]>> \o Held(Advance(c))
<1> DEFINE b == c.buf
           l == Len(c.buf)
           n == c.curPos
           d == Advance(c)
<1>1. l \in Nat /\ b \in Seq(Unit) /\ n \in Nat /\ c.size = l - n /\ n < l
  BY DEF Chan
<1>2. Held(c) = SubSeq(b, n + 1, l)
  <2>1. n \in 0..Len(c.buf) /\ c.size = Len(c.buf) - n
    BY <1>1
  <2> HIDE DEF n
  <2>2. Held(c) = SubSeq(c.buf, n + 1, Len(c.buf))
    BY <2>1, HeldFrom
  <2> QED BY <2>2
<1>3. d \in Chan /\ d.buf = b /\ d.size = l - (n + 1)
  <2>1. c.size > 0 /\ c.size - 1 = l - (n + 1)
    BY <1>1
  <2> QED BY <2>1, AdvanceFacts
<1>4. Held(d) = SubSeq(b, (n + 1) + 1, l)
  <2> HIDE DEF d, b, l, n
  <2>1. Len(d.buf) = l /\ n + 1 \in 0..l
    BY <1>1, <1>3 DEF b, l
  <2> QED BY <1>3, <2>1, HeldFrom
<1>5. Held(d) \in Seq(Unit)
  BY <1>1, <1>3, HeldType
<1> HIDE DEF d, b, l, n
<1>6. n + 1 \in 1..Len(b) /\ l \in (n + 1)..Len(b)
  BY <1>1 DEF b, l
<1>7. SubSeq(b, n + 1, l) = <<b[n + 1]>> \o SubSeq(b, (n + 1) + 1, l)
  BY <1>1, <1>6, SubSeqRecursiveFirst
<1>8. b[n + 1] \in Unit
  BY <1>1, <1>6, ElementOfSeq
<1> QED BY <1>2, <1>4, <1>5, <1>7, <1>8 DEF d, b, n

LEMMA DrainedAt ==
  ASSUME TypeInv, NEW i \in Clients
  PROVE  /\ Drained(i)[i] = SubSeq(CS[i], Filled(i).size + 1, Len(CS[i]))
         /\ \A j \in Clients \ {i} : Drained(i)[j] = CS[j]
  BY DEF Drained, TypeInv

LEMMA SameChannel ==
  ASSUME NEW j \in Clients, chan'[j] = chan[j], CS'[j] = CS[j], SC'[j] = SC[j]
  PROVE  InChannel(j)' = InChannel(j)
  BY DEF InChannel

(* The units a step moves, one equation per step.                          *)
Cat(s, t) == s \o t
Cats == Seq(Unit)

LEMMA CatFacts ==
  /\ \A s, t \in Cats : Cat(s, t) \in Cats
  /\ \A s, t, u \in Cats : Cat(Cat(s, t), u) = Cat(s, Cat(t, u))
  /\ <<>> \in Cats /\ \A s \in Cats : Cat(s, <<>>) = s /\ Cat(<<>>, s) = s
  BY Assoc, Joined, NothingJoined DEF Cat, Cats

LEMMA MoveOut ==
  ASSUME NEW o \in Cats, NEW f1 \in Cats, NEW f2 \in Cats,
         NEW r \in Cats, NEW d \in Cats
  PROVE  Cat(Cat(o, f1), Cat(Cat(f2, r), d)) = Cat(o, Cat(Cat(Cat(f1, f2), r), d))
  BY CatFacts

LEMMA MoveOn ==
  ASSUME NEW a \in Cats, NEW s \in Cats, NEW e \in Cats,
         NEW h \in Cats, NEW c \in Cats, NEW d \in Cats
  PROVE  Cat(Cat(a, Cat(s, e)), Cat(Cat(h, c), d))
           = Cat(Cat(a, s), Cat(Cat(Cat(e, h), c), d))
  BY CatFacts

LEMMA MoveAcross ==
  ASSUME NEW h \in Cats, NEW c \in Cats, NEW s1 \in Cats, NEW s2 \in Cats
  PROVE  Cat(Cat(h, Cat(c, s1)), s2) = Cat(Cat(h, c), Cat(s1, s2))
  BY CatFacts

-----------------------------------------------------------------------------
(* Every step keeps what is output and under way what client 0 has sent.   *)
LEMMA FillingChannel ==
  ASSUME TypeInv, ChanInv, PollInv, Filling
  PROVE  \A j \in Clients : InChannel(j)' = InChannel(j)
<1> DEFINE f == Filled(at)
           b == CS[at]
<1>1. /\ at \in Clients /\ chan \in [Clients -> Chan] /\ CS \in [Clients -> Units]
      /\ b \in Seq(Unit) /\ SC[at] \in Seq(Unit)
  BY DEF TypeInv, Units
<1>2. /\ f \in Chan /\ f.size \in 0..Len(b) /\ f.buf = SubSeq(b, 1, f.size)
      /\ Len(f.buf) = f.size
  BY <1>1, FilledFacts
<1>3. chan[at].size = 0
  BY DEF Filling, Readable, PollInv, Ahead
<1>4. chan' = [chan EXCEPT ![at] = f] /\ CS' = Drained(at) /\ SC' = SC
  BY DEF Filling
<1> HIDE DEF f
<1>5. CS'[at] = SubSeq(b, f.size + 1, Len(b))
  BY <1>1, <1>4, DrainedAt DEF f
<1>6. f.buf \o CS'[at] = b
  <2>1. PICK n \in 0..Len(b) : n = f.size
    BY <1>2
  <2>2. SubSeq(b, 1, n) \o SubSeq(b, n + 1, Len(b)) = b
    BY <1>1, SplitFacts
  <2> QED BY <1>2, <1>5, <2>1, <2>2
<1>7. Held(chan[at]) = <<>> /\ Held(f) = f.buf
  BY <1>1, <1>2, <1>3, HeldNothing, HeldAll
<1>8. InChannel(at)' = InChannel(at)
  <2>1. InChannel(at) = (<<>> \o b) \o SC[at]
    BY <1>7 DEF InChannel
  <2>2. InChannel(at)' = (Held(chan'[at]) \o CS'[at]) \o SC'[at]
    BY <1>4 DEF InChannel, Filling
  <2>3. chan'[at] = f /\ SC'[at] = SC[at]
    BY <1>1, <1>4
  <2>4. InChannel(at)' = (f.buf \o CS'[at]) \o SC[at]
    BY <2>2, <2>3, <1>7
  <2>5. <<>> \o b = b
    BY <1>1, NothingJoined
  <2> QED BY <1>6, <2>1, <2>4, <2>5
<1>9. ASSUME NEW j \in Clients, j # at PROVE InChannel(j)' = InChannel(j)
  <2>1. chan'[j] = chan[j] /\ SC'[j] = SC[j]
    BY <1>1, <1>4, <1>9
  <2>2. CS'[j] = CS[j]
    BY <1>1, <1>4, <1>9, DrainedAt
  <2> QED BY <2>1, <2>2, SameChannel
<1>10. ASSUME NEW j \in Clients, j = at PROVE InChannel(j)' = InChannel(j)
  <2>1. at' = at
    BY DEF Filling
  <2>2. InChannel(j)' = InChannel(at)' /\ InChannel(j) = InChannel(at)
    BY <1>10, <2>1 DEF InChannel
  <2> QED BY <1>8, <2>2
<1> QED BY <1>9, <1>10

LEMMA OutputStream ==
  ASSUME TypeInv, ChanInv, PollInv, TypeInv', ChanInv', Output
  PROVE  out' \o Upstream'[N] = out \o Upstream[N]
<1> DEFINE f == Filled(at)
           b == CS[at]
           d == chan'[at]
<1>1. /\ at = Final /\ at \in Clients
      /\ chan \in [Clients -> Chan] /\ CS \in [Clients -> Units]
      /\ b \in Seq(Unit) /\ SC[at] \in Seq(Unit) /\ out \in Seq(Unit)
  BY DEF TypeInv, Units, Output
<1>2. /\ f \in Chan /\ f.size \in 0..Len(b) /\ f.buf = SubSeq(b, 1, f.size)
      /\ Len(f.buf) = f.size
  BY <1>1, FilledFacts
<1>3. chan[at].size = 0
  BY DEF Output, Readable, PollInv, Ahead
<1>4. PICK n \in 0..f.size :
        /\ chan' = [chan EXCEPT ![at] = [f EXCEPT !.size = @ - n]]
        /\ out' = out \o SubSeq(f.buf, 1, n)
  BY OutputFacts
<1>5. CS' = Drained(at) /\ SC' = SC
  BY DEF Output
<1> HIDE DEF f
<1>6. CS'[at] = SubSeq(b, f.size + 1, Len(b))
  BY <1>1, <1>5, DrainedAt DEF f
<1>7. f.buf \o CS'[at] = b /\ CS'[at] \in Seq(Unit)
  <2>1. PICK m \in 0..Len(b) : m = f.size
    BY <1>2
  <2>2. /\ SubSeq(b, 1, m) \o SubSeq(b, m + 1, Len(b)) = b
        /\ SubSeq(b, m + 1, Len(b)) \in Seq(Unit)
    BY <1>1, SplitFacts
  <2> QED BY <1>2, <1>6, <2>1, <2>2
<1>8. d \in Chan /\ d.buf = f.buf /\ d.size = Len(d.buf) - n /\ n \in 0..Len(d.buf)
  <2>1. d = [f EXCEPT !.size = @ - n]
    BY <1>1, <1>4
  <2>2. f.size - n \in Nat
    BY <1>2, <1>4 DEF Chan
  <2> HIDE DEF d
  <2>3. d \in Chan /\ d.buf = f.buf /\ d.size = f.size - n
    BY <1>2, <2>1, <2>2 DEF Chan
  <2> QED BY <1>2, <1>4, <2>3
<1> DEFINE f1 == SubSeq(f.buf, 1, n)
           f2 == SubSeq(f.buf, n + 1, Len(f.buf))
           r == CS'[at]
           s == SC[at]
<1>9. Held(chan[at]) = <<>> /\ Held(d) = f2
  <2>1. Held(d) = SubSeq(d.buf, n + 1, Len(d.buf))
    BY <1>8, HeldFrom
  <2>2. Held(chan[at]) = <<>>
    BY <1>1, <1>3, HeldNothing
  <2> QED BY <1>8, <2>1, <2>2
<1>10. f1 \in Seq(Unit) /\ f2 \in Seq(Unit) /\ f1 \o f2 = f.buf
  <2>1. f.buf \in Seq(Unit) /\ n \in 0..Len(f.buf)
    BY <1>2, <1>4 DEF Chan
  <2> QED BY <2>1, SplitFacts
<1>11. InChannel(at) = (<<>> \o b) \o s /\ <<>> \o b = b
  BY <1>1, <1>9, NothingJoined DEF InChannel
<1>12. InChannel(at)' = (f2 \o r) \o s
  <2>1. InChannel(at)' = (Held(chan'[at]) \o CS'[at]) \o SC'[at]
    BY <1>5 DEF InChannel, Output
  <2> QED BY <1>5, <1>9, <2>1
<1> HIDE DEF f1, f2, r, s, b, d
<1>13. (out \o f1) \o ((f2 \o r) \o s) = out \o (((f1 \o f2) \o r) \o s)
  <2>1. /\ out \in Cats /\ f1 \in Cats /\ f2 \in Cats /\ r \in Cats /\ s \in Cats
    BY <1>1, <1>7, <1>10 DEF Cats, r, s
  <2>2. Cat(Cat(out, f1), Cat(Cat(f2, r), s)) = Cat(out, Cat(Cat(Cat(f1, f2), r), s))
    BY <2>1, MoveOut
  <2> QED BY <2>2 DEF Cat
<1>14. out' \o InChannel(at)' = out \o InChannel(at)
  <2>1. out' = out \o f1
    BY <1>4 DEF f1
  <2>2. (f1 \o f2) \o r = b
    BY <1>7, <1>10 DEF r
  <2> QED BY <1>11, <1>12, <1>13, <2>1, <2>2
<1>15. ASSUME NEW j \in Clients, j # at PROVE InChannel(j)' = InChannel(j)
  <2>1. chan'[j] = chan[j] /\ SC'[j] = SC[j]
    BY <1>1, <1>4, <1>5, <1>15
  <2>2. CS'[j] = CS[j]
    BY <1>1, <1>5, <1>15, DrainedAt
  <2> QED BY <2>1, <2>2, SameChannel
<1>16. InChannel(Final)' = InChannel(at)'
  <2>1. at' = at
    BY DEF Output
  <2> QED BY <1>1, <2>1 DEF InChannel
<1>17. out' \o InChannel(Final)' = out \o InChannel(Final)
  BY <1>1, <1>14, <1>16
<1>18. \A j \in Clients \ {Final} : InChannel(j)' = InChannel(j)
  BY <1>1, <1>15
<1> QED BY <1>17, <1>18, UpstreamEnd

LEMMA ForwardStream ==
  ASSUME TypeInv, ChanInv, TypeInv', ChanInv', Forward, ~Gone(at)
  PROVE  Upstream'[N] = Upstream[N]
<1>1. PICK c : c = chan[at - 1]
  OBVIOUS
<1>2. /\ at \in Clients \ {0} /\ at - 1 \in Clients
      /\ c \in Chan /\ c.size \in 1..Len(c.buf)
      /\ c.curPos = Len(c.buf) - c.size
      /\ SC' = [SC EXCEPT ![at] = Append(@, c.buf[c.curPos + 1])]
      /\ chan' = [chan EXCEPT ![at - 1] = Advance(c)]
  BY <1>1, ForwardFacts
<1>3. CS' = CS /\ at - 1 # at /\ at \in Nat
  BY <1>2, ClientFacts DEF Forward
<1>4. /\ chan \in [Clients -> Chan] /\ SC \in [Clients -> Units]
      /\ CS \in [Clients -> Units]
  BY DEF TypeInv
<1> DEFINE e == c.buf[c.curPos + 1]
           h == Held(Advance(c))
           a == Held(chan[at]) \o CS[at]
           s == SC[at]
           cc == CS[at - 1]
           d == SC[at - 1]
<1>5. e \in Unit /\ h \in Seq(Unit) /\ Held(c) = <<e>> \o h
  BY <1>2, HeldAdvance
<1>6. /\ a \in Seq(Unit) /\ s \in Seq(Unit) /\ cc \in Seq(Unit) /\ d \in Seq(Unit)
      /\ <<e>> \in Seq(Unit)
  <2>1. Held(chan[at]) \in Seq(Unit)
    BY <1>2, <1>4, HeldType DEF ChanInv
  <2>2. CS[at] \in Seq(Unit)
    BY <1>2, <1>4 DEF Units
  <2>3. s \in Seq(Unit) /\ cc \in Seq(Unit) /\ d \in Seq(Unit)
    BY <1>2, <1>4 DEF Units
  <2>4. <<e>> \in Seq(Unit)
    BY <1>5
  <2> QED BY <2>1, <2>2, <2>3, <2>4, Joined
<1>7. /\ InChannel(at) = a \o s
      /\ InChannel(at - 1) = ((<<e>> \o h) \o cc) \o d
  BY <1>1, <1>5 DEF InChannel
<1>8. InChannel(at)' = a \o (s \o <<e>>)
  <2>1. InChannel(at)' = (Held(chan'[at]) \o CS'[at]) \o SC'[at]
    BY DEF InChannel, Forward
  <2>2. chan'[at] = chan[at] /\ SC'[at] = Append(s, e)
    BY <1>2, <1>3, <1>4
  <2>3. Append(s, e) = s \o <<e>>
    BY <1>5, <1>6, AppendIsConcat
  <2> QED BY <1>3, <2>1, <2>2, <2>3
<1>9. InChannel(at - 1)' = (h \o cc) \o d
  <2>1. InChannel(at - 1)' = (Held(chan'[at - 1]) \o CS'[at - 1]) \o SC'[at - 1]
    BY DEF InChannel, Forward
  <2>2. chan'[at - 1] = Advance(c) /\ SC'[at - 1] = d
    BY <1>2, <1>3, <1>4
  <2> QED BY <1>3, <2>1, <2>2
<1> HIDE DEF e, h, a, s, cc, d
<1>10. (a \o (s \o <<e>>)) \o ((h \o cc) \o d) = (a \o s) \o (((<<e>> \o h) \o cc) \o d)
  <2>1. /\ a \in Cats /\ s \in Cats /\ cc \in Cats /\ d \in Cats /\ h \in Cats
        /\ <<e>> \in Cats
    BY <1>5, <1>6 DEF Cats
  <2>2. Cat(Cat(a, Cat(s, <<e>>)), Cat(Cat(h, cc), d))
          = Cat(Cat(a, s), Cat(Cat(Cat(<<e>>, h), cc), d))
    BY <2>1, MoveOn
  <2> QED BY <2>2 DEF Cat
<1>11. InChannel(at)' \o InChannel(at - 1)' = InChannel(at) \o InChannel(at - 1)
  BY <1>7, <1>8, <1>9, <1>10
<1>12. ASSUME NEW j \in Clients \ {at, at - 1} PROVE InChannel(j)' = InChannel(j)
  BY <1>2, <1>3, <1>4, SameChannel
<1>13. PICK i \in Clients \ {0} : i = at
  BY <1>2
<1>14. /\ InChannel(i)' = InChannel(at)' /\ InChannel(i) = InChannel(at)
       /\ InChannel(i - 1)' = InChannel(at - 1)'
       /\ InChannel(i - 1) = InChannel(at - 1)
  <2>1. at' = at
    BY DEF Forward
  <2> QED BY <1>13, <2>1 DEF InChannel
<1>15. InChannel(i)' \o InChannel(i - 1)' = InChannel(i) \o InChannel(i - 1)
  BY <1>11, <1>14
<1>16. \A j \in Clients \ {i, i - 1} : InChannel(j)' = InChannel(j)
  BY <1>12, <1>13
<1> QED BY <1>15, <1>16, UpstreamPair
LEMMA SpliceStream ==
  ASSUME TypeInv, ChanInv, NEW i \in Clients \ {0}, Splice(i)
  PROVE  Upstream'[N] = Upstream[N]
<1>1. PICK n \in 0..Len(SC[i]) :
        /\ CS' = [CS EXCEPT ![i] = @ \o SubSeq(SC[i], 1, n)]
        /\ SC' = [SC EXCEPT ![i] = SubSeq(@, n + 1, Len(@))]
  BY SpliceFacts
<1>2. chan' = chan
  BY DEF Splice, parentVars
<1>3. /\ chan \in [Clients -> Chan] /\ SC \in [Clients -> Units]
      /\ CS \in [Clients -> Units] /\ i \in Clients
  BY DEF TypeInv
<1> DEFINE h == Held(chan[i])
           c == CS[i]
           s == SC[i]
           s1 == SubSeq(s, 1, n)
           s2 == SubSeq(s, n + 1, Len(s))
<1>4. s \in Seq(Unit) /\ c \in Seq(Unit) /\ h \in Seq(Unit)
  BY <1>3, HeldType DEF Units, ChanInv
<1>5. CS'[i] = c \o s1 /\ SC'[i] = s2
  BY <1>1, <1>3
<1>6. InChannel(i)' = (h \o (c \o s1)) \o s2 /\ InChannel(i) = (h \o c) \o s
  BY <1>2, <1>5 DEF InChannel
<1> HIDE DEF h, c, s1, s2
<1>7. s1 \in Seq(Unit) /\ s2 \in Seq(Unit) /\ s1 \o s2 = s
  BY <1>4, SplitFacts DEF s1, s2
<1>8. (h \o (c \o s1)) \o s2 = (h \o c) \o (s1 \o s2)
  <2>1. h \in Cats /\ c \in Cats /\ s1 \in Cats /\ s2 \in Cats
    BY <1>4, <1>7 DEF Cats
  <2>2. Cat(Cat(h, Cat(c, s1)), s2) = Cat(Cat(h, c), Cat(s1, s2))
    BY <2>1, MoveAcross
  <2> QED BY <2>2 DEF Cat
<1>9. InChannel(i)' = InChannel(i)
  BY <1>6, <1>7, <1>8
<1>10. ASSUME NEW j \in Clients, j # i PROVE InChannel(j)' = InChannel(j)
  BY <1>1, <1>2, <1>3, <1>10, SameChannel
<1>11. N \in 0..N /\ \A j \in 0..(N - 1) : j \in Clients
  BY ClientFacts
<1>12. \A j \in 0..(N - 1) : InChannel(j)' = InChannel(j)
  BY <1>9, <1>10, <1>11
<1> QED BY <1>11, <1>12, UpstreamKept

(* What client 0 has sent at a file's beginning and at its end.            *)
LEMMA SentWhole ==
  ASSUME NEW os \in Opened, NEW f \in 1..Len(os)
  PROVE  /\ Sent(os)[f - 1] \in Seq(Unit) /\ Sent(os)[f] \in Seq(Unit)
         /\ Sent(os)[f - 1] \o SubSeq(Contents(os, f), 1, 0) = Sent(os)[f - 1]
         /\ Sent(os)[f - 1] \o SubSeq(Contents(os, f), 1, Disk[os[f]]) = Sent(os)[f]
<1>1. f - 1 \in 0..Len(os) /\ f \in 0..Len(os)
  BY DiskFacts
<1>2. Sent(os)[f - 1] \in Seq(Unit) /\ Sent(os)[f] \in Seq(Unit)
  BY <1>1, SentType
<1>3. /\ Contents(os, f) \in Seq(Unit) /\ Len(Contents(os, f)) = Disk[os[f]]
      /\ Sent(os)[f] = Sent(os)[f - 1] \o Contents(os, f)
  BY DiskFacts, SentRec
<1>4. SubSeq(Contents(os, f), 1, 0) = <<>>
  BY <1>3, SubSeqEmpty
<1>5. SubSeq(Contents(os, f), 1, Disk[os[f]]) = Contents(os, f)
  BY <1>3, SubSeqFull
<1> QED BY <1>2, <1>3, <1>4, <1>5, ConcatEmptySeq

LEMMA SpliceFileStream ==
  ASSUME TypeInv, ChanInv, StreamInv, FirstInv, SpliceFile
  PROVE  out' \o Upstream'[N] = SentByFirst'
<1>1. PICK n \in Nat \ {0} :
        /\ first.sent + n <= Disk[first.opened[file]]
        /\ CS' = [CS EXCEPT ![0] = @ \o SubSeq(Contents(first.opened, file),
                                               first.sent + 1, first.sent + n)]
        /\ first' = [first EXCEPT !.sent = @ + n]
  BY SpliceFileFacts
<1>2. chan' = chan /\ SC' = SC /\ out' = out
  BY DEF SpliceFile, parentVars
<1>3. /\ chan \in [Clients -> Chan] /\ SC \in [Clients -> Units]
      /\ CS \in [Clients -> Units] /\ 0 \in Clients
      /\ file # 0 /\ file \in 1..file /\ first.sent \in Nat
      /\ first.opened \in Opened
  BY ClientFacts, OpenedFacts DEF TypeInv, FirstInv, SpliceFile
<1>4. /\ first'.opened = first.opened /\ first'.sent = first.sent + n
      /\ file' = file
  BY <1>1 DEF TypeInv, First, file
<1> DEFINE os == first.opened
           g == file
           q == first.sent
           t == Contents(os, g)
           o == Sent(os)[g - 1]
           a == SubSeq(t, 1, q)
           p == SubSeq(t, q + 1, q + n)
           h == Held(chan[0])
           c == CS[0]
<1>5. t \in Seq(Unit) /\ q \in Nat /\ q + n <= Len(t) /\ o \in Seq(Unit)
  <2>1. os \in Opened /\ g \in 1..Len(os)
    BY <1>3 DEF file
  <2>2. t \in Seq(Unit) /\ Len(t) = Disk[os[g]] /\ o \in Seq(Unit)
    BY <2>1, DiskFacts, SentWhole
  <2> QED BY <1>1, <1>3, <2>2
<1>6. a \in Seq(Unit) /\ p \in Seq(Unit) /\ a \o p = SubSeq(t, 1, q + n)
  <2> HIDE DEF t, q
  <2> QED BY <1>5, SliceFacts
<1>7. h \in Seq(Unit) /\ c \in Seq(Unit)
  BY <1>3, HeldType DEF ChanInv, Units
<1>8. InChannel(0) = (h \o c) \o <<>> /\ InChannel(0)' = (h \o (c \o p)) \o <<>>
  <2>1. SC[0] = <<>> /\ CS'[0] = c \o p
    BY <1>1, <1>3 DEF StreamInv
  <2> QED BY <1>2, <2>1 DEF InChannel
<1>9. SentByFirst = o \o a /\ SentByFirst' = o \o SubSeq(t, 1, q + n)
  BY <1>3, <1>4 DEF SentByFirst
<1> HIDE DEF h, c, p, a, t, q, g, o, os
<1>11. InChannel(0)' = InChannel(0) \o p
  <2>1. h \in Cats /\ c \in Cats /\ p \in Cats
    BY <1>6, <1>7 DEF Cats
  <2>2. Cat(Cat(h, Cat(c, p)), <<>>) = Cat(Cat(Cat(h, c), <<>>), p)
    BY <2>1, CatFacts
  <2>3. (h \o (c \o p)) \o <<>> = ((h \o c) \o <<>>) \o p
    BY <2>2 DEF Cat
  <2> QED BY <1>8, <2>3
<1>12. ASSUME NEW j \in Clients \ {0} PROVE InChannel(j)' = InChannel(j)
  BY <1>1, <1>2, <1>3, SameChannel
<1>13. Upstream'[N] = Upstream[N] \o p
  BY <1>6, <1>11, <1>12, UpstreamStart
<1>14. out \in Seq(Unit) /\ Upstream[N] \in Seq(Unit)
  <2>1. N \in 0..N
    BY ClientFacts
  <2> QED BY <2>1, UpstreamType DEF TypeInv, Units
<1>15. out' \o Upstream'[N] = (out \o Upstream[N]) \o p
  <2>1. out' \o Upstream'[N] = out \o (Upstream[N] \o p)
    BY <1>2, <1>13
  <2>2. (out \o Upstream[N]) \o p = out \o (Upstream[N] \o p)
    BY <1>6, <1>14, Assoc
  <2> QED BY <2>1, <2>2
<1>16. (out \o Upstream[N]) \o p = (o \o a) \o p
  BY <1>9 DEF StreamInv
<1>17. (o \o a) \o p = o \o (a \o p)
  BY <1>5, <1>6, Assoc
<1> QED BY <1>6, <1>9, <1>15, <1>16, <1>17

LEMMA ReadNameStream ==
  ASSUME TypeInv, FirstInv, ReadName
  PROVE  SentByFirst' = SentByFirst
<1>1. client[0] = "read" /\ (Opening \/ first' = first)
  BY ReadNameCases
<1>2. CASE first' = first
  BY <1>2 DEF SentByFirst, file
<1>3. CASE Opening
  <2>1. PICK g \in Nat : g = file
    BY OpenedFacts
  <2>2. /\ first'.opened \in Opened /\ first'.sent = 0 /\ file' = g + 1
        /\ Sent(first'.opened)[g] = Sent(first.opened)[g]
    BY <1>3, <2>1, OpeningFacts
  <2>3. SentByFirst' = Sent(first.opened)[g]
    <3>1. SentByFirst' = Sent(first'.opened)[(g + 1) - 1]
                           \o SubSeq(Contents(first'.opened, g + 1), 1, 0)
      BY <2>1, <2>2 DEF SentByFirst
    <3>2. g + 1 \in 1..Len(first'.opened)
      BY <2>1, <2>2 DEF file
    <3> QED BY <2>1, <2>2, <3>1, <3>2, SentWhole
  <2>4. SentByFirst = Sent(first.opened)[g]
    <3>1. CASE g = 0
      BY <2>1, <3>1, OpenedFacts, SentRec DEF SentByFirst
    <3>2. CASE g # 0
      <4>1. first.opened \in Opened /\ g \in 1..Len(first.opened)
        BY <2>1, <3>2, OpenedFacts DEF file
      <4>2. first.sent = Disk[first.opened[g]]
        BY <1>1, <2>1, <3>2 DEF FirstInv
      <4>3. SentByFirst = Sent(first.opened)[g - 1]
                  \o SubSeq(Contents(first.opened, g), 1, Disk[first.opened[g]])
        BY <2>1, <3>2, <4>2 DEF SentByFirst
      <4> QED BY <4>1, <4>3, SentWhole
    <3> QED BY <3>1, <3>2
  <2> QED BY <2>3, <2>4
<1> QED BY <1>1, <1>2, <1>3

LEMMA QuietStream ==
  ASSUME TypeInv, ChanInv, StreamInv,
         out' = out, chan' = chan, SC' = SC, CS' = CS, SentByFirst' = SentByFirst
  PROVE  StreamInv'
<1>1. N \in 0..N /\ \A j \in 0..(N - 1) : j \in Clients
  BY ClientFacts
<1>2. \A j \in 0..(N - 1) : InChannel(j)' = InChannel(j)
  BY <1>1, SameChannel
<1>3. Upstream'[N] = Upstream[N]
  BY <1>1, <1>2, UpstreamKept
<1> QED BY <1>3 DEF StreamInv

LEMMA StreamStep ==
  ASSUME TypeInv, ChanInv, PollInv, StreamInv, FirstInv, TypeInv', ChanInv',
         [Next]_vars
  PROVE  StreamInv'
<1>1. CASE /\ out' = out /\ chan' = chan /\ SC' = SC /\ CS' = CS
           /\ first' = first
  <2>1. SentByFirst' = SentByFirst
    BY <1>1 DEF SentByFirst, file
  <2> QED BY <1>1, <2>1, QuietStream
<1>2. CASE Filling
  <2>1. N \in 0..N /\ \A j \in 0..(N - 1) : j \in Clients
    BY ClientFacts
  <2>2. Upstream'[N] = Upstream[N]
    <3>1. \A j \in Clients : InChannel(j)' = InChannel(j)
      BY <1>2, FillingChannel
    <3>2. \A j \in 0..(N - 1) : InChannel(j)' = InChannel(j)
      BY <2>1, <3>1
    <3> QED BY <2>1, <3>2, UpstreamKept
  <2>3. SC' = SC /\ out' = out /\ first' = first
    BY <1>2 DEF Filling
  <2> QED BY <2>2, <2>3 DEF StreamInv, SentByFirst, file
<1>3. CASE Output
  <2>1. out' \o Upstream'[N] = out \o Upstream[N]
    BY <1>3, OutputStream
  <2>2. SC' = SC /\ first' = first
    BY <1>3 DEF Output
  <2> QED BY <2>1, <2>2 DEF StreamInv, SentByFirst, file
<1>4. CASE Forward /\ ~Gone(at)
  <2>1. Upstream'[N] = Upstream[N]
    BY <1>4, ForwardStream
  <2>2. /\ at \in Clients \ {0} /\ 0 \in Clients
        /\ SC' = [SC EXCEPT ![at] = SC'[at]] /\ out' = out /\ first' = first
    <3>1. PICK c : c = chan[at - 1]
      OBVIOUS
    <3>2. at \in Clients \ {0} /\ SC' = [SC EXCEPT ![at] = Append(@, c.buf[c.curPos + 1])]
      BY <1>4, <3>1, ForwardFacts
    <3> QED BY <1>4, <3>2, ClientFacts DEF Forward, TypeInv
  <2>3. SC'[0] = SC[0]
    BY <2>2 DEF TypeInv
  <2> QED BY <2>1, <2>2, <2>3 DEF StreamInv, SentByFirst, file
<1>5. ASSUME NEW i \in Clients \ {0}, Splice(i) PROVE StreamInv'
  <2>1. Upstream'[N] = Upstream[N]
    BY <1>5, SpliceStream
  <2>2. SC'[0] = SC[0] /\ out' = out /\ first' = first
    BY <1>5, SpliceFacts, ClientFacts DEF Splice, parentVars, TypeInv
  <2> QED BY <2>1, <2>2 DEF StreamInv, SentByFirst, file
<1>6. CASE SpliceFile
  <2>1. SC' = SC
    BY <1>6 DEF SpliceFile
  <2> QED BY <1>6, <2>1, SpliceFileStream DEF StreamInv
<1>7. CASE ReadName
  <2>1. out' = out /\ chan' = chan /\ SC' = SC /\ CS' = CS
    BY <1>7 DEF ReadName, parentVars
  <2> QED BY <1>7, <2>1, ReadNameStream, QuietStream
<1>8. CASE \/ UNCHANGED vars \/ ParentEnding \/ \E i \in Clients : Leaving(i)
           \/ Fork \/ SendName \/ Poll \/ HungUp \/ Skip \/ NextChannel
           \/ Again \/ Counted \/ SendSize \/ (Forward /\ Gone(at))
  <2>1. out' = out /\ chan' = chan /\ SC' = SC /\ CS' = CS /\ first' = first
    <3> USE DEF parentVars, clientVars, vars
    <3>1. CASE UNCHANGED vars \/ ParentEnding \/ \E i \in Clients : Leaving(i)
      BY <3>1 DEF ParentEnding, Leaving
    <3>2. CASE Fork \/ SendName \/ Poll \/ Skip
      BY <3>2 DEF Fork, SendName, WriteName, Poll, Skip
    <3>3. CASE HungUp \/ Counted
      BY <3>3 DEF HungUp, Counted, Return
    <3>4. CASE NextChannel \/ Again \/ SendSize \/ (Forward /\ Gone(at))
      BY <3>4 DEF NextChannel, Again, SendSize, Forward
    <3> QED BY <1>8, <3>1, <3>2, <3>3, <3>4
  <2> QED BY <2>1, <1>1
<1> QED BY <1>2, <1>3, <1>4, <1>5, <1>6, <1>7, <1>8, StepCases

-----------------------------------------------------------------------------
(* What client 0 has opened and how much of it is sent.                    *)
FirstKept ==
  /\ first' = first
  /\ \/ client'[0] = client[0]
     \/ client'[0] = "gone"
     \/ client[0] = "none" /\ client'[0] = "read"

LEMMA FirstUnchanged ==
  ASSUME FirstInv, FirstKept
  PROVE  FirstInv'
<1>1. first' = first /\ file' = file
  BY DEF FirstKept, file
<1> QED BY <1>1 DEF FirstKept, FirstInv

LEMMA WhatKeepsFirst ==
  ASSUME TypeInv, ForkInv,
         \/ UNCHANGED vars \/ ParentEnding \/ \E i \in Clients : Leaving(i)
         \/ Fork \/ SendName \/ Poll \/ HungUp \/ Filling \/ Output \/ Skip
         \/ Forward \/ NextChannel \/ Again \/ Counted
         \/ \E i \in Clients \ {0} : Splice(i)
  PROVE  FirstKept
<1> USE DEF FirstKept, vars, parentVars, clientVars
<1>1. CASE UNCHANGED vars \/ ParentEnding
  BY <1>1 DEF ParentEnding
<1>2. ASSUME NEW i \in Clients, Leaving(i) PROVE FirstKept
  <2>1. client'[0] = client[0] \/ client'[0] = "gone"
    BY <1>2, ClientFacts DEF Leaving, Leave, TypeInv
  <2> QED BY <1>2, <2>1 DEF Leaving
<1>3. CASE Fork
  <2>1. client'[0] = client[0] \/ (client[0] = "none" /\ client'[0] = "read")
    BY <1>3, ClientFacts DEF Fork, TypeInv, ForkInv
  <2> QED BY <1>3, <2>1 DEF Fork
<1>4. CASE SendName \/ HungUp \/ Counted
  BY <1>4 DEF SendName, WriteName, HungUp, Counted, Return
<1>5. CASE Poll \/ Filling \/ Output \/ Skip
  BY <1>5 DEF Poll, Filling, Output, Readable, Skip
<1>6. CASE Forward \/ NextChannel \/ Again
  BY <1>6 DEF Forward, NextChannel, Again
<1>7. ASSUME NEW i \in Clients \ {0}, Splice(i) PROVE FirstKept
  BY <1>7 DEF Splice
<1> QED BY <1>1, <1>2, <1>3, <1>4, <1>5, <1>6, <1>7

LEMMA FirstInvStep ==
  ASSUME TypeInv, ForkInv, FirstInv, [Next]_vars
  PROVE  FirstInv'
<1>1. CASE FirstKept
  BY <1>1, FirstUnchanged
<1>2. CASE ReadName
  <2>1. CASE Leave(0) /\ first' = first /\ client'[0] = "gone"
    <3>1. FirstKept
      BY <2>1 DEF FirstKept
    <3> QED BY <3>1, FirstUnchanged
  <2>2. CASE Opening /\ client'[0] = "splice"
    <3>1. /\ first'.sent = 0 /\ file' = file + 1 /\ first'.opened \in Opened
          /\ file \in Nat
      BY <2>2, OpeningFacts, OpenedFacts
    <3>2. file' \in 1..Len(first'.opened)
      BY <3>1 DEF file
    <3>3. Disk[first'.opened[file']] \in Nat
      BY <3>1, <3>2, DiskFacts
    <3> QED BY <2>2, <3>1, <3>3 DEF FirstInv
  <2> QED BY <1>2, <2>1, <2>2, ReadNameCases
<1>3. CASE SpliceFile
  <2>1. PICK n \in Nat \ {0} :
          /\ first.sent + n <= Disk[first.opened[file]]
          /\ first' = [first EXCEPT !.sent = @ + n]
    BY <1>3, SpliceFileFacts
  <2>2. /\ first'.opened = first.opened /\ first'.sent = first.sent + n
        /\ file' = file
    BY <2>1 DEF TypeInv, First, file
  <2>3. client' = client /\ client[0] = "splice" /\ file # 0
    BY <1>3 DEF SpliceFile, FirstInv
  <2> QED BY <2>1, <2>2, <2>3 DEF FirstInv
<1>4. CASE SendSize
  <2>1. first' = first /\ client[0] = "splice" /\ client'[0] = "read" /\ AtEnd
    BY <1>4, ClientFacts DEF SendSize, TypeInv
  <2>2. first.sent = Disk[first.opened[file]] /\ file' = file
    BY <2>1, OpenedFacts DEF AtEnd, FirstInv, file
  <2> QED BY <2>1, <2>2 DEF FirstInv
<1> QED BY StepCases, WhatKeepsFirst, <1>1, <1>2, <1>3, <1>4

(* What is opened stays so.                                                *)
LEMMA OpenedStays ==
  ASSUME TypeInv, ForkInv, FirstInv, [Next]_vars
  PROVE  \/ first'.opened = first.opened
         \/ ReadName /\ Opening
<1>1. CASE FirstKept
  BY <1>1 DEF FirstKept
<1>2. CASE ReadName
  BY <1>2, ReadNameCases
<1>3. CASE SpliceFile
  BY <1>3, SpliceFileFacts DEF TypeInv, First
<1>4. CASE SendSize
  BY <1>4 DEF SendSize
<1> QED BY StepCases, WhatKeepsFirst, <1>1, <1>2, <1>3, <1>4

LEMMA OpenedGrows ==
  ASSUME TypeInv, ForkInv, FirstInv, [Next]_vars
  PROVE  /\ file <= file'
         /\ \A f \in 1..file : first'.opened[f] = first.opened[f]
         /\ \A f \in 0..file : Sent(first'.opened)[f] = Sent(first.opened)[f]
<1>1. CASE first'.opened = first.opened
  BY <1>1, OpenedFacts DEF file
<1>2. CASE ReadName /\ Opening
  BY <1>2, OpenedFacts, OpeningFacts
<1> QED BY <1>1, <1>2, OpenedStays

-----------------------------------------------------------------------------
(* What has been output.                                                   *)
LEMMA OutGrows ==
  ASSUME TypeInv, TypeInv', [Next]_vars
  PROVE  IsPrefix(out, out')
<1>1. out \in Seq(Unit)
  BY DEF TypeInv, Units
<1>2. CASE out' = out
  <2>1. IsPrefix(out, out \o <<>>)
    BY <1>1, EmptySeq, PrefixOfJoin
  <2> QED BY <1>1, <1>2, <2>1, ConcatEmptySeq
<1>3. CASE Output
  <2>1. PICK n \in 0..Filled(at).size : out' = out \o SubSeq(Filled(at).buf, 1, n)
    BY <1>3, OutputFacts
  <2>2. /\ Filled(at).buf \in Seq(Unit) /\ n \in 0..Len(Filled(at).buf)
    BY FilledFacts DEF TypeInv, Chan
  <2>3. SubSeq(Filled(at).buf, 1, n) \in Seq(Unit)
    BY <2>2, SplitFacts
  <2> QED BY <1>1, <2>1, <2>3, PrefixOfJoin
<1>4. out' = out \/ Output
  <2> USE DEF vars, parentVars, clientVars
  <2>1. CASE UNCHANGED vars \/ ParentEnding \/ \E i \in Clients : Leaving(i)
    BY <2>1 DEF ParentEnding, Leaving
  <2>2. CASE Fork \/ SendName \/ Poll \/ Filling \/ Skip \/ Forward
    BY <2>2 DEF Fork, SendName, WriteName, Poll, Filling, Skip, Forward
  <2>3. CASE NextChannel \/ Again \/ HungUp \/ Counted
    BY <2>3 DEF NextChannel, Again, HungUp, Counted, Return
  <2>4. CASE ReadName \/ SpliceFile \/ SendSize \/ \E i \in Clients \ {0} : Splice(i)
    BY <2>4 DEF ReadName, SpliceFile, SendSize, Splice
  <2> QED BY <2>1, <2>2, <2>3, <2>4, StepCases
<1> QED BY <1>2, <1>3, <1>4

(* Client 0 has sent no more than the files it has opened.                 *)
LEMMA SentByFirstPrefix ==
  ASSUME TypeInv, FirstInv
  PROVE  /\ SentByFirst \in Seq(Unit)
         /\ IsPrefix(SentByFirst, Sent(first.opened)[file])
<1>1. CASE file = 0
  <2>1. SentByFirst = <<>> /\ Sent(first.opened)[0] = <<>>
    BY <1>1, OpenedFacts, SentRec DEF SentByFirst
  <2>2. <<>> \in Seq(Unit)
    BY EmptySeq
  <2>3. IsPrefix(<<>>, <<>>)
    BY <2>2, EmptySeq DEF IsPrefix
  <2> QED BY <1>1, <2>1, <2>2, <2>3
<1>2. CASE file # 0
  <2>1. PICK os \in Opened : os = first.opened
    BY OpenedFacts
  <2>2. PICK g \in 1..Len(os) : g = file
    BY <1>2, <2>1, OpenedFacts DEF file
  <2>3. PICK q \in 0..Len(Contents(os, g)) : q = first.sent
    BY <1>2, <2>1, <2>2, DiskFacts, OpenedFacts DEF FirstInv
  <2> DEFINE t == Contents(os, g)
             a == SubSeq(t, 1, q)
             b == SubSeq(t, q + 1, Len(t))
             o == Sent(os)[g - 1]
             w == Sent(os)[g]
  <2>4. t \in Seq(Unit) /\ w = o \o t /\ o \in Seq(Unit)
    BY DiskFacts, SentRec, SentWhole
  <2>5. a \in Seq(Unit) /\ b \in Seq(Unit) /\ a \o b = t
    BY <2>4, SplitFacts
  <2>6. SentByFirst = o \o a
    BY <1>2, <2>1, <2>2, <2>3 DEF SentByFirst
  <2>7. w = Sent(first.opened)[file]
    BY <2>1, <2>2
  <2> HIDE DEF t, a, b, o, w
  <2>8. o \o a \in Seq(Unit)
    BY <2>4, <2>5, ConcatProperties
  <2>9. w = (o \o a) \o b
    BY <2>4, <2>5, Assoc
  <2>10. IsPrefix(o \o a, w)
    BY <2>5, <2>8, <2>9, PrefixOfJoin
  <2> QED BY <2>6, <2>7, <2>8, <2>10
<1> QED BY <1>1, <1>2

LEMMA OutPrefix ==
  ASSUME TypeInv, ChanInv, StreamInv, FirstInv
  PROVE  /\ IsPrefix(out \o Upstream[N], Sent(first.opened)[file])
         /\ IsPrefix(out, Sent(first.opened)[file])
<1>1. out \in Seq(Unit) /\ Upstream[N] \in Seq(Unit)
  <2>1. N \in 0..N
    BY ClientFacts
  <2> QED BY <2>1, UpstreamType DEF TypeInv, Units
<1>2. IsPrefix(out, out \o Upstream[N]) /\ out \o Upstream[N] \in Seq(Unit)
  BY <1>1, PrefixOfJoin, ConcatProperties
<1>3. IsPrefix(out \o Upstream[N], Sent(first.opened)[file])
  BY SentByFirstPrefix DEF StreamInv
<1>4. Sent(first.opened)[file] \in Seq(Unit)
  <2>1. first.opened \in Opened /\ file \in 0..Len(first.opened)
    BY OpenedFacts DEF file
  <2> QED BY <2>1, SentType
<1> QED BY <1>1, <1>2, <1>3, <1>4, PrefixTransitive

(* Whoever has died is met before a SendFile can end by its count.         *)
LEMMA CountedCleanly ==
  ASSUME TypeInv, PollInv, OutInv, Counted
  PROVE  ~OutBefore
<1>1. pc = "out" /\ at = Final
  BY DEF Counted
<1>2. \A i \in polled.hup : i > Final /\ i \in Clients
  BY <1>1 DEF PollInv, Ahead, TypeInv, Polled
<1>3. polled.hup = {}
  BY <1>2, ClientFacts
<1> QED BY <1>1, <1>3 DEF OutInv

LEMMA CountedOut ==
  ASSUME TypeInv, ChanInv, StreamInv, FirstInv, CountInv, Counted, ~OutBefore
  PROVE  /\ file = k /\ out = Sent(first.opened)[k]
         /\ names = <<>> /\ sizes = <<>> /\ client[0] # "splice"
<1>1. pc = "out" /\ sizeFile # LONG_MAX /\ counter >= sizeFile
  BY DEF Counted, Enough
<1>2. /\ file = k /\ Len(out) = Len(Sent(first.opened)[k - 1]) + counter
      /\ sizeFile = Disk[first.opened[k]]
      /\ names = <<>> /\ sizes = <<>> /\ client[0] # "splice"
  BY <1>1 DEF CountInv, Sending
<1>3. PICK os \in Opened : os = first.opened
  BY OpenedFacts
<1>4. PICK f \in 1..Len(os) : f = k
  BY <1>2, <1>3, OpenedFacts DEF TypeInv, file
<1> DEFINE o == Sent(os)[f - 1]
           w == Sent(os)[f]
           t == Contents(os, f)
<1>5. /\ o \in Seq(Unit) /\ w \in Seq(Unit) /\ t \in Seq(Unit)
      /\ Len(t) = Disk[os[f]] /\ Disk[os[f]] \in Nat /\ w = o \o t
  BY DiskFacts, SentRec, SentWhole
<1>6. IsPrefix(out, w) /\ out \in Seq(Unit)
  BY <1>2, <1>3, <1>4, OutPrefix DEF TypeInv, Units
<1>7. Len(out) = Len(o) + counter /\ counter >= Len(t) /\ counter \in Nat
  BY <1>1, <1>2, <1>3, <1>4, <1>5 DEF TypeInv
<1>8. w = Sent(first.opened)[k]
  BY <1>3, <1>4
<1> HIDE DEF o, w, t
<1>9. Len(w) = Len(o) + Len(t)
  BY <1>5, ConcatProperties
<1>10. Len(o) \in Nat /\ Len(t) \in Nat
  BY <1>5
<1>11. Len(w) <= Len(out)
  BY ONLY <1>7, <1>9, <1>10
<1>12. out = w
  BY <1>5, <1>6, <1>11, PrefixSameLen
<1> QED BY <1>2, <1>8, <1>12

-----------------------------------------------------------------------------
(* The count, and the size it is compared with.                            *)
CountKept ==
  /\ ended' = ended /\ out' = out /\ k' = k /\ counter' = counter
  /\ sizeFile' = sizeFile /\ names' = names /\ sizes' = sizes /\ first' = first
  /\ client'[0] = "splice" => client[0] = "splice"
  /\ \/ pc' = pc
     \/ pc' \in {"over", "killed"}
     \/ pc \in {"fork", "name"} /\ pc' \in {"fork", "name"}
     \/ pc \in {"poll", "in", "out"} /\ pc' \in {"poll", "in", "out"}

LEMMA CountUnchanged ==
  ASSUME CountInv, CountKept
  PROVE  CountInv'
<1>1. (OutBefore' <=> OutBefore) /\ file' = file
  BY DEF CountKept, OutBefore, file
<1> QED BY <1>1 DEF CountKept, CountInv, Sending

LEMMA WhatKeepsCount ==
  ASSUME TypeInv,
         \/ UNCHANGED vars \/ ParentEnding \/ \E i \in Clients : Leaving(i)
         \/ Fork \/ Filling \/ Skip \/ Forward \/ NextChannel \/ Again
         \/ \E i \in Clients \ {0} : Splice(i)
  PROVE  CountKept
<1> USE DEF CountKept, vars, parentVars, clientVars
<1>1. CASE UNCHANGED vars \/ ParentEnding
  BY <1>1 DEF ParentEnding
<1>2. ASSUME NEW i \in Clients, Leaving(i) PROVE CountKept
  <2>1. client'[0] = "splice" => client[0] = "splice"
    BY <1>2, ClientFacts DEF Leaving, Leave, TypeInv
  <2> QED BY <1>2, <2>1 DEF Leaving
<1>3. CASE Fork
  <2>1. client'[0] = "splice" => client[0] = "splice"
    BY <1>3, ClientFacts DEF Fork, TypeInv
  <2> QED BY <1>3, <2>1 DEF Fork
<1>4. CASE Filling \/ Skip \/ Forward
  BY <1>4 DEF Filling, Readable, Skip, Forward
<1>5. CASE NextChannel \/ Again
  BY <1>5 DEF NextChannel, Again
<1>6. ASSUME NEW i \in Clients \ {0}, Splice(i) PROVE CountKept
  BY <1>6 DEF Splice
<1> QED BY <1>1, <1>2, <1>3, <1>4, <1>5, <1>6

LEMMA CountStep ==
  ASSUME TypeInv, ChanInv, PollInv, StreamInv, FirstInv, OutInv, CountInv,
         TypeInv', [Next]_vars
  PROVE  CountInv'
<1>1. CASE CountKept
  BY <1>1, CountUnchanged
<1>2. CASE SendName
  <2>1. (OutBefore' <=> OutBefore) /\ file' = file
    BY <1>2 DEF SendName, WriteName, OutBefore, file
  <2>2. SUFFICES ASSUME ~OutBefore, pc' = "poll"
                 PROVE  CountInv'
    BY <1>2, <2>1 DEF SendName, WriteName, CountInv, Sending
  <2>3. /\ names = <<>> /\ sizes = <<>> /\ client[0] # "splice" /\ file = k - 1
        /\ Len(out) = Len(Sent(first.opened)[k - 1])
    BY <1>2, <2>2 DEF SendName, WriteName, CountInv
  <2>4. /\ counter' = 0 /\ sizeFile' = LONG_MAX /\ k' = k /\ out' = out
        /\ sizes' = sizes /\ client' = client /\ first' = first
        /\ names' = names \o Files[k]
    BY <1>2, <2>2 DEF SendName, WriteName
  <2>5. Len(out) \in Nat
    BY DEF TypeInv, Units
  <2>6. Len(out') = Len(Sent(first'.opened)[k' - 1]) + counter'
    BY <2>3, <2>4, <2>5
  <2>7. names' = Files[k]
    <3>1. Files[k] \in Seq(Chars)
      BY FileFacts DEF TypeInv
    <3> QED BY ONLY <2>3, <2>4, <3>1, ConcatEmptySeq
  <2> QED BY <2>1, <2>2, <2>3, <2>4, <2>6, <2>7 DEF CountInv, Sending
<1>3. CASE Poll
  <2>1. /\ ended' = ended /\ out' = out /\ k' = k /\ counter' = counter
        /\ names' = names /\ first' = first /\ client' = client
        /\ pc = "poll" /\ pc' = "in"
    BY <1>3 DEF Poll
  <2>2. (OutBefore' <=> OutBefore) /\ file' = file
    BY <2>1 DEF OutBefore, file
  <2>3. CASE sizes = <<>>
    <3>1. sizes' = sizes /\ sizeFile' = sizeFile
      BY <1>3, <2>3 DEF Poll
    <3> QED BY <2>1, <2>2, <3>1 DEF CountInv, Sending
  <2>4. CASE sizes # <<>>
    <3>1. SUFFICES ASSUME ~OutBefore PROVE CountInv'
      BY <2>2 DEF CountInv
    <3>2. /\ sizes = <<Disk[first.opened[k]]>> /\ names = <<>> /\ file = k
          /\ client[0] # "splice"
          /\ Len(out) = Len(Sent(first.opened)[k - 1]) + counter
      BY <2>1, <2>4, <3>1 DEF CountInv, Sending
    <3>3. sizes' = <<>> /\ sizeFile' = Disk[first.opened[k]]
      BY <1>3, <2>4, <3>2 DEF Poll
    <3> QED BY <2>1, <2>2, <3>2, <3>3 DEF CountInv, Sending
  <2> QED BY <2>3, <2>4
<1>4. CASE HungUp
  <2>1. ended' = Append(ended, "out")
    BY <1>4 DEF HungUp, Return
  <2>2. OutBefore'
    BY <2>1, EndedAppend
  <2> QED BY <2>2 DEF CountInv
<1>5. CASE Output
  <2>1. /\ ended' = ended /\ k' = k /\ sizeFile' = sizeFile /\ names' = names
        /\ sizes' = sizes /\ first' = first /\ client' = client
        /\ pc = "in" /\ pc' = "out"
    BY <1>5 DEF Output, Readable
  <2>2. (OutBefore' <=> OutBefore) /\ file' = file
    BY <2>1 DEF OutBefore, file
  <2>3. PICK n \in 0..Filled(at).size :
          out' = out \o SubSeq(Filled(at).buf, 1, n) /\ counter' = counter + n
    BY <1>5, OutputFacts
  <2>4. n \in Nat /\ Len(out') = Len(out) + n
    <3>1. Filled(at).buf \in Seq(Unit) /\ n \in 0..Len(Filled(at).buf)
      BY FilledFacts DEF TypeInv, Chan
    <3>2. /\ SubSeq(Filled(at).buf, 1, n) \in Seq(Unit)
          /\ Len(SubSeq(Filled(at).buf, 1, n)) = n /\ n \in Nat
      BY <3>1, SplitFacts
    <3>3. out \in Seq(Unit)
      BY DEF TypeInv, Units
    <3> QED BY <2>3, <3>2, <3>3, ConcatProperties
  <2>5. SUFFICES ASSUME ~OutBefore PROVE CountInv'
    BY <2>2 DEF CountInv
  <2>6. Len(out) = Len(Sent(first.opened)[k - 1]) + counter
    BY <2>1, <2>5 DEF CountInv, Sending
  <2>7. Len(Sent(first.opened)[k - 1]) \in Nat /\ counter \in Nat
    <3>1. file \in {k - 1, k} /\ file \in Nat /\ first.opened \in Opened
      BY <2>1, <2>5, OpenedFacts DEF CountInv, Sending
    <3>2. k - 1 \in 0..Len(first.opened)
      BY <3>1 DEF TypeInv, file
    <3>3. Sent(first.opened)[k - 1] \in Seq(Unit)
      BY ONLY <3>1, <3>2, SentType
    <3> QED BY <3>3 DEF TypeInv
  <2>8. Len(out') = Len(Sent(first'.opened)[k' - 1]) + counter'
    <3>1. PICK l \in Nat : l = Len(Sent(first.opened)[k - 1])
      BY <2>7
    <3>2. Len(Sent(first'.opened)[k' - 1]) = l
      BY <2>1, <3>1
    <3>3. Len(out) = l + counter /\ counter' = counter + n
      BY <2>3, <2>6, <3>1
    <3>4. Len(out') = l + counter'
      BY <2>4, <2>7, <3>3
    <3> QED BY <3>2, <3>4
  <2> QED BY <2>1, <2>2, <2>5, <2>8 DEF CountInv, Sending
<1>6. CASE Counted
  <2>1. ~OutBefore
    BY <1>6, CountedCleanly
  <2>2. /\ file = k /\ out = Sent(first.opened)[k]
        /\ names = <<>> /\ sizes = <<>> /\ client[0] # "splice"
    BY <1>6, <2>1, CountedOut
  <2>3. /\ pc' \in {"name", "over"}
        /\ pc' = "name" => k' = k + 1
        /\ out' = out /\ names' = names /\ sizes' = sizes /\ client' = client
        /\ first' = first /\ file' = file
    BY <1>6 DEF Counted, Return, clientVars, file
  <2>4. (k + 1) - 1 = k
    BY DEF TypeInv
  <2> QED BY <2>2, <2>3, <2>4 DEF CountInv, Sending
<1>7. CASE ReadName
  <2>1. /\ ended' = ended /\ out' = out /\ k' = k /\ counter' = counter
        /\ sizes' = sizes /\ sizeFile' = sizeFile /\ pc' = pc
        /\ names # <<>> /\ names' = <<>>
        /\ \/ Opening /\ client'[0] = "splice"
           \/ first' = first /\ client'[0] = "gone"
    BY <1>7, ReadNameCases DEF parentVars
  <2>2. OutBefore' <=> OutBefore
    BY <2>1 DEF OutBefore
  <2>3. SUFFICES ASSUME ~OutBefore, Sending PROVE CountInv'
    BY <2>1, <2>2 DEF CountInv, Sending
  <2>4. /\ sizes = <<>> /\ sizeFile = LONG_MAX /\ file = k - 1
        /\ Len(out) = Len(Sent(first.opened)[k - 1]) + counter
    BY <2>1, <2>3 DEF CountInv
  <2>5. /\ file' \in {k - 1, k} /\ (client'[0] = "splice" => file' = k)
        /\ Sent(first'.opened)[k - 1] = Sent(first.opened)[k - 1]
    <3>1. CASE first' = first /\ client'[0] = "gone"
      BY <2>4, <3>1 DEF file
    <3>2. CASE Opening
      <4>1. /\ file' = file + 1 /\ file \in Nat /\ k \in Nat
            /\ \A f \in 0..file : Sent(first'.opened)[f] = Sent(first.opened)[f]
        BY <3>2, OpeningFacts, OpenedFacts DEF TypeInv
      <4>2. k - 1 \in 0..file /\ file' = k
        BY <2>4, <4>1
      <4> QED BY <4>1, <4>2
    <3> QED BY <2>1, <3>1, <3>2
  <2> QED BY <2>1, <2>3, <2>4, <2>5 DEF CountInv, Sending
<1>8. CASE SpliceFile
  <2>1. /\ ended' = ended /\ out' = out /\ k' = k /\ counter' = counter
        /\ sizes' = sizes /\ sizeFile' = sizeFile /\ pc' = pc
        /\ names' = names /\ client' = client
    BY <1>8 DEF SpliceFile, parentVars
  <2>2. first'.opened = first.opened /\ file' = file
    BY <1>8, SpliceFileFacts DEF TypeInv, First, file
  <2>3. OutBefore' <=> OutBefore
    BY <2>1 DEF OutBefore
  <2> QED BY <2>1, <2>2, <2>3 DEF CountInv, Sending
<1>9. CASE SendSize
  <2>1. /\ ended' = ended /\ out' = out /\ k' = k /\ counter' = counter
        /\ sizes' = Append(sizes, first.sent) /\ sizeFile' = sizeFile /\ pc' = pc
        /\ names' = names /\ client[0] = "splice" /\ client'[0] = "read"
        /\ first' = first /\ AtEnd
    BY <1>9, ClientFacts DEF SendSize, parentVars, TypeInv
  <2>2. /\ OutBefore' <=> OutBefore
        /\ file' = file /\ first.sent = Disk[first.opened[file]]
    BY <2>1, OpenedFacts DEF OutBefore, AtEnd, FirstInv, file
  <2>3. SUFFICES ASSUME ~OutBefore, Sending PROVE CountInv'
    BY <2>1, <2>2 DEF CountInv, Sending
  <2>4. /\ file = k /\ sizes = <<>> /\ sizeFile = LONG_MAX /\ names = <<>>
        /\ Len(out) = Len(Sent(first.opened)[k - 1]) + counter
    BY <2>1, <2>3 DEF CountInv
  <2>5. sizes' = <<Disk[first.opened[k]]>>
    BY <2>1, <2>2, <2>4
  <2> QED BY <2>1, <2>2, <2>3, <2>4, <2>5 DEF CountInv, Sending
<1> QED
  BY StepCases, WhatKeepsCount, <1>1, <1>2, <1>3, <1>4, <1>5, <1>6, <1>7, <1>8,
     <1>9

-----------------------------------------------------------------------------
(* The names: what is read behind a shorter or equally long one is opened  *)
(* as it is, and no name that is kept is longer than the longest one read. *)
LEMMA OverlaidKeeps ==
  ASSUME NEW old \in Seq(Chars), NEW f \in 1..NumFiles, NEW name,
         name = Files[f] \o SubSeq(old, Len(Files[f]) + 1, Len(old)),
         f = 1 => old = <<>>,
         f # 1 => \A l \in Nat : LongestTo(f - 1, l) => Len(old) <= l
  PROVE  KeepsName(name, f)
<1> DEFINE new == Files[f]
           tail == SubSeq(old, Len(new) + 1, Len(old))
<1>1. new \in Seq(Chars) /\ Len(new) \in Nat /\ Len(old) \in Nat
  BY FileFacts
<1>2. tail \in Seq(Chars) /\ Len(tail) = IF Len(old) <= Len(new) THEN 0
                                         ELSE Len(old) - Len(new)
  <2> HIDE DEF new
  <2>1. CASE Len(old) <= Len(new)
    <3>1. tail = <<>>
      BY <1>1, <2>1
    <3> QED BY <2>1, <3>1, EmptySeq
  <2>2. CASE ~(Len(old) <= Len(new))
    <3>1. PICK n \in 0..Len(old) : n = Len(new)
      BY <1>1, <2>2
    <3>2. /\ SubSeq(old, n + 1, Len(old)) \in Seq(Chars)
          /\ Len(SubSeq(old, n + 1, Len(old))) = Len(old) - n
      BY SplitFacts
    <3> QED BY <2>2, <3>1, <3>2
  <2> QED BY <2>1, <2>2
<1>3. name = new \o tail /\ Len(name) = Len(new) + Len(tail)
  <2> HIDE DEF new, tail
  <2>1. name = new \o tail
    BY DEF new, tail
  <2> QED BY <1>1, <1>2, <2>1, ConcatProperties
<1>4. ASSUME NEW l \in Nat, LongestTo(f, l)
      PROVE  Len(new) <= l /\ Len(old) <= l
  <2>1. Len(new) <= l
    BY <1>4 DEF LongestTo
  <2>2. CASE f = 1
    BY <1>4, <2>1, <2>2, EmptySeq
  <2>3. CASE f # 1
    <3>1. \A e \in 1..f - 1 : e \in 1..f
      BY FileFacts
    <3>2. LongestTo(f - 1, l)
      BY <1>4, <3>1 DEF LongestTo
    <3> QED BY <1>4, <2>1, <2>3, <3>2
  <2> QED BY <2>2, <2>3
<1> HIDE DEF new, tail
<1>5. ASSUME NEW l \in Nat, LongestTo(f, l) PROVE Len(name) <= l
  <2>1. Len(new) <= l /\ Len(old) <= l
    BY <1>4, <1>5
  <2> QED BY ONLY <1>1, <1>2, <1>3, <2>1
<1>6. LongestTo(f, Len(new)) => name = new
  <2>1. SUFFICES ASSUME LongestTo(f, Len(new)) PROVE name = new
    OBVIOUS
  <2>2. Len(tail) = 0
    BY <1>1, <1>2, <1>4, <2>1
  <2>3. tail = <<>>
    BY <1>2, <2>2, EmptySeq
  <2> QED BY <1>1, <1>3, <2>3, ConcatEmptySeq
<1> QED BY <1>5, <1>6 DEF KeepsName, new

LEMMA NamesStep ==
  ASSUME TypeInv, ForkInv, FirstInv, CountInv, NamesInv, TypeInv', [Next]_vars
  PROVE  NamesInv'
<1>1. (OutBefore => OutBefore') /\ (ParentOver => ParentOver')
  <2> USE DEF vars, parentVars, clientVars, ParentOver
  <2>1. CASE HungUp \/ Counted
    <3>1. /\ ended' = Append(ended, "out") \/ ended' = Append(ended, "counted")
          /\ pc \in {"in", "out"}
      BY <2>1 DEF HungUp, Counted, Return
    <3> QED BY <3>1, EndedAppend
  <2>2. CASE ended' = ended /\ (ParentOver => ParentOver')
    BY <2>2 DEF OutBefore
  <2>3. CASE UNCHANGED vars \/ ParentEnding \/ \E i \in Clients : Leaving(i)
    BY <2>2, <2>3 DEF ParentEnding, Leaving
  <2>4. CASE Fork \/ SendName \/ Poll \/ Skip
    BY <2>2, <2>4 DEF Fork, SendName, WriteName, Poll, Skip
  <2>5. CASE Filling \/ Output \/ Forward \/ NextChannel \/ Again
    BY <2>2, <2>5 DEF Filling, Output, Readable, Forward, NextChannel, Again
  <2>6. CASE ReadName \/ SpliceFile \/ SendSize \/ \E i \in Clients \ {0} : Splice(i)
    BY <2>2, <2>6 DEF ReadName, SpliceFile, SendSize, Splice
  <2> QED BY <2>1, <2>3, <2>4, <2>5, <2>6, StepCases
<1>2. CASE first'.opened = first.opened
  BY <1>1, <1>2 DEF NamesInv, file
<1>3. CASE ReadName /\ Opening
  <2>1. SUFFICES ASSUME ~OutBefore, ~ParentOver
                 PROVE  \A f \in 1..file' : KeepsName(first'.opened[f], f)
    BY <1>1 DEF NamesInv
  <2>2. names # <<>> /\ client[0] = "read"
    BY <1>3, ReadNameCases
  <2>3. names = Files[k] /\ file = k - 1
    BY <2>1, <2>2 DEF CountInv, Sending, ParentOver, TypeInv
  <2>4. /\ file' = file + 1 /\ first'.opened[file + 1] = Overlaid
        /\ \A f \in 1..file : first'.opened[f] = first.opened[f]
    BY <1>3, OpeningFacts
  <2>5. \A f \in 1..file : KeepsName(first.opened[f], f)
    BY <2>1 DEF NamesInv
  <2>6. PICK f \in 1..NumFiles : f = k
    BY DEF TypeInv
  <2>7. PICK old \in Seq(Chars) : old = nameFile
    <3>1. nameFile \in Seq(Chars)
      BY OpenedFacts, EmptySeq, SizesAssumption
    <3> QED BY <3>1
  <2>8. Overlaid = Files[f] \o SubSeq(old, Len(Files[f]) + 1, Len(old))
    BY <2>3, <2>6, <2>7 DEF Overlaid
  <2>9. f = 1 => old = <<>>
    BY <2>3, <2>6, <2>7, OpenedFacts
  <2>10. f # 1 => \A l \in Nat : LongestTo(f - 1, l) => Len(old) <= l
    <3>1. SUFFICES ASSUME f # 1
                   PROVE  \A l \in Nat : LongestTo(f - 1, l) => Len(old) <= l
      OBVIOUS
    <3>2. file = f - 1 /\ file # 0 /\ file \in 1..file
      BY <2>3, <2>6, <3>1, OpenedFacts
    <3>3. old = first.opened[f - 1] /\ KeepsName(first.opened[f - 1], f - 1)
      BY <2>5, <2>7, <3>2, OpenedFacts
    <3> QED BY <3>3 DEF KeepsName
  <2>11. KeepsName(Overlaid, f)
    BY ONLY <2>8, <2>9, <2>10, OverlaidKeeps
  <2>12. ASSUME NEW g \in 1..file' PROVE KeepsName(first'.opened[g], g)
    <3>1. file \in Nat /\ k \in Nat /\ file + 1 = k
      BY <2>3, OpenedFacts DEF TypeInv
    <3>2. CASE g \in 1..file
      BY <2>4, <2>5, <3>2
    <3>3. CASE g = file + 1
      BY <2>4, <2>6, <2>11, <3>1, <3>3
    <3> QED BY <2>4, <3>1, <3>2, <3>3
  <2> QED BY <2>12
<1> QED BY <1>2, <1>3, OpenedStays

-----------------------------------------------------------------------------
(* What a SendFile that ended by its count has output.                     *)
Whole(f) ==
  /\ f <= file /\ IsPrefix(Sent(first.opened)[f], out)
  /\ LongestTo(f, Len(Files[f])) => first.opened[f] = Files[f]

LEMMA WholeStays ==
  ASSUME TypeInv, ForkInv, FirstInv, TypeInv', [Next]_vars,
         NEW f \in Nat \ {0}, Whole(f)
  PROVE  Whole(f)'
<1>1. out \in Seq(Unit) /\ out' \in Seq(Unit) /\ file \in Nat /\ file' \in Nat
  <2>1. first'.opened \in Opened
    BY DEF TypeInv, First
  <2>2. file' \in Nat
    BY <2>1, DiskFacts DEF file
  <2> QED BY <2>2, OpenedFacts DEF TypeInv, Units
<1>2. f \in 1..file /\ f \in 0..file
  BY <1>1 DEF Whole
<1>3. /\ f <= file' /\ first'.opened[f] = first.opened[f]
      /\ Sent(first'.opened)[f] = Sent(first.opened)[f]
  BY <1>1, <1>2, OpenedGrows
<1>4. Sent(first.opened)[f] \in Seq(Unit)
  <2>1. first.opened \in Opened /\ f \in 0..Len(first.opened)
    BY <1>2, OpenedFacts DEF file
  <2> QED BY ONLY <2>1, SentType
<1>5. IsPrefix(Sent(first.opened)[f], out')
  <2>1. IsPrefix(Sent(first.opened)[f], out) /\ IsPrefix(out, out')
    BY OutGrows DEF Whole
  <2> QED BY ONLY <1>1, <1>4, <2>1, PrefixTransitive
<1> QED BY <1>3, <1>5 DEF Whole

LEMMA CountedWholeIs ==
  CountedIsWhole <=> \A f \in DOMAIN ended : ended[f] = "counted" => Whole(f)
  BY DEF CountedIsWhole, Whole, LongestTo

LEMMA CountedWholeIsNext ==
  CountedIsWhole' <=> \A f \in DOMAIN ended' : ended'[f] = "counted" => Whole(f)'
  BY DEF CountedIsWhole, Whole, LongestTo

LEMMA ReturnEnds ==
  ASSUME TypeInv, ForkInv, FirstInv, EndedInv, TypeInv', [Next]_vars,
         pc \in {"in", "out"}, NEW how \in {"counted", "out"}, Return(how),
         how = "counted" => Whole(k)
  PROVE  EndedInv'
<1>1. /\ ended' = Append(ended, how) /\ pc' \in {"name", "over"}
      /\ pc' = "name" => k' = k + 1
      /\ pc' = "over" => k' = k
  BY DEF Return
<1>2. PICK l \in Nat : l = Len(ended) /\ l = k - 1
  BY DEF EndedInv, TypeInv, Ends
<1>3. /\ DOMAIN ended' = 1..(l + 1) /\ Len(ended') = l + 1
      /\ \A f \in 1..l : ended'[f] = ended[f]
      /\ ended'[l + 1] = how /\ DOMAIN ended = 1..l
  <2>1. Len(Append(ended, how)) = Len(ended) + 1
    BY AppendProperties DEF TypeInv, Ends
  <2> QED BY <1>1, <1>2, <2>1, EndedAppend
<1>4. k \in Nat /\ l + 1 = k
  BY <1>2 DEF TypeInv
<1>5. ASSUME NEW f \in 1..(l + 1), ended'[f] = "counted"
      PROVE  Whole(f)
  <2>1. CASE f \in 1..l
    BY <1>3, <1>5, <2>1, CountedWholeIs DEF EndedInv
  <2>2. CASE f = l + 1
    BY <1>3, <1>4, <1>5, <2>2
  <2> QED BY <1>2, <2>1, <2>2
<1>6. \A f \in 1..(l + 1) : ended'[f] = "counted" => Whole(f)'
  <2>1. \A f \in 1..(l + 1) : f \in Nat \ {0}
    BY <1>2
  <2> QED BY <1>5, <2>1, WholeStays
<1>7. CountedIsWhole'
  BY <1>3, <1>6, CountedWholeIsNext
<1> QED BY <1>1, <1>3, <1>4, <1>7 DEF EndedInv

LEMMA CountedIsIt ==
  ASSUME TypeInv, ChanInv, PollInv, StreamInv, FirstInv, OutInv, CountInv,
         NamesInv, Counted
  PROVE  Whole(k)
<1>1. ~OutBefore
  BY CountedCleanly
<1>2. file = k /\ out = Sent(first.opened)[k]
  BY <1>1, CountedOut
<1>3. k \in 1..file
  BY <1>2 DEF TypeInv
<1>4. KeepsName(first.opened[k], k)
  BY <1>1, <1>3 DEF NamesInv, ParentOver, Counted
<1>5. IsPrefix(out, out)
  <2>1. out \in Seq(Unit)
    BY DEF TypeInv, Units
  <2> QED BY <2>1, PrefixElements
<1> QED BY <1>2, <1>3, <1>4, <1>5 DEF Whole, KeepsName

LEMMA EndedStep ==
  ASSUME TypeInv, ChanInv, PollInv, ForkInv, StreamInv, FirstInv, OutInv,
         CountInv, NamesInv, EndedInv, TypeInv', [Next]_vars
  PROVE  EndedInv'
<1>1. CASE HungUp
  BY <1>1, ReturnEnds DEF HungUp
<1>2. CASE Counted
  BY <1>2, ReturnEnds, CountedIsIt DEF Counted
<1>3. CASE ended' = ended /\ k' = k /\ (pc' \notin {"over", "killed"} =>
                                          pc \notin {"over", "killed"})
  <2>1. ended \in Seq({"counted", "out"})
    BY DEF TypeInv, Ends
  <2>2. \A f \in DOMAIN ended : f \in Nat \ {0}
    BY <2>1
  <2>3. \A f \in DOMAIN ended : ended[f] = "counted" => Whole(f)'
    BY <2>2, WholeStays, CountedWholeIs DEF EndedInv
  <2>4. CountedIsWhole'
    BY <1>3, <2>3, CountedWholeIsNext
  <2> QED BY <1>3, <2>4 DEF EndedInv
<1>4. \/ HungUp \/ Counted
      \/ ended' = ended /\ k' = k /\ (pc' \notin {"over", "killed"} =>
                                        pc \notin {"over", "killed"})
  <2> USE DEF vars, parentVars, clientVars
  <2>1. CASE UNCHANGED vars \/ ParentEnding \/ \E i \in Clients : Leaving(i)
    BY <2>1 DEF ParentEnding, Leaving
  <2>2. CASE Fork \/ SendName \/ Poll \/ Skip
    BY <2>2 DEF Fork, SendName, WriteName, Poll, Skip
  <2>3. CASE Filling \/ Output \/ Forward \/ NextChannel \/ Again
    BY <2>3 DEF Filling, Output, Readable, Forward, NextChannel, Again
  <2>4. CASE ReadName \/ SpliceFile \/ SendSize \/ \E i \in Clients \ {0} : Splice(i)
    BY <2>4 DEF ReadName, SpliceFile, SendSize, Splice
  <2> QED BY <2>1, <2>2, <2>3, <2>4, StepCases
<1> QED BY <1>1, <1>2, <1>3, <1>4

-----------------------------------------------------------------------------
LEMMA InitInv == Init => IInv
<1> SUFFICES ASSUME Init PROVE IInv
  OBVIOUS
<1> USE DEF Init
<1>1. TypeInv
  <2>1. /\ <<>> \in Units /\ <<>> \in Names /\ <<>> \in Sizes /\ <<>> \in Ends
        /\ <<>> \in Seq(Unit)
    BY EmptySeq DEF Units, Names, Sizes, Ends
  <2>2. chan \in [Clients -> Chan]
    BY <2>1 DEF Chan
  <2>3. polled \in Polled /\ first \in First
    BY EmptySeq DEF Polled, NoEvents, First, Opened
  <2>4. /\ client \in [Clients -> {"none", "read", "splice", "gone"}]
        /\ SC \in [Clients -> Units] /\ CS \in [Clients -> Units]
    BY <2>1
  <2>5. /\ pc = "fork" /\ k \in 1..NumFiles /\ at \in Clients
        /\ counter \in Nat /\ sizeFile \in Nat \cup {LONG_MAX}
    BY FileFacts, ClientFacts
  <2>6. ended \in Ends /\ out \in Units /\ names \in Names /\ sizes \in Sizes
    BY <2>1
  <2> QED BY <2>2, <2>3, <2>4, <2>5, <2>6 DEF TypeInv
<1>2. ChanInv
  BY DEF ChanInv
<1>3. PollInv /\ ForkInv
  BY DEF PollInv, ForkInv, NoEvents
<1>4. StreamInv
  <2>1. SC[0] = <<>> /\ out = <<>>
    BY ClientFacts
  <2>2. SentByFirst = <<>>
    BY DEF SentByFirst, file
  <2>3. \A i \in Clients : InChannel(i) = <<>>
    <3> SUFFICES ASSUME NEW i \in Clients PROVE InChannel(i) = <<>>
      OBVIOUS
    <3>1. chan[i] \in Chan /\ chan[i].size = 0
      BY <1>1 DEF TypeInv
    <3>2. Held(chan[i]) = <<>>
      BY <3>1, HeldNothing
    <3>3. InChannel(i) = (<<>> \o <<>>) \o <<>>
      BY <3>2 DEF InChannel
    <3> QED BY <3>3, NothingJoined
  <2> DEFINE T == {i \in Nat : i <= N => Upstream[i] = <<>>}
  <2>4. 0 \in T
    BY UpstreamRec DEF UpstreamIs
  <2>5. ASSUME NEW i \in Nat, i \in T PROVE i + 1 \in T
    <3>1. CASE i + 1 <= N
      <4>1. i \in Clients /\ Upstream[i] = <<>>
        BY <2>5, <3>1, ClientFacts
      <4>2. Upstream[i + 1] = InChannel(i) \o Upstream[i]
        BY <4>1, UpstreamRec DEF UpstreamIs
      <4>3. Upstream[i + 1] = <<>>
        BY <2>3, <4>1, <4>2, NothingJoined
      <4> QED BY <4>3
    <3>2. CASE ~(i + 1 <= N)
      BY <3>2
    <3> QED BY <3>1, <3>2
  <2>6. T \in SUBSET Nat
    OBVIOUS
  <2> HIDE DEF T
  <2>7. T = Nat
    BY <2>4, <2>5, <2>6, Induction
  <2>8. Upstream[N] = <<>>
    <3>1. N \in T /\ N <= N
      BY ONLY <2>7, SizesAssumption
    <3> QED BY ONLY <3>1 DEF T
  <2>9. out \o Upstream[N] = <<>>
    BY ONLY <2>1, <2>8, NothingJoined, Zenon
  <2> QED BY <2>1, <2>2, <2>9 DEF StreamInv
<1>5. FirstInv
  BY ClientFacts DEF FirstInv, file
<1>6. OutInv
  BY DEF OutInv, OutBefore
<1>7. CountInv /\ NamesInv
  <2>1. first.opened = <<>> /\ file = 0 /\ k - 1 = 0
    BY DEF file
  <2>2. Sent(first.opened)[0] = <<>>
    BY <1>1, OpenedFacts, SentRec
  <2>3. NamesInv
    BY <2>1 DEF NamesInv
  <2> QED BY <2>1, <2>2, <2>3, ClientFacts DEF CountInv, Sending
<1>8. EndedInv
  BY DEF EndedInv, CountedIsWhole
<1> QED BY <1>1, <1>2, <1>3, <1>4, <1>5, <1>6, <1>7, <1>8 DEF IInv

LEMMA NextInv == IInv /\ [Next]_vars => IInv'
<1> SUFFICES ASSUME IInv, [Next]_vars PROVE IInv'
  OBVIOUS
<1>1. /\ TypeInv /\ ChanInv /\ PollInv /\ ForkInv /\ StreamInv
      /\ FirstInv /\ OutInv /\ CountInv /\ NamesInv /\ EndedInv
  BY DEF IInv
<1>2. TypeInv' /\ ChanInv'
  BY <1>1, TypeStep, ChanStep
<1>3. PollInv' /\ ForkInv' /\ OutInv'
  BY <1>1, PollStep, ForkStep, OutStep
<1>4. StreamInv' /\ FirstInv'
  BY <1>1, <1>2, StreamStep, FirstInvStep
<1>5. CountInv' /\ NamesInv' /\ EndedInv'
  BY <1>1, <1>2, CountStep, NamesStep, EndedStep
<1> QED BY <1>2, <1>3, <1>4, <1>5 DEF IInv

(* The inductive invariant of the proxy.                                   *)
THEOREM InductiveInvariant == Spec => []IInv
BY InitInv, NextInv, PTL DEF Spec

(* Whatever fails, wherever the pipes and buffers fill up, the parent's    *)
(* output and behind it what is under way through the chain of clients is  *)
(* the files client 0 has opened, in that order and with none of it lost   *)
(* or doubled (SendFile's loop, StartFirstClient, StartClient).            *)
THEOREM OrderKept == Spec => []InOrder
<1>1. IInv => InOrder
  BY OutPrefix DEF IInv, InOrder
<1> QED BY <1>1, InductiveInvariant, PTL

(* A SendFile whose loop ended by its count has output its file to the end *)
(* behind those of the SendFiles before it, and that is the file that was  *)
(* asked for where no name before it was longer.                           *)
THEOREM CountedWhole == Spec => []CountedIsWhole
<1>1. IInv => CountedIsWhole
  BY DEF IInv, EndedInv
<1> QED BY <1>1, InductiveInvariant, PTL
=============================================================================
