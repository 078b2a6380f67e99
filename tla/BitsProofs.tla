----------------------------- MODULE BitsProofs -----------------------------
(***************************************************************************)
(* The two parts that pack bits in bytes.                                  *)
(*                                                                         *)
(* BinArray, for bytes of every width, words of any number of them and     *)
(* arrays of every size: its four properties.  ArrayInv only says that the *)
(* bits a caller can have lie in the memory allocated for the array; the   *)
(* rest is about the operators, for every range in it.                     *)
(*   CoverIsBits     the masks and the words between them are the range    *)
(*   FirstInWords    the search word by word finds the first place         *)
(*   FirstInRest     so does the one in the first, shifted word            *)
(*   StoresChain     no store begins past what the one before has copied   *)
(*   TurnsCopy       so the turns of the three loops copy the range        *)
(*                                                                         *)
(* Signal, for every file, byte and buffer size and every set of faults:   *)
(* the exchange of signals stays in step, the output is a prefix of the    *)
(* file where no write fails, a write that fails costs one whole byte, and *)
(* a writer that returns 0 was heard to the end.                           *)
(***************************************************************************)
EXTENDS SignalBits, BinArray, SequenceTheorems, WellFoundedInduction, TLAPS

(* Division with remainder.                                                *)
LEMMA Quotient ==
  ASSUME NEW w \in Nat \ {0}, NEW n \in Nat
  PROVE  /\ n \div w \in Nat /\ n % w \in 0..w - 1
         /\ n = w * (n \div w) + (n % w)
  BY SMT

(* Words, or bytes, that n bits take.                                      *)
Up(n, w) == (n \div w) + IF n % w # 0 THEN 1 ELSE 0

(* A greater number of words has more bits.                                *)
LEMMA Multiples ==
  ASSUME NEW w \in Nat \ {0}, NEW p \in Nat, NEW q \in Nat
  PROVE  /\ w * p \in Nat /\ w * (p + 1) = w * p + w
         /\ p < q => w * p + w <= w * q
         /\ p <= q => w * p <= w * q
<1>1. /\ w * p \in Nat /\ w * (p + 1) = w * p + w
  BY SMT
<1>2. p <= q => w * p <= w * q
  BY SMT
<1>3. p + 1 <= q => w * (p + 1) <= w * q
  BY SMT
<1> QED BY <1>1, <1>2, <1>3

(* No fewer words than hold n bits, and no more than needed.               *)
LEMMA UpFacts ==
  ASSUME NEW w \in Nat \ {0}, NEW n \in Nat
  PROVE  /\ Up(n, w) \in Nat /\ n <= w * Up(n, w)
         /\ n > 0 => Up(n, w) >= 1 /\ w * (Up(n, w) - 1) < n
         /\ \A m \in Nat : n <= w * m => Up(n, w) <= m
<1>1. /\ n \div w \in Nat /\ n % w \in 0..w - 1
      /\ n = w * (n \div w) + (n % w)
  BY Quotient
<1>2. PICK q \in Nat, h \in 0..w - 1 : q = n \div w /\ h = n % w
  BY <1>1
<1>3. n = w * q + h
  BY <1>1, <1>2
<1>4. CASE h = 0
  <2>1. Up(n, w) = q
    BY <1>2, <1>4 DEF Up
  <2>2. w * q = n /\ (q >= 1 => w * (q - 1) < n)
    <3>1. q >= 1 => w * q = w * (q - 1) + w
      BY Multiples, q >= 1 => q - 1 \in Nat /\ (q - 1) + 1 = q
    <3>2. w * q \in Nat /\ (q >= 1 => w * (q - 1) \in Nat)
      BY Multiples, q >= 1 => q - 1 \in Nat
    <3> QED BY <1>3, <1>4, <3>1, <3>2
  <2>3. n > 0 => q >= 1
    BY <2>2, w * 0 = 0
  <2>4. ASSUME NEW m \in Nat, n <= w * m PROVE q <= m
    <3>1. m < q => w * m + w <= w * q
      BY Multiples
    <3>2. w * m \in Nat
      BY Multiples
    <3> QED BY <2>2, <2>4, <3>1, <3>2
  <2> QED BY <2>1, <2>2, <2>3, <2>4
<1>5. CASE h # 0
  <2>1. Up(n, w) = q + 1
    BY <1>2, <1>5 DEF Up
  <2>2. w * q \in Nat /\ w * (q + 1) = w * q + w
    BY Multiples
  <2>3. ASSUME NEW m \in Nat, n <= w * m PROVE q + 1 <= m
    <3>1. m <= q => w * m <= w * q
      BY Multiples
    <3>2. w * m \in Nat
      BY Multiples
    <3> QED BY <1>3, <1>5, <2>2, <2>3, <3>1, <3>2
  <2> QED BY <1>3, <1>5, <2>1, <2>2, <2>3
<1> QED BY <1>4, <1>5

(* The widths are positive, and a word is K bytes.                         *)
LEMMA Widths ==
  /\ BYTE \in Nat \ {0} /\ K \in Nat \ {0, 1}
  /\ WORD \in Nat \ {0} /\ WORD = BYTE * K /\ Word = 0..WORD - 1
<1>1. K * BYTE \in Nat \ {0} /\ K * BYTE = BYTE * K
  BY WidthAssumption
<1> QED BY <1>1, WidthAssumption DEF WORD, Word

(* The code counts words and bytes in the same way.                        *)
LEMMA WordsUp ==
  ASSUME NEW n \in Nat
  PROVE  baGetSizeArrayIn8Byte(n) = Up(n, WORD) /\ baBits2Bytes(n) = Up(n, BYTE)
  BY DEF baGetSizeArrayIn8Byte, baBits2Bytes, Up

(* Begins and lengths of every size, of an array that may not be there.    *)
AnyRange == [begin : Nat, len : Nat]

(* The masks and the words between them cover the range.                   *)
LEMMA CoverIsBits ==
  ASSUME NEW r \in AnyRange, r.len > 0
  PROVE  Cover(r) = Bits(r)
<1> DEFINE rshift == r.begin % WORD
           rlen == WORD - rshift
           left == r.len - rlen
           num_u64 == baGetSizeArrayIn8Byte(left) - 1
<1>1. /\ r.begin \in Nat /\ r.len \in Nat \ {0} /\ WORD \in Nat \ {0}
      /\ rshift \in 0..WORD - 1
  <2>1. r.begin \in Nat /\ r.len \in Nat \ {0} /\ WORD \in Nat \ {0}
    BY Widths DEF AnyRange
  <2>2. r.begin % WORD \in 0..WORD - 1
    BY ONLY <2>1, Quotient
  <2> QED BY <2>1, <2>2
<1> HIDE DEF rshift
<1>2. CASE InOneWord(r)
  <2>1. rshift + r.len <= WORD
    BY <1>2 DEF InOneWord, rshift
  <2>2. Cover(r) = {r.begin + x : x \in {y \in LowBits(r.len) : rshift + y < WORD}}
    BY <1>2 DEF Cover, rshift
  <2>3. LowBits(r.len) = 0..r.len - 1
    BY <1>1 DEF LowBits
  <2>4. {y \in LowBits(r.len) : rshift + y < WORD} = 0..r.len - 1
    BY <1>1, <2>1, <2>3
  <2>5. \A z \in Bits(r) : z - r.begin \in 0..r.len - 1 /\ z = r.begin + (z - r.begin)
    BY <1>1 DEF Bits
  <2>6. \A x \in 0..r.len - 1 : r.begin + x \in Bits(r)
    BY <1>1 DEF Bits
  <2> QED BY <2>2, <2>4, <2>5, <2>6
<1>3. CASE ~InOneWord(r)
  <2>1. rlen \in Nat \ {0} /\ left \in Nat \ {0}
    BY <1>1, <1>3 DEF InOneWord, rshift
  <2>2. PICK p \in Nat : p = WORD * num_u64 /\ p < left /\ left <= p + WORD
    <3>1. /\ baGetSizeArrayIn8Byte(left) \in Nat /\ baGetSizeArrayIn8Byte(left) >= 1
          /\ left <= WORD * baGetSizeArrayIn8Byte(left)
          /\ WORD * (baGetSizeArrayIn8Byte(left) - 1) < left
      <4> HIDE DEF left
      <4>1. left \in Nat /\ left > 0
        BY <2>1
      <4>2. baGetSizeArrayIn8Byte(left) = Up(left, WORD)
        BY <4>1, WordsUp
      <4> QED BY ONLY <1>1, <4>1, <4>2, UpFacts
    <3>2. num_u64 \in Nat /\ num_u64 + 1 = baGetSizeArrayIn8Byte(left)
      BY <3>1
    <3> HIDE DEF num_u64, left
    <3>3. WORD * num_u64 \in Nat /\ WORD * (num_u64 + 1) = WORD * num_u64 + WORD
      BY <1>1, <3>2, Multiples
    <3>4. WORD * num_u64 < left
      BY <3>1 DEF num_u64
    <3> QED BY <3>1, <3>2, <3>3, <3>4
  <2> DEFINE full == (r.begin + rlen)..(r.begin + rlen + p - 1)
             last == {r.begin + rlen + p + x : x \in LowBits(left - p)}
  <2>3. Cover(r) = (r.begin)..(r.begin + rlen - 1) \cup full \cup last
    BY <1>3, <2>2 DEF Cover, rshift
  <2>4. LowBits(left - p) = 0..left - p - 1
    BY <2>1, <2>2 DEF LowBits
  <2> DEFINE z0 == r.begin + rlen + p
  <2>5. last = z0..(r.begin + r.len - 1)
    <3>1. \A z \in z0..(r.begin + r.len - 1) :
            z - z0 \in 0..left - p - 1 /\ z = z0 + (z - z0)
      BY <1>1, <2>1, <2>2
    <3>2. \A x \in 0..left - p - 1 : z0 + x \in z0..(r.begin + r.len - 1)
      BY <1>1, <2>1, <2>2
    <3>3. last = {z0 + x : x \in 0..left - p - 1}
      BY <2>4
    <3> HIDE DEF last, z0, left
    <3> QED BY <3>1, <3>2, <3>3
  <2> QED BY <1>1, <2>1, <2>2, <2>3, <2>5 DEF Bits
<1> QED BY <1>2, <1>3

(* baCreate and baResize allocate whole words, and no fewer bytes than the *)
(* copies write.                                                           *)
LEMMA AllocatedFacts ==
  ASSUME NEW n \in Nat
  PROVE  /\ 0..n - 1 \subseteq Allocated(n)
         /\ 0..BYTE * baBits2Bytes(n) - 1 \subseteq Allocated(n)
<1> DEFINE u == baGetSizeArrayIn8Byte(n)
           b == baBits2Bytes(n)
<1>1. /\ BYTE \in Nat \ {0} /\ K \in Nat /\ WORD \in Nat \ {0}
      /\ WORD = BYTE * K
  BY Widths
<1>2. u = Up(n, WORD) /\ b = Up(n, BYTE)
  BY WordsUp
<1>3. u \in Nat /\ n <= WORD * u
  BY ONLY <1>1, <1>2, UpFacts
<1>4. b \in Nat /\ \A m \in Nat : n <= BYTE * m => b <= m
  BY ONLY <1>1, <1>2, UpFacts
<1>5. Allocated(n) = 0..WORD * u - 1
  BY DEF Allocated
<1> HIDE DEF u, b
<1>6. K * u \in Nat /\ WORD * u = BYTE * (K * u)
  BY <1>1, <1>3
<1>7. b <= K * u
  BY <1>3, <1>4, <1>6
<1>8. BYTE * b <= BYTE * (K * u)
  BY <1>1, <1>4, <1>6, <1>7, Multiples
<1>9. BYTE * b \in Nat /\ WORD * u \in Nat
  BY <1>1, <1>3, <1>4, Multiples
<1>10. BYTE * b <= WORD * u
  BY <1>6, <1>8
<1> HIDE DEF Allocated
<1>11. /\ 0..n - 1 \subseteq Allocated(n)
       /\ 0..BYTE * b - 1 \subseteq Allocated(n)
  BY ONLY <1>3, <1>5, <1>9, <1>10
<1> QED BY <1>11 DEF b

(* The array is a number of bits in the words that hold them.              *)
ArrayInv ==
  /\ num_bits_ \in Nat \ {0}
  /\ buf_ \subseteq Allocated(num_bits_)

(* The ranges that baCheckCalcArg lets through lie in the array.           *)
LEMMA RangeFacts ==
  ASSUME ArrayInv, NEW r \in Ranges
  PROVE  /\ r \in AnyRange /\ r.begin + r.len <= num_bits_
         /\ Bits(r) \subseteq Allocated(num_bits_)
         /\ Bits(r) \subseteq 0..num_bits_ - 1
<1>1. r \in AnyRange /\ r.begin + r.len <= num_bits_ /\ num_bits_ \in Nat
  BY DEF ArrayInv, Ranges, AnyRange
<1>2. Bits(r) \subseteq 0..num_bits_ - 1
  BY <1>1 DEF Bits, AnyRange
<1>3. 0..num_bits_ - 1 \subseteq Allocated(num_bits_)
  BY <1>1, AllocatedFacts
<1> QED BY <1>1, <1>2, <1>3

(* The arrays that baGetInvert and baGetSubArray allocate hold what they   *)
(* write.                                                                  *)
LEMMA InvertAllocated ==
  ASSUME ArrayInv
  PROVE  /\ baGetInvert \subseteq Allocated(num_bits_)
         /\ baGetInvert \cap 0..num_bits_ - 1 = 0..num_bits_ - 1 \ buf_
<1> DEFINE q == num_bits_ \div WORD
           h == num_bits_ % WORD
           b == baBits2Bytes(h)
<1>1. /\ BYTE \in Nat \ {0} /\ K \in Nat /\ WORD \in Nat \ {0}
      /\ WORD = BYTE * K /\ num_bits_ \in Nat
  BY Widths DEF ArrayInv
<1>2. q \in Nat /\ h \in 0..WORD - 1 /\ num_bits_ = WORD * q + h
  BY ONLY <1>1, Quotient
<1>3. baGetInvert = 0..(WORD * q + BYTE * b - 1) \ buf_
  BY DEF baGetInvert
<1>4. baGetSizeArrayIn8Byte(num_bits_) = q + IF h # 0 THEN 1 ELSE 0
  BY DEF baGetSizeArrayIn8Byte
<1>5. h \in Nat /\ b = Up(h, BYTE)
  BY <1>1, <1>2, WordsUp
<1>6. Allocated(num_bits_) = 0..WORD * (q + IF h # 0 THEN 1 ELSE 0) - 1
  BY <1>4 DEF Allocated
<1>7. /\ b \in Nat /\ h <= BYTE * b /\ (h <= BYTE * K => b <= K)
      /\ (h <= BYTE * 0 => b <= 0)
  BY ONLY <1>1, <1>5, UpFacts
<1> HIDE DEF q, h, b
<1>8. WORD * q \in Nat /\ WORD * (q + 1) = WORD * q + WORD
  BY <1>1, <1>2, Multiples
<1>9. BYTE * b \in Nat /\ (b <= K => BYTE * b <= WORD)
  BY <1>1, <1>7, Multiples
<1>10. h <= BYTE * K
  BY <1>1, <1>2
<1>11. BYTE * b <= WORD /\ (h = 0 => BYTE * b = 0)
  <2>1. BYTE * 0 = 0
    BY <1>1
  <2>2. h = 0 => b = 0
    BY <1>5, <1>7, <2>1
  <2> QED BY <1>7, <1>9, <1>10, <2>1, <2>2
<1>12. baGetInvert \subseteq Allocated(num_bits_)
  <2>1. CASE h = 0
    <3>1. q + (IF h # 0 THEN 1 ELSE 0) = q
      BY <1>2, <2>1
    <3>2. Allocated(num_bits_) = 0..WORD * q - 1
      BY ONLY <1>6, <3>1
    <3> QED BY ONLY <1>3, <1>8, <1>11, <2>1, <3>2
  <2>2. CASE h # 0
    <3>1. q + (IF h # 0 THEN 1 ELSE 0) = q + 1
      BY <2>2
    <3>2. Allocated(num_bits_) = 0..WORD * (q + 1) - 1
      BY ONLY <1>6, <3>1
    <3>3. PICK e \in Nat : e = WORD * q
      BY <1>8
    <3>4. Allocated(num_bits_) = 0..e + WORD - 1
      <4>1. WORD * (q + 1) = e + WORD
        BY <1>8, <3>3
      <4> QED BY ONLY <1>1, <3>2, <4>1
    <3> QED BY ONLY <1>1, <1>3, <1>9, <1>11, <3>3, <3>4
  <2> QED BY <2>1, <2>2
<1>13. baGetInvert \cap 0..num_bits_ - 1 = 0..num_bits_ - 1 \ buf_
  <2>1. num_bits_ <= WORD * q + BYTE * b
    BY <1>2, <1>7, <1>8, <1>9
  <2> QED BY ONLY <1>1, <1>3, <1>8, <1>9, <2>1
<1> QED BY <1>12, <1>13

(* The bits of memory that were read, and where.                           *)
LEMMA LoadIs ==
  ASSUME NEW buf, NEW at \in Nat, NEW size \in Nat
  PROVE  /\ Load(buf, at, size) = {y \in 0..size - 1 : at + y \in buf}
<1>1. ASSUME NEW y \in Load(buf, at, size)
      PROVE  y \in 0..size - 1 /\ at + y \in buf
  <2>1. PICK x \in buf \cap at..(at + size - 1) : y = x - at
    BY DEF Load
  <2>2. y \in 0..size - 1 /\ at + y = x
    BY <2>1
  <2> QED BY <2>1, <2>2
<1>2. ASSUME NEW y \in 0..size - 1, at + y \in buf
      PROVE  y \in Load(buf, at, size)
  <2>1. at + y \in buf \cap at..(at + size - 1) /\ y = (at + y) - at
    BY <1>2
  <2> QED BY <2>1 DEF Load
<1> QED BY <1>1, <1>2

(* The copy has no bits outside the memory allocated for it.               *)
LEMMA SubArrayAllocated ==
  ASSUME ArrayInv, NEW r \in NonEmpty
  PROVE  baGetSubArray(r) \subseteq Allocated(r.len)
<1>1. r \in AnyRange /\ r.len \in Nat \ {0} /\ r.begin \in Nat
  BY RangeFacts DEF NonEmpty, AnyRange
<1>2. CASE r.begin % BYTE = 0
  <2> DEFINE b == baBits2Bytes(r.len)
             at == BYTE * (r.begin \div BYTE)
  <2>1. baGetSubArray(r) = Load(buf_, at, BYTE * b)
    BY <1>2 DEF baGetSubArray
  <2>2. at \in Nat /\ BYTE * b \in Nat
    <3>1. /\ BYTE \in Nat \ {0} /\ r.begin \div BYTE \in Nat
          /\ b = Up(r.len, BYTE)
      BY <1>1, Widths, Quotient, WordsUp
    <3>2. b \in Nat
      BY ONLY <1>1, <3>1, UpFacts
    <3> QED BY <3>1, <3>2, Multiples
  <2>3. Load(buf_, at, BYTE * b) \subseteq 0..BYTE * b - 1
    BY <2>2, LoadIs
  <2> QED BY <1>1, <2>1, <2>3, AllocatedFacts
<1>3. CASE r.begin % BYTE # 0
  BY <1>3 DEF baGetSubArray
<1> QED BY <1>2, <1>3
-----------------------------------------------------------------------------
(* baCreate: zeros.                                                        *)
LEMMA CreateInv == Create => ArrayInv
  BY SizesAssumption DEF Create, ArrayInv

(* No call leaves bits outside the memory of the array it returns or       *)
(* changes.                                                                *)
LEMMA CallInv == ArrayInv /\ [Call]_array => ArrayInv'
<1> SUFFICES ASSUME ArrayInv, [Call]_array PROVE ArrayInv'
  OBVIOUS
<1>1. ASSUME NEW n \in Sizes, Resize(n) PROVE ArrayInv'
  <2>1. buf_' \subseteq Allocated(n) /\ num_bits_' = n
    BY <1>1 DEF Resize
  <2> QED BY <2>1, SizesAssumption DEF ArrayInv
<1>2. ASSUME NEW n \in 0..num_bits_, NEW val \in BOOLEAN, SetValue(n, val)
      PROVE  ArrayInv'
  <2>1. buf_' \subseteq Allocated(num_bits_) /\ num_bits_' = num_bits_
    BY <1>2 DEF SetValue, ArrayInv
  <2> QED BY <2>1 DEF ArrayInv
<1>3. ASSUME NEW r \in Ranges, Fill(r) PROVE ArrayInv'
  <2>1. buf_' \subseteq Allocated(num_bits_) /\ num_bits_' = num_bits_
    BY <1>3 DEF Fill, ArrayInv, baFillOne, baFillZero
  <2> QED BY <2>1 DEF ArrayInv
<1>4. ASSUME NEW r \in Ranges, Invert(r) PROVE ArrayInv'
  <2>1. buf_' \subseteq Allocated(num_bits_) /\ num_bits_' = num_bits_
    BY <1>4 DEF Invert, ArrayInv, baInvert
  <2> QED BY <2>1 DEF ArrayInv
<1>5. ASSUME NEW r \in Ranges, GetSubArray(r) PROVE ArrayInv'
  <2>1. buf_' \subseteq Allocated(r.len) /\ num_bits_' = r.len /\ r \in NonEmpty
    BY <1>5, SubArrayAllocated DEF GetSubArray, NonEmpty
  <2>2. r.len \in Nat \ {0}
    BY <2>1, RangeFacts DEF NonEmpty, AnyRange
  <2> QED BY <2>1, <2>2 DEF ArrayInv
<1>6. CASE FillFull
  <2>1. buf_' \subseteq Allocated(num_bits_) /\ num_bits_' = num_bits_
    BY <1>6 DEF FillFull
  <2> QED BY <2>1 DEF ArrayInv
<1>7. CASE GetInvert
  <2>1. buf_' \subseteq Allocated(num_bits_) /\ num_bits_' = num_bits_
    BY <1>7, InvertAllocated DEF GetInvert
  <2> QED BY <2>1 DEF ArrayInv
<1>8. CASE UNCHANGED array
  BY <1>8 DEF array, ArrayInv
<1> QED BY <1>1, <1>2, <1>3, <1>4, <1>5, <1>6, <1>7, <1>8 DEF Call

(* Every array a caller can have lies in the memory that was allocated.    *)
THEOREM ArrayInMemory == AnyCalls => []ArrayInv
  BY CreateInv, CallInv, PTL DEF AnyCalls
-----------------------------------------------------------------------------
(* Both fills change the bits that the masks cover, which are the range.   *)
LEMMA FillExact == ArrayInv => FillIsExact
<1> SUFFICES ASSUME ArrayInv, NEW r \in NonEmpty
             PROVE  /\ baFillOne(r) = buf_ \cup Bits(r)
                    /\ baFillZero(r) = buf_ \ Bits(r)
  BY DEF FillIsExact
<1>1. Cover(r) = Bits(r) /\ Bits(r) \subseteq Allocated(num_bits_)
  BY RangeFacts, CoverIsBits DEF NonEmpty
<1> QED BY <1>1 DEF baFillOne, baFillZero, ArrayInv

(* The flipped bits are the range, and baGetInvert flips the whole array.  *)
LEMMA InvertExact == ArrayInv => InvertFlips
<1> SUFFICES ASSUME ArrayInv PROVE InvertFlips
  OBVIOUS
<1>1. ASSUME NEW r \in NonEmpty
      PROVE  /\ baInvert(r) \cap Bits(r) = Bits(r) \ buf_
             /\ baInvert(r) \ (Bits(r) \cup EdgeWords(r))
                  = buf_ \ (Bits(r) \cup EdgeWords(r))
  <2>1. Cover(r) = Bits(r) /\ Bits(r) \subseteq Allocated(num_bits_)
    BY RangeFacts, CoverIsBits DEF NonEmpty
  <2> QED BY <2>1 DEF baInvert, ArrayInv
<1>2. baInvert([begin |-> 0, len |-> num_bits_]) \cap 0..(num_bits_ - 1)
        = baGetInvert \cap 0..(num_bits_ - 1)
  <2> DEFINE r == [begin |-> 0, len |-> num_bits_]
  <2>1. r \in NonEmpty /\ Bits(r) = 0..(num_bits_ - 1)
    BY DEF NonEmpty, Ranges, ArrayInv, Bits
  <2> HIDE DEF r
  <2>2. baInvert(r) \cap 0..(num_bits_ - 1) = 0..(num_bits_ - 1) \ buf_
    BY <1>1, <2>1
  <2> QED BY <2>2, InvertAllocated DEF r
<1> QED BY <1>1, <1>2 DEF InvertFlips

(* A set of numbers that is not empty has a least member, and Min is it.   *)
LEMMA MinIs ==
  ASSUME NEW T \in SUBSET Nat, T # {}
  PROVE  /\ Min(T) \in T /\ \A y \in T : Min(T) <= y
         /\ \A x \in T : (\A y \in T : x <= y) => Min(T) = x
<1> DEFINE R == OpToRel(<, Nat)
<1>1. IsWellFoundedOn(R, Nat)
  BY NatLessThanWellFounded
<1>2. \A x, y \in Nat : <<y, x>> \in R <=> y < x
  BY DEF OpToRel
<1> HIDE DEF R
<1>3. PICK x \in T : \A y \in T : ~ (<<y, x>> \in R)
  BY <1>1, WFMin
<1>4. \A y \in T : x <= y
  <2> SUFFICES ASSUME NEW y \in T PROVE x <= y
    OBVIOUS
  <2>1. ~(y < x)
    BY <1>2, <1>3
  <2> QED BY <2>1
<1>5. Min(T) \in T /\ \A y \in T : Min(T) <= y
  BY <1>4 DEF Min
<1>6. ASSUME NEW z \in T, \A y \in T : z <= y PROVE Min(T) = z
  <2>1. z <= Min(T) /\ Min(T) <= z
    BY <1>5, <1>6
  <2>2. z \in Nat /\ Min(T) \in Nat
    BY <1>5
  <2> QED BY ONLY <2>1, <2>2
<1>7. \A z \in T : (\A y \in T : z <= y) => Min(T) = z
  BY ONLY <1>6
<1> QED BY ONLY <1>5, <1>7

(* The place x has the bit that is looked for.                             *)
Has(x, val) == (x \in buf_) = val
Found(S, val) == {x \in S : Has(x, val)}

(* What a search of S is to return.                                        *)
FirstIn(S, val, place) ==
  IF Found(S, val) # {} THEN place = Min(Found(S, val)) ELSE place \notin S

(* The bits of a word that have the value, by where they are in memory.    *)
LEMMA WantedIs ==
  ASSUME NEW at \in Nat, NEW val \in BOOLEAN
  PROVE  Wanted(Load(buf_, at, WORD), val) = {y \in Word : Has(at + y, val)}
<1>1. Load(buf_, at, WORD) = {y \in Word : at + y \in buf_}
  BY Widths, LoadIs
<1>2. CASE val = TRUE
  BY <1>1, <1>2 DEF Wanted, Has
<1>3. CASE val = FALSE
  BY <1>1, <1>3 DEF Wanted, Has
<1> QED BY <1>2, <1>3

(* The search by words finds the first place, if there is one.             *)
LEMMA FirstInWords ==
  ASSUME NEW pos \in Nat, NEW len \in Nat, NEW val \in BOOLEAN
  PROVE  /\ FirstIn(pos..pos + len - 1, val, FindInWords(pos, len, val))
         /\ \/ FindInWords(pos, len, val) = -1
            \/ FindInWords(pos, len, val) >= pos
<1> DEFINE word(j) == Wanted(Load(buf_, pos + WORD * j, WORD), val)
           n == baGetSizeArrayIn8Byte(len)
           hits == {j \in 0..(n - 1) : word(j) # {}}
           i == Min(hits)
           add_pos == Ffs(word(i))
           f == FindInWords(pos, len, val)
           S == pos..pos + len - 1
<1>1. f = IF hits # {} /\ add_pos < len THEN WORD * i + pos + add_pos ELSE -1
  BY DEF FindInWords
<1>2. WORD \in Nat \ {0} /\ Word = 0..WORD - 1 /\ n = Up(len, WORD)
  BY Widths, WordsUp
<1>3. n \in Nat /\ len <= WORD * n
  BY ONLY <1>2, UpFacts
<1>4. ASSUME NEW j \in Nat
      PROVE  /\ WORD * j \in Nat
             /\ word(j) = {y \in Word : Has(pos + WORD * j + y, val)}
  <2>1. WORD * j \in Nat
    BY <1>2, Multiples
  <2>2. pos + WORD * j \in Nat
    BY <2>1
  <2> QED BY <2>1, <2>2, WantedIs
<1> HIDE DEF word, n, f
<1>5. ASSUME NEW x \in Found(S, val)
      PROVE  \E j \in hits, y \in Word : y \in word(j) /\ x = pos + WORD * j + y
  <2> DEFINE j == (x - pos) \div WORD
             y == (x - pos) % WORD
  <2>1. x \in S /\ Has(x, val) /\ x - pos \in Nat /\ x - pos < len /\ x \in Nat
    BY DEF Found
  <2>2. j \in Nat /\ y \in Word /\ x - pos = WORD * j + y
    BY ONLY <1>2, <2>1, Quotient
  <2> HIDE DEF j, y
  <2>3. WORD * j \in Nat /\ x = pos + WORD * j + y
    BY <1>2, <1>4, <2>1, <2>2
  <2>4. y \in word(j)
    BY <1>4, <2>1, <2>2, <2>3
  <2>5. j < n
    <3>1. n <= j => WORD * n <= WORD * j
      BY <1>2, <1>3, <2>2, Multiples
    <3>2. WORD * n \in Nat
      BY <1>2, <1>3, Multiples
    <3> QED BY <1>2, <1>3, <2>1, <2>2, <2>3, <3>1, <3>2
  <2>6. j \in hits
    BY <1>3, <2>2, <2>4, <2>5
  <2> QED BY <2>2, <2>3, <2>4, <2>6
<1>6. ASSUME hits # {}
      PROVE  /\ i \in Nat /\ WORD * i \in Nat /\ i \in hits
             /\ \A j \in hits : i <= j
             /\ add_pos \in 0..WORD - 1
             /\ \A y \in word(i) : add_pos <= y
             /\ Has(pos + WORD * i + add_pos, val)
  <2>1. hits \in SUBSET Nat
    BY <1>3
  <2>2. i \in hits /\ \A j \in hits : i <= j
    BY <1>6, <2>1, MinIs
  <2>3. i \in Nat /\ word(i) # {}
    BY <2>1, <2>2
  <2> HIDE DEF hits, i
  <2>4. word(i) \in SUBSET Nat /\ word(i) \subseteq Word
    BY <1>2, <1>4, <2>3
  <2>5. add_pos = Min(word(i))
    BY <2>3 DEF Ffs
  <2>6. add_pos \in word(i) /\ \A y \in word(i) : add_pos <= y
    BY <2>3, <2>4, <2>5, MinIs
  <2> HIDE DEF add_pos
  <2> QED BY <1>2, <1>4, <2>2, <2>3, <2>4, <2>6
<1>7. ASSUME hits # {}
      PROVE  /\ WORD * i + pos + add_pos = pos + WORD * i + add_pos
             /\ WORD * i + pos + add_pos \in Nat
             /\ WORD * i + pos + add_pos >= pos
  <2> HIDE DEF hits, i, add_pos
  <2> QED BY <1>6, <1>7
<1>8. f = -1 \/ f >= pos
  <2> HIDE DEF hits, i, add_pos
  <2> QED BY <1>1, <1>7
<1>9. CASE Found(S, val) = {}
  <2>1. ASSUME f \in S PROVE FALSE
    <3> HIDE DEF hits, i, add_pos
    <3>1. hits # {} /\ f = WORD * i + pos + add_pos
      BY <1>1, <2>1
    <3>2. Has(f, val)
      BY <1>6, <1>7, <3>1
    <3> QED BY <1>9, <2>1, <3>2 DEF Found
  <2> QED BY <1>8, <1>9, <2>1 DEF FirstIn, f
<1>10. CASE Found(S, val) # {}
  <2> DEFINE x == Min(Found(S, val))
  <2>1. Found(S, val) \in SUBSET Nat
    BY DEF Found
  <2>2. x \in Found(S, val) /\ \A z \in Found(S, val) : x <= z
    BY <1>10, <2>1, MinIs
  <2> HIDE DEF x
  <2>3. x \in Nat /\ pos <= x /\ x < pos + len
    BY <2>2 DEF Found
  <2>4. PICK j \in hits, y \in Word : y \in word(j) /\ x = pos + WORD * j + y
    BY <1>5, <2>2
  <2>5. j \in Nat /\ hits # {}
    BY <1>3, <2>4
  <2> HIDE DEF hits, i, add_pos
  <2>6. WORD * i + add_pos <= WORD * j + y
    <3>1. CASE i = j
      BY <1>2, <1>4, <1>6, <2>4, <2>5, <3>1
    <3>2. CASE i # j
      <4>1. i < j
        BY <1>6, <2>4, <2>5, <3>2
      <4>2. WORD * i + WORD <= WORD * j
        BY <1>2, <1>6, <2>5, <4>1, Multiples
      <4>3. \A p, q, u, v \in Nat :
              p + WORD <= q /\ u <= WORD - 1 => p + u <= q + v
        BY <1>2
      <4>4. /\ WORD * i \in Nat /\ WORD * j \in Nat /\ add_pos \in Nat
            /\ y \in Nat /\ add_pos <= WORD - 1
        BY <1>2, <1>4, <1>6, <2>4, <2>5
      <4> QED BY ONLY <4>2, <4>3, <4>4
    <3> QED BY <3>1, <3>2
  <2>7. /\ WORD * j \in Nat /\ y \in Nat /\ WORD * i \in Nat /\ add_pos \in Nat
    BY <1>2, <1>4, <1>6, <2>4, <2>5
  <2>8. add_pos < len /\ WORD * i + pos + add_pos <= x
    BY <2>3, <2>4, <2>6, <2>7
  <2>9. f = WORD * i + pos + add_pos
    BY <1>1, <2>5, <2>8
  <2>10. f \in S /\ f \in Nat /\ Has(f, val)
    BY <1>6, <1>7, <2>3, <2>5, <2>8, <2>9
  <2>11. f = x
    BY <2>2, <2>3, <2>8, <2>9, <2>10 DEF Found
  <2> HIDE DEF S
  <2>12. FirstIn(S, val, f)
    BY <1>10, <2>11 DEF FirstIn, x
  <2> QED BY <1>8, <2>12 DEF f, S
<1> QED BY <1>8, <1>9, <1>10 DEF f

(* The word the range begins in, from its first place on: the complement   *)
(* of the arithmetic shift may have places past the word, but then it has  *)
(* one in the word.                                                        *)
Shifted(r, val) ==
  LET first_qword == Load(buf_, FirstWord(r), WORD)
      rshift == r.begin % WORD
  IN IF val THEN Shr(first_qword, rshift) ELSE Word \ Sar(first_qword, rshift)

(* Its places in the word are those of the range that the word has.        *)
LEMMA ShiftedIs ==
  ASSUME NEW r \in AnyRange, NEW val \in BOOLEAN, r.begin % WORD # 0
  PROVE  LET rest == WORD - (r.begin % WORD) IN
         /\ Shifted(r, val) \in SUBSET Nat
         /\ \A y \in 0..rest - 1 : y \in Shifted(r, val) <=> Has(r.begin + y, val)
         /\ Shifted(r, val) # {} => \E y \in Shifted(r, val) : y \in 0..rest - 1
<1> DEFINE h == r.begin % WORD
           at == FirstWord(r)
           q == Load(buf_, at, WORD)
           rest == WORD - h
<1>1. /\ WORD \in Nat \ {0} /\ Word = 0..WORD - 1 /\ r.begin \in Nat
  BY Widths DEF AnyRange
<1>2. /\ h \in 0..WORD - 1 /\ r.begin \div WORD \in Nat
      /\ r.begin = WORD * (r.begin \div WORD) + h
  BY ONLY <1>1, Quotient
<1> h # 0
  OBVIOUS
<1> HIDE DEF h
<1>3. at \in Nat /\ r.begin = at + h
  BY <1>1, <1>2, Multiples DEF FirstWord
<1> HIDE DEF at
<1>4. q = {y \in Word : at + y \in buf_}
  BY <1>1, <1>3, LoadIs
<1> HIDE DEF q
<1>5. rest \in 1..WORD - 1 /\ h \in 1..WORD - 1
  BY <1>1, <1>2
<1>6. Shr(q, h) = {y \in 0..rest - 1 : r.begin + y \in buf_}
  <2>1. ASSUME NEW y \in Shr(q, h) PROVE y \in 0..rest - 1 /\ r.begin + y \in buf_
    <3>1. PICK x \in Word : at + x \in buf_ /\ x >= h /\ y = x - h
      BY <1>4, <2>1 DEF Shr
    <3>2. y \in 0..rest - 1 /\ r.begin + y = at + x
      BY <1>1, <1>3, <1>5, <3>1
    <3> QED BY <3>1, <3>2
  <2>2. ASSUME NEW y \in 0..rest - 1, r.begin + y \in buf_ PROVE y \in Shr(q, h)
    <3>1. y + h \in Word /\ at + (y + h) = r.begin + y /\ y + h >= h /\ y = (y + h) - h
      BY <1>1, <1>3, <1>5
    <3>2. y + h \in q
      BY <1>4, <2>2, <3>1
    <3> QED BY <3>1, <3>2 DEF Shr
  <2> QED BY <2>1, <2>2
<1>7. CASE val = TRUE
  <2>1. Shifted(r, val) = Shr(q, h)
    BY <1>7 DEF Shifted, q, h, at
  <2>2. \A x : Has(x, val) <=> x \in buf_
    BY <1>7 DEF Has
  <2>3. Shifted(r, val) \subseteq 0..rest - 1 /\ 0..rest - 1 \subseteq Nat
    BY <1>6, <2>1
  <2> QED BY <1>6, <2>1, <2>2, <2>3 DEF h
<1>8. CASE val = FALSE
  <2> DEFINE T == IF WORD - 1 \in q THEN rest..(WORD - 1) ELSE {}
  <2>1. Shifted(r, val) = Word \ (Shr(q, h) \cup T)
    BY <1>8 DEF Shifted, Sar, q, h, at
  <2>2. \A y \in 0..rest - 1 : y \in Word /\ y \notin T
    BY <1>1, <1>5
  <2>3. \A y \in 0..rest - 1 : y \in Shifted(r, val) <=> r.begin + y \notin buf_
    BY <1>6, <2>1, <2>2
  <2>4. ASSUME NEW y \in Shifted(r, val), y \notin 0..rest - 1
        PROVE  rest - 1 \in Shifted(r, val)
    <3>1. y \in rest..WORD - 1 /\ y \notin T
      BY <1>1, <1>5, <2>1, <2>4
    <3>2. WORD - 1 \notin q
      BY <3>1
    <3>3. at + (WORD - 1) \notin buf_ /\ WORD - 1 \in Word
      BY <1>1, <1>4, <3>2
    <3>4. r.begin + (rest - 1) = at + (WORD - 1) /\ rest - 1 \in 0..rest - 1
      BY <1>1, <1>3, <1>5
    <3> QED BY <2>3, <3>3, <3>4
  <2>5. rest - 1 \in 0..rest - 1
    BY <1>5
  <2>6. Shifted(r, val) # {} => \E y \in Shifted(r, val) : y \in 0..rest - 1
    BY <2>4, <2>5
  <2>7. Shifted(r, val) \in SUBSET Nat
    BY <1>1, <2>1
  <2>8. \A x : Has(x, val) <=> x \notin buf_
    BY <1>8 DEF Has
  <2> HIDE DEF T
  <2> QED BY <2>3, <2>6, <2>7, <2>8 DEF h
<1> QED BY <1>7, <1>8

(* So its least place is the first in the rest of the word.                *)
LEMMA FirstInRest ==
  ASSUME NEW r \in AnyRange, NEW val \in BOOLEAN, r.begin % WORD # 0
  PROVE  LET rest == WORD - (r.begin % WORD)
             pos == Ffs(Shifted(r, val))
         IN  /\ rest \in Nat
             /\ pos = -1 => \A y \in 0..rest - 1 : ~Has(r.begin + y, val)
             /\ pos # -1 => /\ pos \in 0..rest - 1 /\ Has(r.begin + pos, val)
                            /\ \A y \in 0..rest - 1 :
                                 Has(r.begin + y, val) => pos <= y
<1> DEFINE rest == WORD - (r.begin % WORD)
           T == Shifted(r, val)
           pos == Ffs(T)
<1>1. /\ T \in SUBSET Nat
      /\ \A y \in 0..rest - 1 : y \in T <=> Has(r.begin + y, val)
      /\ T # {} => \E y \in T : y \in 0..rest - 1
  BY ShiftedIs
<1>2. rest \in Nat
  <2>1. WORD \in Nat \ {0} /\ r.begin \in Nat
    BY Widths DEF AnyRange
  <2>2. r.begin % WORD \in 0..WORD - 1
    BY ONLY <2>1, Quotient
  <2> QED BY <2>1, <2>2
<1> HIDE DEF T, rest
<1>3. CASE T = {}
  BY <1>1, <1>2, <1>3 DEF Ffs, T, rest
<1>4. CASE T # {}
  <2>1. pos = Min(T)
    BY <1>4 DEF Ffs
  <2>2. pos \in T /\ \A y \in T : pos <= y
    BY <1>1, <1>4, <2>1, MinIs
  <2> HIDE DEF pos
  <2>3. PICK y \in T : y \in 0..rest - 1
    BY <1>1, <1>4
  <2>4. pos \in Nat /\ pos <= y
    BY <1>1, <2>2
  <2>5. pos \in 0..rest - 1
    BY <1>2, <2>3, <2>4
  <2> QED BY <1>1, <1>2, <2>2, <2>5 DEF pos, T, rest
<1> QED BY <1>3, <1>4

(* baFindVal returns the first place of the range, or one outside it.      *)
LEMMA FindVal ==
  ASSUME NEW r \in AnyRange, NEW val \in BOOLEAN
  PROVE  FirstIn(Bits(r), val, baFindVal(r, val))
<1> DEFINE h == r.begin % WORD
           rest == WORD - h
           pos == Ffs(Shifted(r, val))
           f == baFindVal(r, val)
           S == Bits(r)
<1>1. WORD \in Nat \ {0} /\ r.begin \in Nat /\ r.len \in Nat
  BY Widths DEF AnyRange
<1>2. h \in 0..WORD - 1
  BY ONLY <1>1, Quotient
<1>3. S = r.begin..r.begin + r.len - 1
  BY DEF Bits
<1>4. CASE h = 0
  <2>1. f = FindInWords(r.begin, r.len, val)
    BY <1>4 DEF baFindVal
  <2> QED BY <1>1, <1>3, <2>1, FirstInWords
<1>5. CASE h # 0
  <2>1. f = IF InOneWord(r)
              THEN IF pos # -1 /\ pos < r.len THEN r.begin + pos ELSE -1
            ELSE IF pos # -1 THEN r.begin + pos
            ELSE FindInWords(r.begin + rest, r.len - rest, val)
    BY <1>5 DEF baFindVal, Shifted
  <2>2. /\ pos = -1 => \A y \in 0..rest - 1 : ~Has(r.begin + y, val)
        /\ pos # -1 => /\ pos \in 0..rest - 1 /\ Has(r.begin + pos, val)
                       /\ \A y \in 0..rest - 1 : Has(r.begin + y, val) => pos <= y
    BY <1>5, FirstInRest
  <2>3. InOneWord(r) <=> r.len <= rest
    BY <1>1, <1>2 DEF InOneWord
  <2>4. rest \in Nat
    BY <1>1, <1>2
  <2> HIDE DEF h, rest, pos, f, S
  <2>5. \A x \in Found(S, val) : /\ Has(x, val) /\ x \in S /\ x - r.begin \in Nat
                                 /\ x - r.begin < r.len
                                 /\ r.begin + (x - r.begin) = x
    BY <1>1, <1>3 DEF Found
  <2>6. Found(S, val) \in SUBSET Nat
    BY <1>1, <1>3 DEF Found
  <2>7. ASSUME pos # -1, pos < r.len PROVE FirstIn(S, val, r.begin + pos)
    <3>1. r.begin + pos \in Found(S, val)
      BY <1>1, <1>3, <2>2, <2>4, <2>7 DEF Found
    <3>2. ASSUME NEW x \in Found(S, val) PROVE r.begin + pos <= x
      <4>1. CASE x - r.begin \in 0..rest - 1
        <5>1. pos <= x - r.begin
          BY <2>2, <2>5, <2>7, <4>1
        <5> QED BY <1>1, <2>2, <2>5, <2>7, <5>1, <2>6
      <4>2. CASE ~(x - r.begin \in 0..rest - 1)
        BY <1>1, <2>2, <2>4, <2>5, <2>6, <2>7, <4>2
      <4> QED BY <4>1, <4>2
    <3>3. Min(Found(S, val)) = r.begin + pos
      BY <2>6, <3>1, <3>2, MinIs
    <3> QED BY <3>1, <3>3 DEF FirstIn
  <2>8. CASE InOneWord(r)
    <3>1. CASE pos # -1 /\ pos < r.len
      BY <2>1, <2>7, <2>8, <3>1 DEF f, S
    <3>2. CASE ~(pos # -1 /\ pos < r.len)
      <4>1. f = -1
        BY <2>1, <2>8, <3>2
      <4>2. f \notin S
        BY <1>1, <1>3, <4>1
      <4>3. ASSUME NEW x \in Found(S, val) PROVE FALSE
        <5>1. x - r.begin \in 0..rest - 1 /\ Has(r.begin + (x - r.begin), val)
          BY <1>1, <2>3, <2>4, <2>5, <2>8
        <5>2. pos # -1 /\ pos \in Nat /\ pos <= x - r.begin
          BY <2>2, <2>4, <5>1
        <5> QED BY <1>1, <2>5, <3>2, <5>2
      <4> QED BY <4>2, <4>3 DEF FirstIn, f, S
    <3> QED BY <3>1, <3>2
  <2>9. CASE ~InOneWord(r)
    <3>1. CASE pos # -1
      <4>1. pos < r.len
        BY <1>1, <2>2, <2>3, <2>4, <2>9, <3>1
      <4> QED BY <2>1, <2>7, <2>9, <3>1, <4>1 DEF f, S
    <3>2. CASE pos = -1
      <4> DEFINE S2 == (r.begin + rest)..(r.begin + rest) + (r.len - rest) - 1
      <4>1. f = FindInWords(r.begin + rest, r.len - rest, val)
        BY <2>1, <2>9, <3>2
      <4>2. r.begin + rest \in Nat /\ r.len - rest \in Nat
        BY <1>1, <2>3, <2>4, <2>9
      <4>3. FirstIn(S2, val, f) /\ (f = -1 \/ f >= r.begin + rest)
        BY <4>1, <4>2, FirstInWords
      <4>4. Found(S, val) = Found(S2, val)
        <5>1. ASSUME NEW x \in Found(S, val) PROVE x \in S2
          <6>1. ~(x - r.begin \in 0..rest - 1)
            BY <2>2, <2>5, <3>2
          <6> QED BY <1>1, <2>4, <2>5, <2>6, <6>1
        <5>2. S2 \subseteq S
          <6>1. (r.begin + rest) + (r.len - rest) - 1 = r.begin + r.len - 1
            BY <1>1, <2>4, <4>2
          <6>2. S2 = (r.begin + rest)..(r.begin + r.len - 1)
            BY <6>1
          <6> QED BY <1>1, <1>3, <2>4, <6>2
        <5> QED BY <5>1, <5>2 DEF Found
      <4>5. f \in S => f \in S2
        BY <1>1, <1>3, <2>4, <4>2, <4>3
      <4> HIDE DEF S2
      <4> QED BY <4>3, <4>4, <4>5 DEF FirstIn, f, S
    <3> QED BY <3>1, <3>2
  <2> QED BY <2>8, <2>9
<1> QED BY <1>4, <1>5

(* Which is what FindIsFirst says.                                         *)
LEMMA FindFirst == ArrayInv => FindIsFirst
<1> SUFFICES ASSUME ArrayInv, NEW r \in Ranges, NEW val \in BOOLEAN
             PROVE  LET found == {x \in Bits(r) : (x \in buf_) = val} IN
                    IF found # {} THEN baFindVal(r, val) = Min(found)
                                  ELSE baFindVal(r, val) \notin Bits(r)
  BY DEF FindIsFirst
<1>1. FirstIn(Bits(r), val, baFindVal(r, val))
  BY RangeFacts, FindVal
<1> QED BY <1>1 DEF FirstIn, Found, Has

(* The first m bits are those of the range.                                *)
Copied(sub, r, m) == \A y \in 0..m - 1 : y \in sub <=> r.begin + y \in buf_

(* A turn copies what its load has left after the shift, and keeps what    *)
(* lies before.                                                            *)
LEMMA MoveCopies ==
  ASSUME NEW r \in AnyRange, NEW sub, NEW s \in [at : Nat, from : Nat, to : Nat],
         Copied(sub, r, BYTE * s.at), NEW m \in Nat,
         m <= BYTE * s.at + BYTE * s.to,
         m <= BYTE * s.at + (BYTE * s.from - (r.begin % BYTE))
  PROVE  Copied(Move(r, sub, s), r, m)
<1> DEFINE h == r.begin % BYTE
           a == BYTE * s.at
           t == BYTE * s.to
           f == BYTE * s.from
           b == BYTE * (r.begin \div BYTE)
           q == Load(buf_, b + a, f)
           v == Shr(q, h)
<1>1. BYTE \in Nat \ {0} /\ r.begin \in Nat /\ s.at \in Nat /\ s.to \in Nat /\ s.from \in Nat
  BY Widths DEF AnyRange
<1>2. a \in Nat /\ t \in Nat /\ f \in Nat
  BY <1>1, Multiples
<1>3. h \in 0..BYTE - 1 /\ r.begin \div BYTE \in Nat /\ r.begin = b + h
  BY ONLY <1>1, Quotient
<1>4. b \in Nat /\ h \in Nat
  BY <1>1, <1>3, Multiples
<1>5. m <= a + t /\ m <= a + (f - h) /\ Copied(sub, r, a)
  OBVIOUS
<1>6. Move(r, sub, s) = (sub \ a..(a + t - 1)) \cup {x + a : x \in v \cap 0..(t - 1)}
  BY DEF Move, Store
<1> HIDE DEF h, a, t, f, b
<1>7. q = {y \in 0..f - 1 : (b + a) + y \in buf_}
  <2>1. b + a \in Nat
    BY <1>2, <1>4
  <2> QED BY <1>2, <2>1, LoadIs
<1> HIDE DEF q
<1>8. \A x \in Nat : x \in v <=> x + h \in q
  <2> SUFFICES ASSUME NEW x \in Nat PROVE x \in v <=> x + h \in q
    OBVIOUS
  <2>1. ASSUME x \in v PROVE x + h \in q
    <3>1. PICK z \in q : z >= h /\ x = z - h
      BY <2>1 DEF Shr
    <3>2. x + h = z
      BY <1>4, <1>7, <3>1
    <3> QED BY <3>1, <3>2
  <2>2. ASSUME x + h \in q PROVE x \in v
    <3>1. x + h >= h /\ x = (x + h) - h
      BY <1>4
    <3> QED BY <2>2, <3>1 DEF Shr
  <2> QED BY <2>1, <2>2
<1> HIDE DEF v
<1> SUFFICES ASSUME NEW y \in 0..m - 1
             PROVE  y \in Move(r, sub, s) <=> r.begin + y \in buf_
  BY DEF Copied
<1>9. CASE y < a
  <2>1. y \in 0..a - 1
    BY <1>2, <1>9
  <2>2. y \notin a..(a + t - 1)
    BY <1>2, <1>9
  <2>3. \A x \in 0..(t - 1) : y # x + a
    BY <1>2, <1>9
  <2> QED BY <1>5, <1>6, <2>1, <2>2, <2>3 DEF Copied
<1>10. CASE ~(y < a)
  <2> DEFINE x == y - a
  <2>1. x \in 0..(t - 1) /\ x + a = y /\ y \in a..(a + t - 1) /\ x \in Nat
    BY <1>2, <1>5, <1>10
  <2>2. \A z \in 0..(t - 1) : z + a = y => z = x
    BY <1>2
  <2> HIDE DEF x
  <2>3. y \in Move(r, sub, s) <=> x \in v
    BY <1>6, <2>1, <2>2
  <2>4. x + h \in 0..f - 1
    BY <1>2, <1>4, <1>5, <2>1
  <2>5. (b + a) + (x + h) = r.begin + y
    BY <1>2, <1>3, <1>4, <2>1
  <2> QED BY <1>7, <1>8, <2>1, <2>3, <2>4, <2>5
<1> QED BY <1>9, <1>10

(* A number of turns, none if the number is negative.                      *)
MaxOf(n) == IF n > 0 THEN n ELSE 0

(* Max of a number and 0.                                                  *)
LEMMA MaxIs == ASSUME NEW n \in Int PROVE Max({n, 0}) = MaxOf(n)
<1>1. /\ MaxOf(n) \in {n, 0} /\ \A y \in {n, 0} : MaxOf(n) >= y
  BY DEF MaxOf
<1>2. \A z \in {n, 0} : (\A y \in {n, 0} : z >= y) => z = MaxOf(n)
  BY DEF MaxOf
<1> QED BY <1>1, <1>2 DEF Max

(* Each store begins where the one before has copied to, and the last one  *)
(* reaches the end.                                                        *)
Chain(r, S) ==
  /\ Len(S) \in Nat \ {0}
  /\ \A n \in 1..Len(S) : S[n] \in [at : Nat, from : Nat, to : Nat]
  /\ S[1].at = 0
  /\ \A n \in 1..Len(S) - 1 :
       /\ S[n + 1].at <= S[n].at + (S[n].from - 1)
       /\ S[n].to = S[n].from
  /\ LET s == S[Len(S)] IN
     /\ r.len <= BYTE * s.at + BYTE * s.to
     /\ r.len <= BYTE * s.at + (BYTE * s.from - (r.begin % BYTE))

(* The stores of one loop after another.                                   *)
Rec == [at : Nat, from : Nat, to : Nat]

Looped(S, p, q, x) ==
  /\ Len(S) = Len(p) + Len(q) + 1
  /\ \A n \in 1..Len(p) : S[n] = p[n]
  /\ \A n \in 1..Len(q) : S[Len(p) + n] = q[n]
  /\ S[Len(p) + Len(q) + 1] = x

(* Three loops, of which the last has one turn.                            *)
LEMMA ThreeLoops ==
  ASSUME NEW R, NEW p \in Seq(R), NEW q \in Seq(R), NEW x \in R
  PROVE  Looped(p \o q \o <<x>>, p, q, x)
<1> DEFINE u == Len(p)
           v == Len(q)
           S == p \o q \o <<x>>
<1>1. p \in Seq(R) /\ q \in Seq(R) /\ u \in Nat /\ v \in Nat /\ Len(p) = u /\ Len(q) = v
  OBVIOUS
<1> HIDE DEF u, v
<1>2. /\ p \o q \in Seq(R) /\ Len(p \o q) = u + v
      /\ \A n \in 1..u : (p \o q)[n] = p[n]
      /\ \A n \in 1..v : (p \o q)[u + n] = q[n]
  <2>1. /\ p \o q \in Seq(R) /\ Len(p \o q) = Len(p) + Len(q)
        /\ \A n \in 1..Len(p) + Len(q) :
             (p \o q)[n] = IF n <= Len(p) THEN p[n] ELSE q[n - Len(p)]
    BY ONLY <1>1, ConcatProperties
  <2>2. \A n \in 1..v : /\ u + n \in 1..u + v /\ ~(u + n <= u)
                        /\ (u + n) - u = n
    BY <1>1
  <2>3. \A n \in 1..u : n \in 1..u + v /\ n <= u
    BY <1>1
  <2> QED BY ONLY <1>1, <2>1, <2>2, <2>3
<1> DEFINE pq == p \o q
           one == <<x>>
<1>3. /\ S = pq \o one /\ pq \in Seq(R) /\ Len(pq) = u + v
      /\ one \in Seq(R) /\ Len(one) = 1 /\ one[1] = x
  BY <1>2
<1> HIDE DEF pq, one, S
<1>4. Len(S) = u + v + 1 /\ S[u + v + 1] = x /\ \A n \in 1..u + v : S[n] = pq[n]
  <2>1. /\ Len(S) = Len(pq) + Len(one)
        /\ \A n \in 1..Len(pq) + Len(one) :
             S[n] = IF n <= Len(pq) THEN pq[n] ELSE one[n - Len(pq)]
    BY ONLY <1>3, ConcatProperties
  <2>2. /\ u + v + 1 \in 1..u + v + 1 /\ ~(u + v + 1 <= u + v)
        /\ (u + v + 1) - (u + v) = 1
        /\ \A n \in 1..u + v : n \in 1..u + v + 1 /\ n <= u + v
    BY <1>1
  <2> QED BY ONLY <1>3, <2>1, <2>2
<1>5. \A n \in 1..v : u + n \in 1..u + v
  BY <1>1
<1>6. \A n \in 1..u : n \in 1..u + v
  BY <1>1
<1>7. /\ \A n \in 1..u : S[n] = p[n]
      /\ \A n \in 1..v : S[u + n] = q[n]
  BY <1>2, <1>4, <1>5, <1>6 DEF pq
<1> QED BY <1>4, <1>7 DEF S, u, v, Looped

(* How many bytes the range is in, and how many it needs.                  *)
LEMMA BytesOf ==
  ASSUME NEW r \in AnyRange, r.len > 0
  PROVE  LET h == r.begin % BYTE
             bl == baBits2Bytes(r.len)
         IN  /\ h \in Nat /\ h < BYTE
             /\ bl \in Nat \ {0} /\ over_bytes(r) \in {bl, bl + 1}
             /\ r.len <= BYTE * bl /\ r.len + h <= BYTE * over_bytes(r)
<1> DEFINE h == r.begin % BYTE
           bl == baBits2Bytes(r.len)
           ov == over_bytes(r)
<1>1. /\ BYTE \in Nat \ {0} /\ r.begin \in Nat /\ r.len \in Nat \ {0}
  BY Widths DEF AnyRange
<1>2. h \in 0..BYTE - 1
  BY ONLY <1>1, Quotient
<1> HIDE DEF h
<1>3. r.len + h \in Nat /\ r.len + h > 0 /\ r.len \in Nat /\ r.len > 0 /\ h \in Nat
  BY <1>1, <1>2
<1>4. bl = Up(r.len, BYTE) /\ ov = Up(r.len + h, BYTE)
  BY <1>3, WordsUp DEF over_bytes, h
<1>5. /\ bl \in Nat /\ bl >= 1 /\ r.len <= BYTE * bl
      /\ \A m \in Nat : r.len <= BYTE * m => bl <= m
  BY ONLY <1>1, <1>3, <1>4, UpFacts
<1>6. /\ ov \in Nat /\ r.len + h <= BYTE * ov
      /\ \A m \in Nat : r.len + h <= BYTE * m => ov <= m
  BY ONLY <1>1, <1>3, <1>4, UpFacts
<1> HIDE DEF bl, ov
<1>7. bl <= ov
  <2>1. BYTE * ov \in Nat
    BY <1>1, <1>6, Multiples
  <2>2. r.len <= BYTE * ov
    BY <1>3, <1>6, <2>1
  <2> QED BY <1>5, <1>6, <2>2
<1>8. ov <= bl + 1
  <2>1. BYTE * bl \in Nat /\ BYTE * (bl + 1) = BYTE * bl + BYTE
    BY <1>1, <1>5, Multiples
  <2>2. r.len + h <= BYTE * (bl + 1)
    BY <1>1, <1>2, <1>3, <1>5, <2>1
  <2> QED BY <1>5, <1>6, <2>2
<1>9. ov \in {bl, bl + 1}
  BY <1>5, <1>6, <1>7, <1>8
<1> QED BY <1>1, <1>2, <1>5, <1>6, <1>9 DEF h, bl, ov

(* The last turn copies the end of the range.                              *)
LEMMA LastReaches ==
  ASSUME NEW r \in AnyRange, r.len > 0, NEW next \in Nat,
         next <= over_bytes(r) - 1,
         NEW d, d = IF SizesDiffer(r) THEN 2 ELSE 1,
         NEW z, z = next + MaxOf(over_bytes(r) - next - d)
  PROVE  /\ d \in {1, 2} /\ z \in Nat /\ over_bytes(r) - next - d \in Int
         /\ r.len <= BYTE * z + BYTE * 1
         /\ r.len <= BYTE * z + (BYTE * d - (r.begin % BYTE))
<1> DEFINE h == r.begin % BYTE
           bl == baBits2Bytes(r.len)
           ov == over_bytes(r)
<1>1. /\ h \in Nat /\ h < BYTE /\ bl \in Nat \ {0} /\ ov \in {bl, bl + 1}
      /\ r.len <= BYTE * bl /\ r.len + h <= BYTE * ov
      /\ BYTE \in Nat \ {0} /\ r.len \in Nat
  BY BytesOf, Widths DEF AnyRange
<1>2. d = IF ov # bl THEN 2 ELSE 1
  BY DEF SizesDiffer
<1>3. next <= ov - 1 /\ z = next + MaxOf(ov - next - d)
  OBVIOUS
<1> HIDE DEF h, bl, ov
<1>4. d \in {1, 2} /\ ov \in Nat /\ ov - next - d \in Int
  BY <1>1, <1>2
<1>5. z \in Nat /\ z >= ov - d /\ (d = 1 => z = ov - 1)
  BY <1>3, <1>4 DEF MaxOf
<1>6. z + 1 >= bl
  BY <1>1, <1>2, <1>5
<1>7. /\ BYTE * (z + 1) = BYTE * z + BYTE /\ BYTE * z \in Nat
      /\ BYTE * bl <= BYTE * (z + 1) /\ BYTE * bl \in Nat
  BY <1>1, <1>5, <1>6, Multiples, z + 1 \in Nat
<1>8. r.len <= BYTE * z + BYTE
  BY <1>1, <1>7
<1>9. r.len <= BYTE * z + (BYTE * d - h)
  <2>1. CASE d = 1
    <3>1. BYTE * (z + 1) = BYTE * ov
      BY <1>1, <1>5, <2>1, z + 1 = ov
    <3>2. r.len + h <= BYTE * z + BYTE
      BY <1>1, <1>7, <3>1
    <3> QED BY <1>1, <1>7, <2>1, <3>2
  <2>2. CASE d = 2
    BY <1>1, <1>7, <1>8, <2>2
  <2> QED BY <1>4, <2>1, <2>2
<1>10. BYTE * 1 = BYTE
  BY <1>1
<1> QED BY <1>4, <1>5, <1>8, <1>9, <1>10 DEF h, ov

(* The stores of baGetSubArray: seven bytes on, then one byte on, and the  *)
(* last reaches the end of the range.                                      *)
LEMMA StoresChain ==
  ASSUME NEW r \in AnyRange, r.len > 0
  PROVE  Chain(r, Stores(r))
<1> DEFINE S == Stores(r)
           ov == over_bytes(r)
           d == IF SizesDiffer(r) THEN 2 ELSE 1
           u == IF baBits2Bytes(r.len) < K THEN 0 ELSE (ov - 1) \div (K - 1)
           next == (K - 1) * u
           v == Max({ov - next - d, 0})
           p == [n \in 1..u |-> [at |-> (K - 1) * (n - 1), from |-> K, to |-> K]]
           q == [n \in 1..v |-> [at |-> next + n - 1, from |-> 2, to |-> 2]]
           x == [at |-> next + v, from |-> d, to |-> 1]
<1>1. S = p \o q \o <<x>>
  BY DEF Stores
<1>2. /\ K - 1 \in Nat \ {0} /\ K \in Nat /\ ov \in Nat \ {0} /\ ov - 1 \in Nat
  <2>1. ov \in Nat \ {0} /\ K \in Nat \ {0, 1}
    BY BytesOf, Widths
  <2> HIDE DEF ov
  <2> QED BY <2>1
<1>3. u \in Nat /\ next \in Nat /\ next <= ov - 1
  <2> DEFINE e == (ov - 1) \div (K - 1)
  <2>1. /\ e \in Nat /\ (ov - 1) % (K - 1) \in 0..(K - 1) - 1
        /\ ov - 1 = (K - 1) * e + ((ov - 1) % (K - 1))
    BY ONLY <1>2, Quotient
  <2>2. u = 0 \/ u = e
    OBVIOUS
  <2> HIDE DEF e, u, ov
  <2>3. (K - 1) * e \in Nat /\ (K - 1) * 0 = 0
    BY <1>2, <2>1, Multiples
  <2>4. (K - 1) * e <= ov - 1
    BY <1>2, <2>1, <2>3
  <2> QED BY <1>2, <2>1, <2>2, <2>3, <2>4
<1> DEFINE z == next + v
<1>4. /\ d \in {1, 2} /\ z \in Nat /\ v \in Nat
      /\ r.len <= BYTE * z + BYTE * 1
      /\ r.len <= BYTE * z + (BYTE * d - (r.begin % BYTE))
  <2> HIDE DEF u, next
  <2>1. d \in {1, 2} /\ ov - next - d \in Int
    BY <1>2, <1>3
  <2>2. v = MaxOf(ov - next - d) /\ v \in Nat
    <3>1. v = MaxOf(ov - next - d)
      BY <2>1, MaxIs
    <3> QED BY <2>1, <3>1 DEF MaxOf
  <2> QED BY <1>3, <2>1, <2>2, LastReaches
<1> HIDE DEF ov, u, d, v
<1>5. p \in [1..u -> Rec] /\ q \in [1..v -> Rec] /\ x \in Rec
  <2>1. \A n \in 1..u : n - 1 \in Nat /\ (K - 1) * (n - 1) \in Nat
    BY <1>2, <1>3, Multiples
  <2>2. \A n \in 1..v : next + n - 1 \in Nat
    BY <1>3, <1>4
  <2> QED BY <1>2, <1>3, <1>4, <2>1, <2>2 DEF Rec
<1>6. /\ Len(S) = u + v + 1
      /\ \A n \in 1..u : S[n] = p[n]
      /\ \A n \in 1..v : S[u + n] = q[n]
      /\ S[u + v + 1] = x
  <2>1. p \in Seq(Rec) /\ q \in Seq(Rec) /\ Len(p) = u /\ Len(q) = v
    BY <1>3, <1>4, <1>5
  <2> HIDE DEF p, q, x, S
  <2>2. x \in Rec
    BY <1>5
  <2>3. Looped(S, p, q, x)
    <3>1. Looped(p \o q \o <<x>>, p, q, x)
      BY ONLY <2>1, <2>2, ThreeLoops
    <3> QED BY ONLY <1>1, <3>1, Zenon
  <2> QED BY ONLY <2>1, <2>3, Zenon DEF Looped
<1> HIDE DEF S
<1> DEFINE A(n) == IF n <= u THEN (K - 1) * (n - 1) ELSE next + (n - u - 1)
           F(n) == IF n <= u THEN K ELSE IF n <= u + v THEN 2 ELSE d
           T(n) == IF n <= u + v THEN F(n) ELSE 1
<1>7. ASSUME NEW n \in 1..u + v + 1
      PROVE  S[n] = [at |-> A(n), from |-> F(n), to |-> T(n)]
  <2>1. CASE n <= u
    <3>1. n \in 1..u /\ n <= u + v
      BY <1>3, <1>4, <2>1
    <3>2. S[n] = p[n]
      BY <1>6, <3>1
    <3>3. p[n] = [at |-> (K - 1) * (n - 1), from |-> K, to |-> K]
      BY <3>1
    <3>4. A(n) = (K - 1) * (n - 1) /\ F(n) = K /\ T(n) = K
      BY ONLY <2>1, <3>1, Zenon
    <3> HIDE DEF A, F, T
    <3> QED BY ONLY <3>2, <3>3, <3>4, Zenon
  <2>2. CASE u < n /\ n <= u + v
    <3>1. n - u \in 1..v /\ u + (n - u) = n
      BY <1>3, <1>4, <2>2
    <3>2. S[n] = q[n - u]
      <4> HIDE DEF q
      <4> QED BY <1>6, <3>1
    <3>3. q[n - u] = [at |-> next + (n - u) - 1, from |-> 2, to |-> 2]
      <4> HIDE DEF next
      <4> QED BY <3>1
    <3>4. ~(n <= u) /\ n <= u + v
      BY <1>3, <1>4, <2>2
    <3> QED BY ONLY <3>2, <3>3, <3>4
  <2>3. CASE u + v < n
    <3>1. n = u + v + 1
      BY <1>3, <1>4, <2>3
    <3>2. S[n] = x /\ n - u - 1 = v /\ ~(n <= u) /\ ~(n <= u + v)
      BY <1>3, <1>4, <1>6, <3>1
    <3> QED BY <3>2
  <2> QED BY <1>3, <1>4, <2>1, <2>2, <2>3
<1>8. A(1) = 0
  BY <1>2, <1>3
<1>9. ASSUME NEW n \in 1..u + v
      PROVE  A(n + 1) = A(n) + (F(n) - 1) /\ T(n) = F(n)
  <2>1. CASE n < u
    BY <1>2, <1>3, <1>4, <2>1
  <2>2. CASE n = u
    <3>1. u - 1 \in Nat /\ (u - 1) + 1 = u
      BY <1>3, <2>2
    <3>2. (K - 1) * u = (K - 1) * (u - 1) + (K - 1)
      BY <1>2, <3>1, Multiples
    <3>3. A(n + 1) = next + 0 /\ A(n) = (K - 1) * (u - 1) /\ F(n) = K /\ T(n) = K
      BY <1>3, <1>4, <2>2
    <3> QED BY <1>2, <1>3, <3>2, <3>3
  <2>3. CASE n > u
    <3> HIDE DEF next
    <3> QED BY <1>3, <1>4, <2>3
  <2> QED BY <1>3, <1>4, <2>1, <2>2, <2>3
<1>10. \A n \in 1..u + v + 1 : S[n] \in Rec
  <2> HIDE DEF p, q, x
  <2>1. ASSUME NEW n \in 1..u + v + 1 PROVE S[n] \in Rec
    <3>1. CASE n <= u
      BY <1>3, <1>4, <1>5, <1>6, <3>1
    <3>2. CASE u < n /\ n <= u + v
      <4>1. n - u \in 1..v /\ u + (n - u) = n
        BY <1>3, <1>4, <3>2
      <4> QED BY <1>5, <1>6, <4>1
    <3>3. CASE u + v < n
      <4>1. n = u + v + 1
        BY <1>3, <1>4, <3>3
      <4> QED BY <1>5, <1>6, <4>1
    <3> QED BY <1>3, <1>4, <3>1, <3>2, <3>3
  <2> QED BY <2>1
<1>11. Chain(r, S)
  <2>1. Len(S) \in Nat \ {0} /\ Len(S) - 1 = u + v
    BY <1>3, <1>4, <1>6
  <2>2. S[1].at = 0
    <3>1. 1 \in 1..u + v + 1
      BY <1>3, <1>4
    <3> HIDE DEF A, F, T
    <3>2. S[1] = [at |-> A(1), from |-> F(1), to |-> T(1)]
      BY ONLY <1>7, <3>1
    <3> QED BY ONLY <1>8, <3>2
  <2>3. ASSUME NEW n \in 1..u + v
        PROVE  /\ S[n + 1].at <= S[n].at + (S[n].from - 1)
               /\ S[n].to = S[n].from
    <3>1. n \in 1..u + v + 1 /\ n + 1 \in 1..u + v + 1
      BY <1>3, <1>4
    <3>2. S[n] \in Rec /\ S[n + 1] \in Rec
      BY <1>10, <3>1
    <3>3. A(n + 1) = A(n) + (F(n) - 1) /\ T(n) = F(n)
      BY <1>9
    <3> HIDE DEF A, F, T
    <3>4. /\ S[n].at = A(n) /\ S[n].from = F(n) /\ S[n].to = T(n)
          /\ S[n + 1].at = A(n + 1)
      <4>1. /\ S[n] = [at |-> A(n), from |-> F(n), to |-> T(n)]
            /\ S[n + 1] = [at |-> A(n + 1), from |-> F(n + 1), to |-> T(n + 1)]
        BY ONLY <1>7, <3>1
      <4> QED BY ONLY <4>1
    <3> QED BY <3>2, <3>3, <3>4 DEF Rec
  <2>4. S[Len(S)] = x
    BY <1>6
  <2>5. x.at = z /\ x.from = d /\ x.to = 1
    OBVIOUS
  <2> HIDE DEF x, z
  <2>6. \A n \in 1..Len(S) : S[n] \in [at : Nat, from : Nat, to : Nat]
    BY <1>6, <1>10 DEF Rec
  <2>7. \A n \in 1..Len(S) - 1 : /\ S[n + 1].at <= S[n].at + (S[n].from - 1)
                                  /\ S[n].to = S[n].from
    BY <2>1, <2>3
  <2>8. /\ r.len <= BYTE * x.at + BYTE * x.to
        /\ r.len <= BYTE * x.at + (BYTE * x.from - (r.begin % BYTE))
    BY ONLY <1>4, <2>5
  <2> QED BY ONLY <2>1, <2>2, <2>4, <2>6, <2>7, <2>8, Zenon DEF Chain
<1> QED BY <1>11 DEF S

(* A set of numbers that holds 0, and with n also n + 1, is all of them.   *)
LEMMA Induction ==
  ASSUME NEW T \in SUBSET Nat, 0 \in T, \A n \in Nat : n \in T => n + 1 \in T
  PROVE  T = Nat
<1> SUFFICES ASSUME Nat \ T # {} PROVE FALSE
  OBVIOUS
<1> DEFINE x == Min(Nat \ T)
<1>1. x \in Nat \ T /\ \A y \in Nat \ T : x <= y
  <2>1. Nat \ T \in SUBSET Nat
    OBVIOUS
  <2> QED BY ONLY <2>1, MinIs, Nat \ T # {}
<1> HIDE DEF x
<1>2. x # 0 /\ x - 1 \in Nat /\ (x - 1) + 1 = x
  BY <1>1
<1>3. x - 1 \in T
  <2>1. ~(x <= x - 1)
    BY <1>1
  <2> QED BY <1>1, <1>2, <2>1
<1> QED BY <1>1, <1>2, <1>3

(* The turns of the loops, and that they have a result.                    *)
Turns(f, r, S, n) ==
  f = [h \in 0..n |-> IF h = 0 THEN {} ELSE Move(r, f[h - 1], S[h])]

(* The recursion over the turns defines a function.                        *)
LEMMA TurnsExist ==
  ASSUME NEW r, NEW S, NEW n \in Nat
  PROVE  \E f : Turns(f, r, S, n)
<1> DEFINE Is(f, m) ==
             f = [h \in 0..m |-> IF h = 0 THEN {} ELSE Move(r, f[h - 1], S[h])]
           T == {m \in Nat : \E f : Is(f, m)}
<1>1. 0 \in T
  <2>1. Is([h \in 0..0 |-> {}], 0)
    OBVIOUS
  <2> QED BY <2>1
<1>2. ASSUME NEW m \in Nat, m \in T PROVE m + 1 \in T
  <2>1. PICK f : Is(f, m)
    BY <1>2
  <2> DEFINE g == [h \in 0..(m + 1) |->
                     IF h = m + 1 THEN Move(r, f[m], S[m + 1]) ELSE f[h]]
  <2>2. ASSUME NEW h \in 0..(m + 1)
        PROVE  g[h] = IF h = 0 THEN {} ELSE Move(r, g[h - 1], S[h])
    <3>1. CASE h = m + 1
      <4>1. h # 0 /\ h - 1 = m /\ m \in 0..(m + 1) /\ m # m + 1
        BY <3>1
      <4>2. g[m + 1] = Move(r, f[m], S[m + 1]) /\ g[m] = f[m]
        BY <4>1, <3>1
      <4> HIDE DEF g
      <4> QED BY <3>1, <4>1, <4>2
    <3>2. CASE h # m + 1
      <4>1. h \in 0..m /\ h - 1 \in -1..(m - 1) /\ h - 1 # m + 1
        BY <3>2
      <4>2. g[h] = f[h] /\ (h # 0 => g[h - 1] = f[h - 1])
        BY <4>1
      <4>3. f[h] = IF h = 0 THEN {} ELSE Move(r, f[h - 1], S[h])
        BY <2>1, <4>1
      <4> QED BY <4>2, <4>3
    <3> QED BY <3>1, <3>2
  <2>3. Is(g, m + 1)
    BY <2>2
  <2> HIDE DEF g, Is
  <2> QED BY <2>3
<1> HIDE DEF T
<1>3. T = Nat
  BY <1>1, <1>2, Induction DEF T
<1> QED BY <1>3 DEF T, Turns

(* After n turns the bits before the next store are those of the range.    *)
LEMMA TurnsCopy ==
  ASSUME NEW r \in AnyRange, NEW S, Chain(r, S), NEW f,
         f = [n \in 0..Len(S) |-> IF n = 0 THEN {} ELSE Move(r, f[n - 1], S[n])],
         r.len > 0
  PROVE  Copied(f[Len(S)], r, r.len)
<1>1. /\ Len(S) \in Nat \ {0} /\ S[1].at = 0
      /\ \A n \in 1..Len(S) : S[n] \in [at : Nat, from : Nat, to : Nat]
      /\ \A n \in 1..Len(S) - 1 : /\ S[n + 1].at <= S[n].at + (S[n].from - 1)
                                  /\ S[n].to = S[n].from
      /\ r.len <= BYTE * S[Len(S)].at + BYTE * S[Len(S)].to
      /\ r.len <= BYTE * S[Len(S)].at + (BYTE * S[Len(S)].from - (r.begin % BYTE))
  BY DEF Chain
<1>2. BYTE \in Nat \ {0} /\ r.len \in Nat /\ r.begin \in Nat
  BY Widths DEF AnyRange
<1>3. r.begin % BYTE \in 0..BYTE - 1
  BY ONLY <1>2, Quotient
<1>4. f[0] = {} /\ \A n \in 1..Len(S) : f[n] = Move(r, f[n - 1], S[n])
  <2>1. 0 \in 0..Len(S) /\ \A n \in 1..Len(S) : n \in 0..Len(S) /\ n # 0
    BY <1>1
  <2> QED BY <2>1
<1> DEFINE Before(n) == Copied(f[n], r, BYTE * S[n + 1].at)
           T == {n \in Nat : n < Len(S) => Before(n)}
<1>5. 0 \in T
  <2>1. BYTE * S[0 + 1].at = 0
    BY <1>1, <1>2
  <2>2. \A y \in 0..0 - 1 : FALSE
    OBVIOUS
  <2>3. Before(0)
    BY ONLY <2>1, <2>2 DEF Copied
  <2> QED BY <2>3
<1>6. ASSUME NEW n \in Nat, n \in T PROVE n + 1 \in T
  <2> SUFFICES ASSUME n + 1 < Len(S) PROVE Before(n + 1)
    OBVIOUS
  <2> DEFINE s == S[n + 1]
             m == BYTE * S[(n + 1) + 1].at
             h == r.begin % BYTE
  <2>1. n + 1 \in 1..Len(S) - 1 /\ n + 1 \in 1..Len(S) /\ (n + 1) + 1 \in 1..Len(S)
        /\ (n + 1) - 1 = n /\ n < Len(S)
    BY <1>1
  <2>2. /\ s \in [at : Nat, from : Nat, to : Nat]
        /\ S[(n + 1) + 1] \in [at : Nat, from : Nat, to : Nat]
    BY <1>1, <2>1
  <2>3. S[(n + 1) + 1].at <= s.at + (s.from - 1) /\ s.to = s.from
    BY <1>1, <2>1
  <2>4. Copied(f[n], r, BYTE * s.at)
    BY <1>6, <2>1
  <2>5. f[n + 1] = Move(r, f[n], s)
    BY <1>4, <2>1
  <2>6. PICK p, q, e \in Nat : p = s.at /\ q = s.from /\ e = S[(n + 1) + 1].at
    BY <2>2
  <2> HIDE DEF s, h
  <2>7. e <= p + (q - 1) /\ m = BYTE * e
    BY <2>3, <2>6
  <2>8. /\ BYTE * e \in Nat /\ BYTE * p \in Nat /\ BYTE * q \in Nat
        /\ BYTE * e <= BYTE * p + BYTE * q - BYTE
    <3>1. /\ BYTE * e \in Nat /\ BYTE * p \in Nat /\ BYTE * q \in Nat
      BY <1>2, Multiples
    <3>2. e + 1 \in Nat /\ p + q \in Nat /\ e + 1 <= p + q
      BY <2>7
    <3>3. BYTE * (e + 1) <= BYTE * (p + q)
      BY ONLY <1>2, <3>2, Multiples
    <3>4. BYTE * (e + 1) = BYTE * e + BYTE /\ BYTE * (p + q) = BYTE * p + BYTE * q
      BY <1>2
    <3> QED BY ONLY <1>2, <3>1, <3>3, <3>4
  <2> HIDE DEF m
  <2>9. h \in Nat /\ h <= BYTE - 1
    BY <1>2, <1>3 DEF h
  <2>10. m \in Nat /\ m <= BYTE * p + BYTE * q /\ m <= BYTE * p + (BYTE * q - h)
    BY ONLY <1>2, <2>7, <2>8, <2>9
  <2>11. Copied(Move(r, f[n], s), r, m)
    <3>1. m <= BYTE * s.at + BYTE * s.to /\ m <= BYTE * s.at + (BYTE * s.from - h)
      BY ONLY <2>3, <2>6, <2>10
    <3> QED BY <2>2, <2>4, <2>10, <3>1, MoveCopies DEF h
  <2> QED BY <2>5, <2>11 DEF m
<1> HIDE DEF T
<1>7. T = Nat
  BY <1>5, <1>6, Induction DEF T
<1> DEFINE n == Len(S) - 1
<1>8. n \in Nat /\ n < Len(S) /\ n + 1 = Len(S) /\ Len(S) \in 1..Len(S)
  <2>1. \A m \in Nat \ {0} :
          m - 1 \in Nat /\ m - 1 < m /\ (m - 1) + 1 = m /\ m \in 1..m
    OBVIOUS
  <2> QED BY ONLY <1>1, <2>1, Zenon DEF n
<1>9. Copied(f[n], r, BYTE * S[Len(S)].at)
  <2>1. Before(n)
    BY <1>7, <1>8 DEF T
  <2> QED BY <1>8, <2>1
<1>10. f[Len(S)] = Move(r, f[n], S[Len(S)])
  BY <1>4, <1>8
<1> HIDE DEF n
<1>11. Copied(Move(r, f[n], S[Len(S)]), r, r.len)
  <2> DEFINE s == S[Len(S)]
  <2>1. /\ s \in [at : Nat, from : Nat, to : Nat]
        /\ Copied(f[n], r, BYTE * s.at)
        /\ r.len <= BYTE * s.at + BYTE * s.to
        /\ r.len <= BYTE * s.at + (BYTE * s.from - (r.begin % BYTE))
    BY <1>1, <1>8, <1>9
  <2> HIDE DEF s
  <2>2. Copied(Move(r, f[n], s), r, r.len)
    BY <1>2, <2>1, MoveCopies
  <2> QED BY <2>2 DEF s
<1> QED BY <1>10, <1>11

(* baGetSubArray copies the range, by memcpy or by its loops.              *)
LEMMA SubArrayCopied ==
  ASSUME NEW r \in AnyRange, r.len > 0
  PROVE  Copied(baGetSubArray(r), r, r.len)
<1>1. BYTE \in Nat \ {0} /\ r.begin \in Nat /\ r.len \in Nat
  BY Widths DEF AnyRange
<1>2. CASE r.begin % BYTE = 0
  <2> DEFINE b == BYTE * (r.begin \div BYTE)
             t == BYTE * baBits2Bytes(r.len)
  <2>1. baGetSubArray(r) = Load(buf_, b, t)
    BY <1>2 DEF baGetSubArray
  <2>2. /\ r.begin \div BYTE \in Nat
        /\ r.begin = BYTE * (r.begin \div BYTE) + (r.begin % BYTE)
    BY ONLY <1>1, Quotient
  <2>3. b \in Nat /\ r.begin = b
    BY <1>1, <1>2, <2>2, Multiples
  <2>4. t \in Nat /\ r.len <= t
    BY <1>1, BytesOf, Multiples
  <2> HIDE DEF b, t
  <2>5. Load(buf_, b, t) = {y \in 0..t - 1 : b + y \in buf_}
    BY <2>3, <2>4, LoadIs
  <2>6. \A y \in 0..r.len - 1 : y \in 0..t - 1
    BY <1>1, <2>4
  <2> QED BY <2>1, <2>3, <2>5, <2>6 DEF Copied
<1>3. CASE r.begin % BYTE # 0
  <2> DEFINE S == Stores(r)
             f == CHOOSE f : f = [n \in 0..Len(S) |->
                    IF n = 0 THEN {} ELSE Move(r, f[n - 1], S[n])]
  <2>1. baGetSubArray(r) = f[Len(S)] \cap Allocated(r.len)
    BY <1>3 DEF baGetSubArray
  <2>2. Chain(r, S)
    BY StoresChain
  <2>3. Len(S) \in Nat
    BY <2>2 DEF Chain
  <2> HIDE DEF S
  <2>4. f = [n \in 0..Len(S) |-> IF n = 0 THEN {} ELSE Move(r, f[n - 1], S[n])]
    <3>1. \E g : Turns(g, r, S, Len(S))
      BY ONLY <2>3, TurnsExist
    <3> QED BY <3>1 DEF Turns
  <2> HIDE DEF f
  <2>5. Copied(f[Len(S)], r, r.len)
    BY <2>2, <2>4, TurnsCopy
  <2>6. 0..r.len - 1 \subseteq Allocated(r.len)
    BY <1>1, AllocatedFacts
  <2> QED BY <2>1, <2>5, <2>6 DEF Copied
<1> QED BY <1>2, <1>3

(* Which is what SubArrayIsSlice says.                                     *)
LEMMA SubArrayExact == ArrayInv => SubArrayIsSlice
<1> SUFFICES ASSUME ArrayInv, NEW r \in NonEmpty
             PROVE  baGetSubArray(r) \cap 0..(r.len - 1) = Load(buf_, r.begin, r.len)
  BY DEF SubArrayIsSlice
<1>1. r \in AnyRange /\ r.len > 0 /\ r.begin \in Nat /\ r.len \in Nat
  BY RangeFacts DEF NonEmpty, AnyRange
<1>2. Copied(baGetSubArray(r), r, r.len)
  BY <1>1, SubArrayCopied
<1>3. Load(buf_, r.begin, r.len) = {y \in 0..r.len - 1 : r.begin + y \in buf_}
  BY <1>1, LoadIs
<1> QED BY <1>2, <1>3 DEF Copied

-----------------------------------------------------------------------------
(* For every width and size baFillOne and baFillZero change the bits of    *)
(* the range and no other, though they write whole words.                  *)
THEOREM FillsExactly == AnyCalls => []FillIsExact
  BY ArrayInMemory, FillExact, PTL

(* baInvert flips the range and touches no word outside its own, and on a  *)
(* whole array agrees with baGetInvert.                                    *)
THEOREM FlipsExactly == AnyCalls => []InvertFlips
  BY ArrayInMemory, InvertExact, PTL

(* baFindOne and baFindZero find the first place of the range, whatever    *)
(* the words they read have beside it.                                     *)
THEOREM FindsFirst == AnyCalls => []FindIsFirst
  BY ArrayInMemory, FindFirst, PTL

(* baGetSubArray copies the range, with whichever loops it goes through.   *)
THEOREM CopiesSlice == AnyCalls => []SubArrayIsSlice
  BY ArrayInMemory, SubArrayExact, PTL

-----------------------------------------------------------------------------
(* Signal.  IInv is its inductive invariant.                               *)

Waiting == {"wait"} \cup Ended

(* An answer on its way, or about to be sent, belongs to the last bit.     *)
AnswerInv ==
  /\ "USR1" \in wpend => sent = taken /\ wpc \in Waiting
  /\ rpc = "ack" => /\ sent = taken /\ wpc \in Waiting
                    /\ "USR1" \notin wpend

ProgressInv ==
  /\ wpc = "done" => sent = Len(file) /\ sent = taken
  /\ wpc \in {"alarm", "send"} => sent < Len(file)
  /\ rpc \in {"setup", "suspend"} => Len(byte) < BITS
  /\ rpc = "write" => Len(byte) = BITS

IInv == TypeOK /\ Lockstep /\ AnswerInv /\ ProgressInv /\ TakenIsPrefix

USE BitsAssumption, FilesAssumption, FaultsAssumption

(* What the writer does after an answer depends on sent alone.             *)
LEMMA NextBitFacts ==
  /\ NextBit \in {"read", "alarm"}
  /\ sent = Len(file) => NextBit = "read"
  BY DEF NextBit

(* The reader's byte and output gain the bit that was just sent.           *)
LEMMA TakeExtends ==
  ASSUME IInv, RTake
  PROVE  /\ byte' \in Seq(BOOLEAN)
         /\ Len(byte') = Len(byte) + 1
         /\ \A i \in 1..Len(byte) : byte'[i] = byte[i]
         /\ sent = taken + 1
         /\ byte'[Len(byte) + 1] = file[sent]
         /\ rpend' \cap BitSignals = {}
<1>1. PICK s \in rpend \cap BitSignals :
         rpend' = rpend \ {s} /\ byte' = Append(byte, s = "USR2")
  BY DEF RTake
<1>2. byte \in Seq(BOOLEAN) /\ (s = "USR2") \in BOOLEAN
  BY DEF IInv, TypeOK
<1>3. /\ sent = taken + 1
      /\ s = IF file[sent] THEN "USR2" ELSE "USR1"
      /\ rpend' \cap BitSignals = {}
  BY <1>1 DEF IInv, Lockstep
<1>4. sent \in 1..Len(file) /\ file \in Seq(BOOLEAN)
  BY <1>3 DEF IInv, TypeOK
<1>5. file[sent] \in BOOLEAN
  BY <1>4
<1>6. (s = "USR2") = file[sent]
  BY <1>3, <1>5
<1>7. QED
  BY <1>1, <1>2, <1>3, <1>6

(* A byte that is written moves to the end of the output.                  *)
LEMMA WriteExtends ==
  ASSUME NEW s \in Seq(BOOLEAN), NEW b \in Seq(BOOLEAN)
  PROVE  /\ s \o b \in Seq(BOOLEAN)
         /\ Len(s \o b) = Len(s) + Len(b)
         /\ \A i \in 1..Len(s) : (s \o b)[i] = s[i]
         /\ \A i \in 1..Len(b) : (s \o b)[Len(s) + i] = b[i]
         /\ \A i \in 1..Len(s \o b) :
              i \in 1..Len(s) \/ i - Len(s) \in 1..Len(b)
  OBVIOUS

(* No bit is sent and no answer given before the handshake starts.         *)
LEMMA InitInv == Init => IInv
<1> SUFFICES ASSUME Init PROVE IInv
  OBVIOUS
<1>1. /\ file \in Seq(BOOLEAN) /\ Len(file) \in Nat
      /\ byte = <<>> /\ out = <<>>
      /\ sent = 0 /\ taken = 0
  BY DEF Init
<1>2. Len(byte) = 0 /\ Len(out) = 0
  BY <1>1
<1>3. TypeOK
  <2>1. byte \in Seq(BOOLEAN) /\ out \in Seq(BOOLEAN)
    BY <1>1
  <2>2. sent \in 0..Len(file) /\ taken \in 0..Len(file) /\ Len(byte) <= BITS
    BY <1>1, <1>2
  <2>3. faults \subseteq Faults /\ file \in Files /\ armed \in BOOLEAN
    BY DEF Init
  <2>4. QED
    BY <2>1, <2>2, <2>3 DEF Init, TypeOK
<1>4. Lockstep /\ AnswerInv
  BY <1>1 DEF Init, Lockstep, AnswerInv, BitSignals
<1>5. ProgressInv
  BY <1>2 DEF Init, ProgressInv
<1>6. TakenIsPrefix
  BY <1>1, <1>2 DEF TakenIsPrefix
<1>7. QED
  BY <1>3, <1>4, <1>5, <1>6 DEF IInv

(* Each step of either side, the clock, a kill or a stop keeps it.         *)
LEMMA NextInv == IInv /\ [Next]_vars => IInv'
<1> SUFFICES ASSUME IInv, [Next]_vars PROVE IInv'
  OBVIOUS
<1> USE DEF IInv, TypeOK, Lockstep, AnswerInv, ProgressInv, TakenIsPrefix,
            Waiting, Ended, BitSignals, vars, rigid, wvars, rvars,
            WriterEnds
<1>1. CASE WOpen
  BY <1>1 DEF WOpen
<1>2. CASE WRead
  BY <1>2 DEF WRead
<1>3. CASE WAlarm
  BY <1>3 DEF WAlarm
<1>4. CASE WSend
  BY <1>4 DEF WSend, BitSignal
<1>5. CASE WSendFail
  BY <1>5 DEF WSendFail
<1>6. CASE WAnswered
  BY <1>6, NextBitFacts DEF WAnswered
<1>7. CASE WTimedOut
  BY <1>7 DEF WTimedOut
<1>8. CASE RSetup
  BY <1>8 DEF RSetup
<1>9. CASE RTake
  BY <1>9, TakeExtends, SMTT(30) DEF RTake
<1>10. CASE RChild
  BY <1>10 DEF RChild
<1>11. CASE RAck
  BY <1>11 DEF RAck
<1>12. CASE RWrite
  <2>1. CASE out' = out \o byte
    <3>1. /\ out' \in Seq(BOOLEAN)
          /\ Len(out') = Len(out) + Len(byte)
          /\ \A i \in 1..Len(out) : out'[i] = out[i]
          /\ \A i \in 1..Len(byte) : out'[Len(out) + i] = byte[i]
          /\ \A i \in 1..Len(out') :
               i \in 1..Len(out) \/ i - Len(out) \in 1..Len(byte)
      BY <2>1, WriteExtends, SMTT(30)
    <3>2. byte' = <<>> /\ byte' \in Seq(BOOLEAN) /\ Len(byte') = 0
      BY <1>12 DEF RWrite
    <3>3. ASSUME "write" \notin faults, NEW i \in 1..Len(out')
          PROVE  out'[i] = file[i]
      <4>1. CASE i \in 1..Len(out)
        BY <3>1, <3>3, <4>1
      <4>2. CASE i - Len(out) \in 1..Len(byte)
        <5>1. PICK j \in 1..Len(byte) : j = i - Len(out)
          BY <4>2
        <5>2. i = Len(out) + j
          BY <3>1, <5>1
        <5>3. out'[Len(out) + j] = byte[j]
          BY <3>1
        <5>4. byte[j] = file[Len(out) + j]
          BY <3>3
        <5>5. QED
          BY <5>2, <5>3, <5>4
      <4>3. QED
        BY <3>1, <4>1, <4>2
    <3>4. TakenIsPrefix'
      BY <1>12, <3>1, <3>2, <3>3 DEF RWrite
    <3>5. TypeOK' /\ Lockstep' /\ AnswerInv' /\ ProgressInv'
      BY <1>12, <3>1, <3>2 DEF RWrite
    <3>6. QED
      BY <3>4, <3>5
  <2>2. CASE "write" \in faults /\ UNCHANGED out
    <3>1. byte' = <<>> /\ byte' \in Seq(BOOLEAN) /\ Len(byte') = 0
      BY <1>12 DEF RWrite
    <3>2. QED
      BY <1>12, <2>2, <3>1 DEF RWrite
  <2>3. QED
    BY <1>12, <2>1, <2>2 DEF RWrite
<1>13. CASE AlarmFires
  BY <1>13 DEF AlarmFires
<1>14. CASE WKill
  BY <1>14 DEF WKill
<1>15. CASE RKill
  BY <1>15 DEF RKill
<1>16. CASE WStop
  BY <1>16 DEF WStop
<1>17. CASE UNCHANGED vars
  BY <1>17
<1>18. QED
  BY <1>1, <1>2, <1>3, <1>4, <1>5, <1>6, <1>7, <1>8, <1>9, <1>10, <1>11, <1>12,
     <1>13, <1>14, <1>15, <1>16, <1>17
     DEF Next, WriterStep, ReaderStep, Stopped

(* The invariant holds of every reachable state of every instance.         *)
THEOREM InductiveInvariant == Spec => []IInv
<1>1. QED
  BY InitInv, NextInv, PTL DEF Spec

(* No counter leaves the file, no byte outgrows its bits.                  *)
THEOREM TypeCorrect == Spec => []TypeOK
<1>1. IInv => TypeOK
  BY DEF IInv
<1>2. QED
  BY <1>1, InductiveInvariant, PTL

(* One bit in flight at most, and never a lost signal.                     *)
THEOREM InStep == Spec => []Lockstep
<1>1. IInv => Lockstep
  BY DEF IInv
<1>2. QED
  BY <1>1, InductiveInvariant, PTL

(* What has been taken is a prefix of the file, alarms and kills or not.   *)
THEOREM PrefixTaken == Spec => []TakenIsPrefix
<1>1. IInv => TakenIsPrefix
  BY DEF IInv
<1>2. QED
  BY <1>1, InductiveInvariant, PTL

(* A writer that returns 0 has had its last bit acknowledged.              *)
THEOREM WriterHeard == Spec => []WriterSuccess
<1>1. IInv => WriterSuccess
  BY DEF IInv, ProgressInv, WriterSuccess
<1>2. QED
  BY <1>1, InductiveInvariant, PTL

-----------------------------------------------------------------------------
(* The w bytes of the output are those of the file at the places f, among  *)
(* the q bytes that have been written or lost.                             *)
Places(w, q) == [1..w -> 0..(q - 1)]

Located(w, f) ==
  /\ Len(out) = BITS * w
  /\ \A m, n \in 1..w : m < n => f[m] < f[n]
  /\ \A m \in 1..w, r \in 1..BITS :
       out[BITS * (m - 1) + r] = file[BITS * f[m] + r]

(* The unfinished byte is the one after those.                             *)
ByteIs(q) ==
  /\ taken = BITS * q + Len(byte)
  /\ \A r \in 1..Len(byte) : byte[r] = file[BITS * q + r]

LossInv ==
  \E w, q \in Nat : \E f \in Places(w, q) : Located(w, f) /\ ByteIs(q)

(* ByteMultiples of a byte's bits.                                             *)
LEMMA ByteMultiples ==
  ASSUME NEW b \in Nat \ {0}, NEW n \in Nat
  PROVE  /\ b * n \in Nat /\ b * (n + 1) = b * n + b
         /\ \A m \in 1..n : b * (m - 1) \in Nat /\ b * (m - 1) + b <= b * n
<1>1. b * n \in Nat /\ b * (n + 1) = b * n + b
  BY SMT
<1>2. ASSUME NEW m \in 1..n
      PROVE  b * (m - 1) \in Nat /\ b * (m - 1) + b <= b * n
  <2>1. PICK d \in Nat : d = n - m
    OBVIOUS
  <2>2. PICK e \in Nat : e = m - 1
    OBVIOUS
  <2>3. n = (e + 1) + d
    BY <2>1, <2>2
  <2>4. b * n = (b * e + b) + b * d /\ b * d \in Nat /\ b * e \in Nat
    BY <2>3, SMT
  <2> QED BY <2>2, <2>4
<1> QED BY <1>1, <1>2

LEMMA BitPosition ==
  ASSUME NEW b \in Nat \ {0}, NEW n \in Nat
  PROVE  /\ (b * n) \div b = n /\ (b * n) % b = 0
         /\ \A p \in 0..(b * n - 1) :
              /\ p \div b \in 0..(n - 1) /\ p % b \in 0..(b - 1)
              /\ p = b * (p \div b) + (p % b)
<1>1. ASSUME NEW p \in Nat
      PROVE  /\ p \div b \in Nat /\ p % b \in 0..(b - 1)
             /\ p = b * (p \div b) + (p % b)
  BY SMT
<1>2. (b * n) \div b = n /\ (b * n) % b = 0
  BY SMT
<1>3. ASSUME NEW p \in 0..(b * n - 1) PROVE p \div b \in 0..(n - 1)
  <2>1. PICK d \in Nat : d = p \div b
    BY <1>1, SMTT(30)
  <2>2. b * d <= p /\ p < b * n
    BY <1>1, <2>1
  <2>3. d < n
    <3>1. SUFFICES ASSUME d >= n PROVE FALSE
      OBVIOUS
    <3>2. PICK e \in Nat : d = n + e
      BY <3>1
    <3>3. b * d = b * n + b * e /\ b * e \in Nat
      BY <3>2, SMT
    <3> QED BY <2>2, <3>3
  <2> QED BY <2>1, <2>3
<1>4. ASSUME NEW p \in 0..(b * n - 1)
      PROVE  /\ p \div b \in 0..(n - 1) /\ p % b \in 0..(b - 1)
             /\ p = b * (p \div b) + (p % b)
  <2>1. p \in Nat
    OBVIOUS
  <2> QED BY <1>1, <1>3, <2>1
<1> QED BY <1>2, <1>4

LEMMA LossInit == Init => LossInv
<1> SUFFICES ASSUME Init PROVE LossInv
  OBVIOUS
<1> DEFINE f == [m \in 1..0 |-> 0]
<1>1. out = <<>> /\ byte = <<>> /\ taken = 0
  BY DEF Init
<1>2. BITS * 0 = 0
  BY SMT
<1>3. f \in Places(0, 0) /\ Located(0, f) /\ ByteIs(0)
  BY <1>1, <1>2 DEF Places, Located, ByteIs
<1> QED BY <1>3 DEF LossInv

(* The bit that is taken is the unfinished byte's next.                    *)
LEMMA LossTake ==
  ASSUME IInv, LossInv, RTake
  PROVE  LossInv'
<1>0. PICK w \in Nat, q \in Nat :
        \E f \in Places(w, q) : Located(w, f) /\ ByteIs(q)
  BY DEF LossInv
<1>1. PICK f \in Places(w, q) : Located(w, f) /\ ByteIs(q)
  BY <1>0
<1>2. out' = out /\ taken' = taken + 1 /\ file' = file
  BY DEF RTake, rigid
<1>3. /\ Len(byte') = Len(byte) + 1 /\ Len(byte) \in Nat /\ taken \in Nat
      /\ \A r \in 1..Len(byte) : byte'[r] = byte[r]
      /\ sent = taken + 1 /\ byte'[Len(byte) + 1] = file[sent]
  BY TakeExtends DEF IInv, TypeOK
<1>4. BITS * q \in Nat
  BY ByteMultiples
<1>5. taken = BITS * q + Len(byte) /\ \A r \in 1..Len(byte) : byte[r] = file[BITS * q + r]
  BY <1>1 DEF ByteIs
<1>6. byte'[Len(byte) + 1] = file[BITS * q + (Len(byte) + 1)]
  BY <1>3, <1>4, <1>5, SMTT(30)
<1>7. taken' = BITS * q + Len(byte')
  BY <1>2, <1>3, <1>4, <1>5
<1>8. \A r \in 1..Len(byte') : r \in 1..Len(byte) \/ r = Len(byte) + 1
  BY <1>3
<1>9. \A r \in 1..Len(byte') : byte'[r] = file[BITS * q + r]
  BY <1>3, <1>5, <1>6, <1>8
<1>10. ByteIs(q)'
  BY <1>2, <1>7, <1>9 DEF ByteIs
<1>11. Located(w, f)'
  BY <1>1, <1>2 DEF Located
<1> QED BY <1>10, <1>11 DEF LossInv

(* The byte that is finished is written or lost as a whole.                *)
LEMMA LossWrite ==
  ASSUME IInv, LossInv, RWrite
  PROVE  LossInv'
<1>0. PICK w \in Nat, q \in Nat :
        \E f \in Places(w, q) : Located(w, f) /\ ByteIs(q)
  BY DEF LossInv
<1>1. PICK f \in Places(w, q) : Located(w, f) /\ ByteIs(q)
  BY <1>0
<1>2. /\ byte' = <<>> /\ taken' = taken /\ file' = file /\ Len(byte) = BITS
      /\ byte \in Seq(BOOLEAN) /\ out \in Seq(BOOLEAN)
  BY DEF RWrite, rigid, IInv, TypeOK, ProgressInv
<1>3. BITS * q \in Nat /\ BITS * (q + 1) = BITS * q + BITS
  BY ByteMultiples
<1>4. BITS * w \in Nat /\ BITS * (w + 1) = BITS * w + BITS
  BY ByteMultiples
<1>5. ByteIs(q + 1)'
  <2>1. Len(byte') = 0
    BY <1>2
  <2>2. taken' = BITS * (q + 1) + 0
    BY <1>1, <1>2, <1>3 DEF ByteIs
  <2> QED BY <2>1, <2>2 DEF ByteIs
<1>6. CASE out' = out
  <2>1. Located(w, f)'
    BY <1>1, <1>2, <1>6 DEF Located
  <2>2. f \in Places(w, q + 1)
    BY DEF Places
  <2> QED BY <1>5, <2>1, <2>2 DEF LossInv
<1>7. CASE out' = out \o byte
  <2> DEFINE g == [m \in 1..(w + 1) |-> IF m = w + 1 THEN q ELSE f[m]]
  <2>1. /\ f \in [1..w -> 0..(q - 1)] /\ Len(out) = BITS * w
        /\ \A m, n \in 1..w : m < n => f[m] < f[n]
        /\ \A m \in 1..w, r \in 1..BITS :
             out[BITS * (m - 1) + r] = file[BITS * f[m] + r]
    BY <1>1 DEF Located, Places
  <2>2. /\ Len(out') = Len(out) + BITS
        /\ \A p \in 1..Len(out) : out'[p] = out[p]
        /\ \A r \in 1..BITS : out'[Len(out) + r] = byte[r]
    BY <1>2, <1>7, WriteExtends
  <2>3. Len(out') = BITS * (w + 1)
    BY <1>4, <2>1, <2>2
  <2>4. /\ g[w + 1] = q /\ \A m \in 1..w : g[m] = f[m] /\ f[m] \in 0..(q - 1)
    BY <2>1
  <2>5. g \in Places(w + 1, q + 1)
    BY <2>1, <2>4, SMTT(30) DEF Places
  <2> HIDE DEF g
  <2>6. \A m \in 1..(w + 1) : m \in 1..w \/ m = w + 1
    OBVIOUS
  <2>7. ASSUME NEW m \in 1..(w + 1), NEW n \in 1..(w + 1), m < n
        PROVE  g[m] < g[n]
    <3>1. m \in 1..w /\ f[m] < q
      <4>1. m \in 1..w
        BY <2>7
      <4>2. f[m] \in 0..(q - 1)
        BY <2>4, <4>1
      <4> QED BY <4>1, <4>2
    <3>2. CASE n \in 1..w
      BY <2>1, <2>4, <2>7, <3>1, <3>2
    <3>3. CASE n = w + 1
      BY <2>4, <3>1, <3>3
    <3> QED BY <2>6, <3>2, <3>3
  <2>8. ASSUME NEW m \in 1..(w + 1), NEW r \in 1..BITS
        PROVE  out'[BITS * (m - 1) + r] = file[BITS * g[m] + r]
    <3>1. CASE m \in 1..w
      <4>1. BITS * (m - 1) \in Nat /\ BITS * (m - 1) + BITS <= BITS * w
        BY <3>1, ByteMultiples
      <4>2. BITS * (m - 1) + r \in 1..Len(out)
        <5>1. PICK e \in Nat : e = BITS * (m - 1)
          BY <4>1
        <5>2. e + BITS <= Len(out) /\ Len(out) \in Nat
          BY <1>2, <2>1, <4>1, <5>1
        <5>3. e + r \in 1..Len(out)
          BY <5>2
        <5> QED BY <5>1, <5>3
      <4>3. out'[BITS * (m - 1) + r] = out[BITS * (m - 1) + r]
        BY <2>2, <4>2
      <4> QED BY <2>1, <2>4, <3>1, <4>3
    <3>2. CASE m = w + 1
      <4>1. out'[Len(out) + r] = byte[r]
        BY <2>2
      <4>2. m - 1 = w /\ BITS * (m - 1) + r = Len(out) + r
        BY <2>1, <3>2
      <4>3. byte[r] = file[BITS * q + r]
        BY <1>1, <1>2 DEF ByteIs
      <4> QED BY <2>4, <3>2, <4>1, <4>2, <4>3
    <3> QED BY <2>6, <3>1, <3>2
  <2>9. Located(w + 1, g)'
    BY <1>2, <2>3, <2>7, <2>8 DEF Located
  <2> QED BY <1>5, <2>5, <2>9 DEF LossInv
<1> QED BY <1>6, <1>7 DEF RWrite

LEMMA LossNext == IInv /\ LossInv /\ [Next]_vars => LossInv'
<1> SUFFICES ASSUME IInv, LossInv, [Next]_vars PROVE LossInv'
  OBVIOUS
<1>1. CASE out' = out /\ byte' = byte /\ taken' = taken /\ file' = file
  <2>1. PICK w \in Nat, q \in Nat :
          \E f \in Places(w, q) : Located(w, f) /\ ByteIs(q)
    BY DEF LossInv
  <2>2. PICK f \in Places(w, q) : Located(w, f) /\ ByteIs(q)
    BY <2>1
  <2>3. Located(w, f)'
    BY <1>1, <2>2 DEF Located
  <2>4. ByteIs(q)'
    BY <1>1, <2>2 DEF ByteIs
  <2> QED BY <2>3, <2>4 DEF LossInv
<1>2. \/ RTake \/ RWrite
      \/ out' = out /\ byte' = byte /\ taken' = taken /\ file' = file
  BY DEF Next, WriterStep, ReaderStep, WOpen, WRead, WAlarm, WSend, WSendFail,
         WAnswered, WTimedOut, RSetup, RChild, RAck, AlarmFires, WKill, RKill,
         WStop, Stopped, vars, rigid, wvars, rvars
<1> QED BY <1>1, <1>2, LossTake, LossWrite

(* A write that fails costs one whole byte: nobody looks at what write()   *)
(* returns, and the output is the file with some of its bytes left out.    *)
THEOREM LossOfBytes == Spec => []LossIsWholeBytes
<1>1. IInv /\ LossInv => LossIsWholeBytes
  <2> SUFFICES ASSUME IInv, LossInv PROVE LossIsWholeBytes
    OBVIOUS
  <2>0. PICK w \in Nat, q \in Nat :
          \E f \in Places(w, q) : Located(w, f) /\ ByteIs(q)
    BY DEF LossInv
  <2>1. PICK f \in Places(w, q) : Located(w, f) /\ ByteIs(q)
    BY <2>0
  <2>2. Len(out) = BITS * w /\ Len(out) \div BITS = w /\ Len(out) % BITS = 0
    BY <2>1, BitPosition DEF Located
  <2>3. q - 1 <= taken \div BITS - 1
    <3>1. Len(byte) \in Nat /\ taken = BITS * q + Len(byte) /\ taken \in Nat
      BY <2>1 DEF ByteIs, IInv, TypeOK
    <3>2. q <= taken \div BITS
      BY <3>1, SMT
    <3>3. taken \div BITS \in Nat
      BY <3>1, SMT
    <3> QED BY <3>2, <3>3
  <2>4. f \in [1..w -> 0..(taken \div BITS - 1)]
    <3>1. taken \div BITS \in Int
      BY SMT DEF IInv, TypeOK
    <3> QED BY <2>1, <2>3, <3>1 DEF Places
  <2>5. ASSUME NEW p \in 0..(Len(out) - 1)
        PROVE  out[p + 1] = file[BITS * f[p \div BITS + 1] + (p % BITS) + 1]
    <3>1. PICK d \in 0..(w - 1) : d = p \div BITS
      BY <2>2, BitPosition
    <3>2. PICK r \in 0..(BITS - 1) : r = p % BITS
      BY <2>2, BitPosition
    <3>3. p = BITS * d + r
      BY <2>2, <3>1, <3>2, BitPosition
    <3>4. d + 1 \in 1..w /\ r + 1 \in 1..BITS /\ (d + 1) - 1 = d /\ BITS * d \in Nat
      BY ByteMultiples
    <3>5. out[BITS * d + (r + 1)] = file[BITS * f[d + 1] + (r + 1)]
      BY <2>1, <3>4 DEF Located
    <3>6. f[d + 1] \in Nat
      BY <3>4 DEF Places
    <3>7. BITS * f[d + 1] \in Nat
      BY <3>6, ByteMultiples
    <3>8. /\ BITS * d + (r + 1) = p + 1
          /\ BITS * f[d + 1] + (r + 1) = BITS * f[d + 1] + r + 1
      BY <3>3, <3>4, <3>7, SMTT(30)
    <3> QED BY <3>1, <3>2, <3>5, <3>8
  <2>6. \A m, n \in 1..w : m < n => f[m] < f[n]
    BY <2>1 DEF Located
  <2> QED BY <2>2, <2>4, <2>5, <2>6 DEF LossIsWholeBytes
<1>2. Spec => [](IInv /\ LossInv)
  BY LossInit, LossNext, InductiveInvariant, PTL DEF Spec
<1> QED BY <1>1, <1>2, PTL
=============================================================================
