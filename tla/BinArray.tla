------------------------------ MODULE BinArray ------------------------------
(***************************************************************************)
(* BinArray/BinArray.c: an array of bits in memory that is read and        *)
(* written in words of K bytes, two bytes, and bytes (K is 8 and BYTE is 8 *)
(* in the program).  The machine is little-endian, so memory is a set: the *)
(* addresses of the bits that are 1, counted from the start of buf_; a     *)
(* value of n bits is the set of those of 0..n-1 that are 1.               *)
(*                                                                         *)
(* What the functions do to bits past num_bits_ matters, for they share    *)
(* the last word, and baResize may bring them back.                        *)
(***************************************************************************)
EXTENDS Integers, Sequences, FiniteSetsExt

CONSTANTS
  BYTE,      \* bits in a byte
  K,         \* bytes in a uint64_t
  Sizes,     \* the sizes a caller asks for
  MaxCalls   \* the calls after baCreate

ASSUME WidthAssumption == BYTE \in Nat \ {0} /\ K \in Nat \ {0, 1}
ASSUME SizesAssumption == Sizes \subseteq Nat \ {0} /\ MaxCalls \in Nat

VARIABLES
  buf_,
  num_bits_,
  calls      \* how many there have been

array == <<buf_, num_bits_, calls>>

WORD == K * BYTE
Word == 0..(WORD - 1)

WordsTruncated(num_bits) == num_bits \div WORD

baGetSizeArrayIn8Byte(num_bits) ==
  (num_bits \div WORD) + IF num_bits % WORD # 0 THEN 1 ELSE 0

baBits2Bytes(num_bits) ==
  (num_bits \div BYTE) + IF num_bits % BYTE # 0 THEN 1 ELSE 0

(* The bits that were allocated.                                           *)
Allocated(num_bits) == 0..(WORD * baGetSizeArrayIn8Byte(num_bits) - 1)

Load(buf, at, size) == {x - at : x \in buf \cap at..(at + size - 1)}
Store(buf, at, size, value) ==
  (buf \ at..(at + size - 1)) \cup {x + at : x \in value \cap 0..(size - 1)}
Shr(value, n) == {x - n : x \in {y \in value : y >= n}}

(* >> of an int64_t: the sign fills the top.                               *)
Sar(value, n) ==
  Shr(value, n) \cup IF WORD - 1 \in value THEN (WORD - n)..(WORD - 1) ELSE {}

-----------------------------------------------------------------------------
(* baCheckCalcArg: the ranges it accepts, with -1 replaced by what it      *)
(* stands for.  No begin or len is beyond num_bits_ here: the code adds    *)
(* the two in size_t, and takes a pair whose sum wraps for a range.        *)
Ranges ==
  {r \in [begin : 0..num_bits_, len : 0..num_bits_] :
     r.begin + r.len < num_bits_ + 1}

Bits(r) == r.begin..(r.begin + r.len - 1)

LowBitsShort(len) == 0..(len - 2)

(* _baGetMaskLastQWord; a shift by all 64 bits leaves the word as it is on *)
(* the machine, so the mask for no bits has them all.                      *)
LowBits(len) == IF len = 0 THEN Word ELSE 0..(len - 1)

(* The bits that the masks and the memset of baFillOne cover, and the      *)
(* words that they go through.                                             *)
FirstWord(r) == WORD * (r.begin \div WORD)
InOneWord(r) == (r.begin % WORD) + r.len <= WORD

Cover(r) ==
  LET rshift == r.begin % WORD
      first == {r.begin + x : x \in {y \in LowBits(r.len) : rshift + y < WORD}}
      rlen == WORD - rshift
      num_u64 == baGetSizeArrayIn8Byte(r.len - rlen) - 1
      full == (r.begin + rlen)..(r.begin + rlen + WORD * num_u64 - 1)
      last == {r.begin + rlen + WORD * num_u64 + x :
                 x \in LowBits(r.len - rlen - WORD * num_u64)}
  IN IF InOneWord(r) THEN first
     ELSE (r.begin)..(r.begin + rlen - 1) \cup full \cup last

EdgeWords(r) ==
  LET end == WORD * ((r.begin + r.len - 1) \div WORD)
      word(at) == at..(at + WORD - 1)
  IN IF InOneWord(r) THEN word(FirstWord(r))
                     ELSE word(FirstWord(r)) \cup word(end)

baFillOne(r) == (buf_ \cup Cover(r)) \cap Allocated(num_bits_)
baFillZero(r) == buf_ \ Cover(r)

(* Without the loop over the words between the first and the last.         *)
baInvertEdges(r) ==
  (buf_ \ EdgeWords(r)) \cup ((Cover(r) \cap EdgeWords(r)) \ buf_)

(* In the first and the last word the bits outside the mask become 0.  The *)
(* loop takes the words it flips off len once too often for each (line     *)
(* 671), which the mask forgets: it takes len modulo the word.             *)
baInvert(r) ==
  ((buf_ \ (Cover(r) \cup EdgeWords(r))) \cup (Cover(r) \ buf_))
    \cap Allocated(num_bits_)

(* Whole words, then whole bytes, into memory full of zeros.               *)
baGetInvert ==
  LET num_u64 == num_bits_ \div WORD
      num_u8 == baBits2Bytes(num_bits_ % WORD)
  IN 0..(WORD * num_u64 + BYTE * num_u8 - 1) \ buf_

-----------------------------------------------------------------------------
(* baFindOne and baFindZero: the place of the first val.  (baFind itself   *)
(* ignores its range and calls one of them for the whole array.)           *)

Ffs(value) == IF value = {} THEN -1 ELSE Min(value)

Wanted(value, val) == IF val THEN value ELSE Word \ value

(* From a word boundary at pos on: len bits.                               *)
FindInWords(pos, len, val) ==
  LET word(i) == Wanted(Load(buf_, pos + WORD * i, WORD), val)
      hits == {i \in 0..(baGetSizeArrayIn8Byte(len) - 1) : word(i) # {}}
      i == Min(hits)
      add_pos == Ffs(word(i))
  IN IF hits # {} /\ add_pos < len THEN WORD * i + pos + add_pos ELSE -1

baFindVal(r, val) ==
  LET rshift == r.begin % WORD
      first_qword == Load(buf_, FirstWord(r), WORD)
      pos == Ffs(IF val THEN Shr(first_qword, rshift)
                        ELSE Word \ Sar(first_qword, rshift))
  IN IF rshift = 0 THEN FindInWords(r.begin, r.len, val)
     ELSE IF InOneWord(r)
       THEN IF pos # -1 /\ pos < r.len THEN r.begin + pos ELSE -1
     ELSE IF pos # -1 THEN r.begin + pos
     ELSE FindInWords(r.begin + WORD - rshift, r.len - (WORD - rshift), val)

-----------------------------------------------------------------------------
(* baGetSubArray: the stores of its loops, as the byte they are at and the *)
(* bytes they read and write.  Each overwrites the end of the one before.  *)

over_bytes(r) == baBits2Bytes(r.len + (r.begin % BYTE))

(* The copy is taken to have a byte less than the range lies in.           *)
SizesDifferAlways(r) == TRUE

SizesDiffer(r) == over_bytes(r) # baBits2Bytes(r.len)

Stores(r) ==
  LET num_u56 == IF baBits2Bytes(r.len) < K THEN 0
                 ELSE (over_bytes(r) - 1) \div (K - 1)
      next == (K - 1) * num_u56
      left == over_bytes(r) - next - IF SizesDiffer(r) THEN 2 ELSE 1
      num_u8 == Max({left, 0})
  IN [i \in 1..num_u56 |-> [at |-> (K - 1) * (i - 1), from |-> K, to |-> K]]
     \o [i \in 1..num_u8 |-> [at |-> next + i - 1, from |-> 2, to |-> 2]]
     \o << [at |-> next + num_u8,
            from |-> IF SizesDiffer(r) THEN 2 ELSE 1, to |-> 1] >>

(* One turn of a loop: a load, a shift and a store.                        *)
Move(r, sub_buf, s) ==
  Store(sub_buf, BYTE * s.at, BYTE * s.to,
        Shr(Load(buf_, BYTE * (r.begin \div BYTE) + BYTE * s.at, BYTE * s.from),
            r.begin % BYTE))

baGetSubArray(r) ==
  LET sub_buf[n \in 0..Len(Stores(r))] ==
        IF n = 0 THEN {} ELSE Move(r, sub_buf[n - 1], Stores(r)[n])
  IN IF r.begin % BYTE = 0
       THEN Load(buf_, BYTE * (r.begin \div BYTE), BYTE * baBits2Bytes(r.len))
       ELSE sub_buf[Len(Stores(r))] \cap Allocated(r.len)

-----------------------------------------------------------------------------
(* A caller: baCreate, and then MaxCalls calls at the most.                *)

Create ==
  /\ num_bits_ \in Sizes
  /\ buf_ = {}
  /\ calls = 0

Calling == calls < MaxCalls /\ calls' = calls + 1

(* What realloc adds is not initialised: all zeros, all ones or one 1 here.*)
Resize(new_num_bits) ==
  LET added == Allocated(new_num_bits) \ Allocated(num_bits_) IN
  /\ Calling
  /\ num_bits_' = new_num_bits
  /\ \E garbage \in {{}, added} \cup {{x} : x \in added} :
       buf_' = (buf_ \cap Allocated(new_num_bits)) \cup garbage

(* The check lets num_bits_ itself through.                                *)
SetValue(num_bit, val) ==
  /\ Calling
  /\ buf_' = IF val THEN (buf_ \cup {num_bit}) \cap Allocated(num_bits_)
                    ELSE buf_ \ {num_bit}
  /\ UNCHANGED num_bits_

Fill(r) ==
  /\ Calling
  /\ buf_' \in {baFillOne(r), baFillZero(r)}
  /\ UNCHANGED num_bits_

FillFull ==
  /\ Calling
  /\ buf_' \in {{}, Allocated(num_bits_)}
  /\ UNCHANGED num_bits_

Invert(r) ==
  /\ Calling
  /\ buf_' = baInvert(r)
  /\ UNCHANGED num_bits_

(* The caller goes on with the new array.                                  *)
GetInvert ==
  /\ Calling
  /\ buf_' = baGetInvert
  /\ UNCHANGED num_bits_

GetSubArray(r) ==
  /\ Calling
  /\ r.len > 0
  /\ buf_' = baGetSubArray(r)
  /\ num_bits_' = r.len

Call ==
  \/ \E n \in Sizes : Resize(n)
  \/ \E i \in 0..num_bits_, val \in BOOLEAN : SetValue(i, val)
  \/ \E r \in Ranges : Fill(r) \/ Invert(r) \/ GetSubArray(r)
  \/ FillFull
  \/ GetInvert

AnyCalls == Create /\ [][Call]_array

-----------------------------------------------------------------------------
NonEmpty == {r \in Ranges : r.len > 0}

(* baFillOne and baFillZero change the bits of the range and no other bit  *)
(* of the words they share (lines 507-527, 539-559).                       *)
FillIsExact ==
  \A r \in NonEmpty : /\ baFillOne(r) = buf_ \cup Bits(r)
                      /\ baFillZero(r) = buf_ \ Bits(r)

(* Where the range has the bit, baFindOne and baFindZero return the first  *)
(* one; where it has not, no place in the range (lines 387-485).           *)
FindIsFirst ==
  \A r \in Ranges, val \in BOOLEAN :
    LET found == {x \in Bits(r) : (x \in buf_) = val} IN
    IF found # {} THEN baFindVal(r, val) = Min(found)
                  ELSE baFindVal(r, val) \notin Bits(r)

(* baGetSubArray copies the range, whichever of its three loops moves the  *)
(* bytes (lines 228-259).                                                  *)
SubArrayIsSlice ==
  \A r \in NonEmpty :
    baGetSubArray(r) \cap 0..(r.len - 1) = Load(buf_, r.begin, r.len)

(* baInvert flips the bits of the range and leaves the words it does not   *)
(* go through; on a whole array it agrees with baGetInvert (643-717).      *)
InvertFlips ==
  /\ \A r \in NonEmpty :
       /\ baInvert(r) \cap Bits(r) = Bits(r) \ buf_
       /\ baInvert(r) \ (Bits(r) \cup EdgeWords(r))
            = buf_ \ (Bits(r) \cup EdgeWords(r))
  /\ baInvert([begin |-> 0, len |-> num_bits_]) \cap 0..(num_bits_ - 1)
       = baGetInvert \cap 0..(num_bits_ - 1)

(* baFindOne finds something exactly where baForeach sees a one            *)
(* (tests/BinArray_Tests.cpp, 507-511).  The code finds ones beyond the    *)
(* end too, which baFillOneFull and baResize leave there.                  *)
FindAgreesWithForeach ==
  baFindVal([begin |-> 0, len |-> num_bits_], TRUE) # -1
    <=> \E i \in 0..(num_bits_ - 1) : i \in buf_
=============================================================================
