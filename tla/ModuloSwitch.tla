---------------------------- MODULE ModuloSwitch ----------------------------
(***************************************************************************)
(* The packing of hints and answers (src/go/more_utils.go, ModuloSwitch,   *)
(* ModuloSwitchLength and ModuloSwitchBack): each 32-bit element is        *)
(* rounded, up or down at random, to its MOD_SWITCH_BITS top bits; these   *)
(* are packed without gaps into 32-bit words, and unpacked again by        *)
(* reading four bytes at the byte each element starts in.                  *)
(*                                                                         *)
(* The widths are parameters, so that small words can be checked; a word   *)
(* is four bytes, as PutUint32 has it.                                     *)
(***************************************************************************)
EXTENDS Integers, Sequences, Sums

CONSTANTS Byte,     \* BYTE_BITS
          Bits,     \* MOD_SWITCH_BITS
          Values,   \* the elements a matrix may have
          MaxLen    \* bound on the elements of a matrix

Word == 4 * Byte

\* An element has more than two bytes (19 bits, bytes of 8): were it shorter
\* than two, the length could fall short of the last word read.  With the bits
\* below it in its first byte it has no more than a word.
ASSUME WidthAssumption == /\ Byte \in Nat \ {0} /\ Bits \in Nat
                          /\ 2 * Byte < Bits /\ Bits + Byte - 1 <= Word
                          /\ Values \subseteq 0 .. Power(2, Word) - 1
                          /\ MaxLen \in Nat

VARIABLES matrix,        \* the elements
          rounded,       \* integer, of each element so far
          floating, floatingBits, outputIndex,
          output,        \* the bytes, as the words written so far: index -> word
          switched,      \* the elements that came back
          stage          \* "pack", "unpack" or "done"

packingVars == <<matrix, rounded, floating, floatingBits, outputIndex, output, switched, stage>>

-----------------------------------------------------------------------------
\* Mutant: a length that is a multiple of four is left as it is.
NoSlack(length) == (4 - (length % 4)) % 4

\* Fills up to a multiple of four, with four bytes more where it is one.
Slack(length) == 4 - (length % 4)

ModuloSwitchLength(elements) ==
  LET length == (elements * Bits) \div Byte
                + (IF (elements * Bits) % Byte # 0 THEN 1 ELSE 0)
  IN  length + Slack(length)

Length == ModuloSwitchLength(Len(matrix))

PackingInit ==
  /\ matrix \in UNION {[1 .. n -> Values]: n \in 0 .. MaxLen}
  /\ rounded = <<>>
  /\ floating = 0 /\ floatingBits = 0 /\ outputIndex = 0
  /\ output = [k \in 0 .. Length \div 4 - 1 |-> 0]
  /\ switched = <<>>
  /\ stage = "pack"

\* The bits of a number, and x | y of two numbers that fit in a word.
Bit(x, k) == (x \div Power(2, k)) % 2
Or(x, y) == Sum(Word + 1, [k \in 0 .. Word |->
                             IF Bit(x, k) = 1 \/ Bit(y, k) = 1 THEN Power(2, k) ELSE 0])

\* What is dropped of an element.
OneUnit == Power(2, Word - Bits)

\* floor or, where a decimal remains, by chance ceil.
Roundings(x) == {x \div OneUnit} \cup (IF x % OneUnit # 0 THEN {x \div OneUnit + 1} ELSE {})

\* The word with the new bits above the floating ones; the shift drops what
\* leaves the word.  A rounding up to 2^Bits has one bit too many.
Joined(integer) == Or((integer * Power(2, floatingBits)) % Power(2, Word), floating)

\* Mutant: the bits the word had no room for are dropped.
NoRest(integer, bits) == 0

\* Mutant: all the bits of the integer are carried over.
UnshiftedRest(integer, bits) == integer

\* The bits of the integer that the full word had no room for.
Rest(integer, bits) == integer \div Power(2, Bits - bits)

Pack ==
  /\ stage = "pack" /\ Len(rounded) < Len(matrix)
  /\ \E integer \in Roundings(matrix[Len(rounded) + 1]):
       /\ rounded' = Append(rounded, integer)
       /\ IF floatingBits + Bits >= Word
            THEN /\ output' = [output EXCEPT ![outputIndex \div 4] = Joined(integer)]
                 /\ floatingBits' = floatingBits + Bits - Word
                 /\ floating' = Rest(integer, floatingBits')
                 /\ outputIndex' = outputIndex + 4
            ELSE /\ floating' = Joined(integer)
                 /\ floatingBits' = floatingBits + Bits
                 /\ UNCHANGED <<output, outputIndex>>
  /\ UNCHANGED <<matrix, switched, stage>>

\* The final floating bits.
Flush ==
  /\ stage = "pack" /\ Len(rounded) = Len(matrix)
  /\ output' = IF floatingBits > 0 THEN [output EXCEPT ![outputIndex \div 4] = floating] ELSE output
  /\ stage' = "unpack"
  /\ UNCHANGED <<matrix, rounded, floating, floatingBits, outputIndex, switched>>

\* Byte k of the message, and the four bytes from byte k on as a word.
ByteAt(k) == (output[k \div 4] \div Power(2, Byte * (k % 4))) % Power(2, Byte)
WordAt(k) == ByteAt(k) + Power(2, Byte) * ByteAt(k + 1) + Power(2, 2 * Byte) * ByteAt(k + 2)
             + Power(2, 3 * Byte) * ByteAt(k + 3)

\* Mutant: only whole bytes are shifted away.
UnalignedShift(bit) == 0

\* The bits of the word below the element.
Shift(bit) == bit % Byte

\* The bit element i starts at.
StartBit(i) == (i - 1) * Bits

UnpackOne(i) ==
  ((WordAt(StartBit(i) \div Byte) \div Power(2, Shift(StartBit(i)))) * OneUnit) % Power(2, Word)

Unpack ==
  /\ stage = "unpack"
  /\ StartBit(Len(matrix)) \div Byte + 4 <= Length
  /\ switched' = [i \in 1 .. Len(matrix) |-> UnpackOne(i)]
  /\ stage' = "done"
  /\ UNCHANGED <<matrix, rounded, floating, floatingBits, outputIndex, output>>

PackingEnded == stage = "done" /\ UNCHANGED packingVars

PackingNext == Pack \/ Flush \/ Unpack \/ PackingEnded

PackingSpec == PackingInit /\ [][PackingNext]_packingVars /\ WF_packingVars(PackingNext)

-----------------------------------------------------------------------------
\* Types.
PackingTypeOK ==
  /\ \A i \in 1 .. Len(rounded): rounded[i] \in 0 .. Power(2, Bits)
  /\ floatingBits \in 0 .. Word - 1
  /\ floating \in 0 .. Power(2, floatingBits + 1) - 1
  /\ outputIndex * Byte + floatingBits = Len(rounded) * Bits
  /\ stage \in {"pack", "unpack", "done"}

\* No word is written, and none is read, beyond the end of the message, the
\* length of which both sides compute on their own: slicing beyond it would
\* panic (more_utils.go:167-175, 206, 216, 232).
StaysInside ==
  /\ stage = "pack" /\ (Len(rounded) < Len(matrix) \/ floatingBits > 0) =>
        outputIndex + 4 <= Length
  /\ stage = "unpack" /\ matrix # <<>> => StartBit(Len(matrix)) \div Byte + 4 <= Length

\* Each element comes back as the rounding of it; only one that follows a
\* rounding up to 2^Bits, whose top bit lands on it, may have its last bit
\* set.  What follows is not disturbed any further (more_utils.go:200-210).
ComesBackRounded ==
  stage = "done" =>
     \A i \in 1 .. Len(matrix):
        \/ switched[i] = (rounded[i] % Power(2, Bits)) * OneUnit
        \/ /\ i > 1 /\ rounded[i - 1] = Power(2, Bits)
           /\ switched[i] = (Or(rounded[i], 1) % Power(2, Bits)) * OneUnit

\* The noise this adds to an element is less than two units, around the
\* modulus (RecoverColumn rounds it away together with the LWE noise).
NoiseBelowTwoUnits ==
  stage = "done" =>
     \A i \in 1 .. Len(matrix):
        \/ (switched[i] - matrix[i]) % Power(2, Word) < 2 * OneUnit
        \/ (matrix[i] - switched[i]) % Power(2, Word) < OneUnit
=============================================================================
