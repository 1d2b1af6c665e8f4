------------------------------ MODULE Difficulty ------------------------------
(***************************************************************************)
(* The work a block must show: the legacy rule (a retarget every           *)
(* Interval blocks), the second rule (DAA v2: a retarget with every block, *)
(* over a short window), and the compact form in which a header carries    *)
(* its target.  The form is the code's with a smaller byte: a compact      *)
(* target is <<exponent, mantissa>>, the mantissa has three bytes, and its *)
(* top bit is a sign.                                                      *)
(***************************************************************************)
EXTENDS Integers, Sequences

CONSTANTS Byte,               \* 256
          HashBytes,          \* 32
          PowBits,            \* consensus.pow_bits, genesis_bits
          Spacing,            \* target_spacing_secs
          Interval,           \* difficulty_adjustment_interval
          LegacyFactor,       \* difficulty_max_adjustment_factor
          V2Height,           \* the DAA v2 activation height
          V2Window, V2Factor, \* DAA_V2_WINDOW_BLOCKS, DAA_V2_MAX_ADJUSTMENT_FACTOR
          HeaderBound, TimeBound   \* bounds of the model

ASSUME DifficultyAssumption ==
    /\ Byte \in Nat \ {0, 1} /\ Byte % 2 = 0 /\ HashBytes \in Nat /\ HashBytes > 3
    /\ PowBits[1] \in 1..HashBytes /\ PowBits[2] \in 1..(Byte^3 \div 2) - 1
    /\ Spacing \in Nat \ {0} /\ V2Height \in Nat
    /\ {Interval, LegacyFactor, V2Window, V2Factor} \subseteq Nat \ {0}
    /\ HeaderBound \in Nat /\ TimeBound \in Nat

VARIABLE headers    \* the active chain: [time, bits], the genesis first

AtLeast(n, low) == IF n < low THEN low ELSE n
AtMost(n, high) == IF n > high THEN high ELSE n

-----------------------------------------------------------------------------
(* Compact targets *)

\* target_from_compact; 0 stands for an error.
TargetFromCompact(bits) ==
    LET e == bits[1]  m == bits[2]
    IN  IF m = 0 \/ m >= Byte^3 \div 2 \/ e > HashBytes THEN 0
        ELSE IF e <= 3 THEN m \div Byte^(3 - e) ELSE m * Byte^(e - 3)

\* The three leading bytes of a target of `size' bytes.
Leading(target, size) ==
    IF size <= 3 THEN target * Byte^(3 - size) ELSE target \div Byte^(size - 3)

SizeOf(target) == CHOOSE n \in 1..HashBytes : Byte^(n - 1) <= target /\ target < Byte^n

\* An encoding that writes into the sign.
CompactUnshifted(target) == <<SizeOf(target), Leading(target, SizeOf(target))>>

\* biguint_to_compact: what the mantissa cannot hold is cut off, and a leading
\* bit that would be read as the sign moves the mantissa by a byte.
BiguintToCompact(target) ==
    LET size == SizeOf(target)
        m == Leading(target, size)
    IN  IF m >= Byte^3 \div 2 THEN <<size + 1, m \div Byte>> ELSE <<size, m>>

PowLimit == TargetFromCompact(PowBits)

\* block_work: the expected number of hashes.
BlockWork(bits) == Byte^HashBytes \div (TargetFromCompact(bits) + 1)

-----------------------------------------------------------------------------
(* Retargeting *)

TargetTimespan(window) == Spacing * window

\* The seconds the window took; a clock that ran backwards counts as zero.
Elapsed(blocks, window) ==
    LET n == Len(blocks)
    IN  AtLeast(blocks[n].time - blocks[AtLeast(n - window, 1)].time, 0)

\* retarget_bits: old target * clamped timespan / target timespan, at least
\* one, at most the limit.
RetargetBits(blocks, window, factor) ==
    LET f == AtLeast(factor, 2)
        timespan == AtMost(AtLeast(Elapsed(blocks, window),
                                   AtLeast(TargetTimespan(window) \div f, 1)),
                           TargetTimespan(window) * f)
        old == TargetFromCompact(blocks[Len(blocks)].bits)
        new == (old * timespan) \div TargetTimespan(window)
    IN  BiguintToCompact(AtMost(AtLeast(new, 1), PowLimit))

\* required_work_bits_legacy: the window, 0 for no retarget.
LegacyWindow(blocks) ==
    IF Interval = 1 \/ (Len(blocks) - 1) % Interval # 0 \/ Len(blocks) <= Interval
    THEN 0 ELSE Interval

\* required_work_bits_v2
V2WindowOf(blocks) ==
    IF Len(blocks) - 1 < 2 THEN 0 ELSE AtLeast(AtMost(V2Window, Len(blocks) - 1), 2)

\* daa_v2_active, for the block to come.
DaaV2Active(blocks) == Len(blocks) >= V2Height

RetargetWindow(blocks) == IF DaaV2Active(blocks) THEN V2WindowOf(blocks) ELSE LegacyWindow(blocks)
RetargetFactor(blocks) == AtLeast(IF DaaV2Active(blocks) THEN V2Factor ELSE LegacyFactor, 2)

\* required_work_bits: the block at height Len(blocks).
RequiredWorkBits(blocks) ==
    IF Len(blocks) <= 1 THEN PowBits
    ELSE IF RetargetWindow(blocks) = 0 THEN blocks[Len(blocks)].bits
    ELSE RetargetBits(blocks, RetargetWindow(blocks), RetargetFactor(blocks))

-----------------------------------------------------------------------------
DifficultyInit == headers = <<[time |-> 0, bits |-> PowBits]>>

\* connect_block: the bits are the required ones, the time is any that is not
\* too far ahead of the clock; nothing bounds it from below.
ConnectHeader ==
    \E t \in 0..TimeBound :
        /\ Len(headers) < HeaderBound
        /\ headers' = Append(headers, [time |-> t, bits |-> RequiredWorkBits(headers)])

DifficultySpec == DifficultyInit /\ [][ConnectHeader]_headers

\* Every target on the chain can be read back and is within the limit, so that
\* the next block can always be made and checked.  A retarget follows the clock
\* and no rounding of the compact form turns it round: a window as slow as the
\* target spacing, or slower, never hardens, one as fast or faster never eases,
\* and no step eases by more than the factor (lib.rs retarget_bits).  And a
\* harder block never counts less work.
RetargetSound ==
    /\ LET target == TargetFromCompact(headers[Len(headers)].bits)
       IN  0 < target /\ target <= PowLimit
    /\ Len(headers) > 1 =>
          LET before == SubSeq(headers, 1, Len(headers) - 1)
              window == RetargetWindow(before)
              old == TargetFromCompact(before[Len(before)].bits)
              new == TargetFromCompact(headers[Len(headers)].bits)
          IN  /\ window = 0 => new = old
              /\ window > 0 /\ Elapsed(before, window) >= TargetTimespan(window) => new >= old
              /\ window > 0 /\ Elapsed(before, window) <= TargetTimespan(window) => new <= old
              /\ new <= old * RetargetFactor(before)
              /\ new <= old => BlockWork(headers[Len(headers)].bits)
                                   >= BlockWork(before[Len(before)].bits)

=============================================================================
