-------------------------------- MODULE Pow --------------------------------
(***************************************************************************)
(* Difficulty: the compact form of a target, the work of a block, the      *)
(* target required of the next block and the test the headers download     *)
(* applies to a change of target it cannot yet verify (arith_uint256.cpp,  *)
(* chain.cpp, pow.cpp).  A target is a natural number below Top, 2^256 in  *)
(* the code.  The networks modelled retarget and allow no block of minimum *)
(* difficulty (main and signet).                                           *)
(*                                                                         *)
(* A compact target (nBits) is a pair of a unit, 256^k, and a mantissa of  *)
(* at most 23 bits.  Base, Half and Units are 256, 2^15 and the powers of  *)
(* 256 in the code.                                                        *)
(***************************************************************************)
EXTENDS Integers

CONSTANTS
    Base, Half, Units,  \* the compact form: mantissas are below Base * Half
    Top,                \* 2^256
    PowLimit,           \* params.powLimit
    Interval,           \* params.DifficultyAdjustmentInterval()
    Timespan,           \* params.nPowTargetTimespan
    SwitchHeight        \* 3500: the height from which the 15% limit is gone

ASSUME CompactAssumption ==
    /\ Base \in Nat \ {0, 1} /\ Half \in Nat \ {0}
    /\ Units \subseteq Nat \ {0}
    /\ \A u \in Units : u = 1 \/ \E v \in Units : u = Base * v
    /\ \A u, v \in Units : u < v => Base * u <= v

ASSUME ParamsAssumption ==
    /\ Top \in Nat /\ PowLimit \in Nat
    /\ \E u \in Units : PowLimit < Base * Half * u
    /\ Interval \in Nat \ {0}
    /\ Timespan \in Nat \ {0}
    /\ PowLimit * (2 * Timespan) < Top
    /\ SwitchHeight \in Nat
-----------------------------------------------------------------------------
IsUnit(x, u) == u \in Units /\ x < Base * Half * u /\ \A v \in Units : x < Base * Half * v => u <= v

\* The unit GetCompact keeps x in: the least that leaves the sign bit of the
\* mantissa clear.
Unit(x) == CHOOSE u \in Units : IsUnit(x, u)

\* arith_uint256::GetCompact and SetCompact.
GetCompact(x) == <<Unit(x), x \div Unit(x)>>
SetCompact(nBits) == nBits[1] * nBits[2]

\* GetBlockProof: Top \div (target + 1), computed without Top itself.
GetBlockProof(nBits) ==
    LET target == SetCompact(nBits)
    IN  IF target = 0 THEN 0 ELSE ((Top - 1 - target) \div (target + 1)) + 1

\* The old target scaled by timespan / Timespan, in 256 bits, at most PowLimit.
Scaled(nBits, timespan) ==
    LET new == ((SetCompact(nBits) * timespan) % Top) \div Timespan
    IN  IF new > PowLimit THEN PowLimit ELSE new

UpLimit == (Timespan * 100) \div 115
UpLimit3Pct == (Timespan * 100) \div 103
DownLimit == Timespan * 2

\* CalculateNextWorkRequired's limits on the time the last interval took;
\* nHeight is the height of the interval's last block.
Limited(nHeight, actual) ==
    LET up == IF actual < Timespan \div 4 /\ nHeight >= SwitchHeight THEN UpLimit3Pct
              ELSE IF actual < UpLimit /\ nHeight < SwitchHeight THEN UpLimit
              ELSE actual
    IN  IF up > DownLimit THEN DownLimit ELSE up

CalculateNextWorkRequired(nHeight, nBits, actual) ==
    GetCompact(Scaled(nBits, Limited(nHeight, actual)))

\* GetNextWorkRequired for the block after one of height nHeight and target
\* nBits, actual being the time from the interval's first block to it.
GetNextWorkRequired(nHeight, nBits, actual) ==
    IF (nHeight + 1) % Interval # 0 THEN nBits
    ELSE CalculateNextWorkRequired(nHeight, nBits, actual)

\* Mutant: the limit of 15% holds at every height.
SmallestTimespanAlways(height) == UpLimit

SmallestTimespan(height) == IF height <= SwitchHeight THEN UpLimit ELSE Timespan \div 4

\* Rounded(x): x as its compact form has it.
Rounded(x) == SetCompact(GetCompact(x))

PermittedDifficultyTransition(height, old, new) ==
    IF height % Interval = 0
    THEN /\ ~(Rounded(Scaled(old, DownLimit)) < SetCompact(new))
         /\ ~(Rounded(Scaled(old, SmallestTimespan(height))) > SetCompact(new))
    ELSE old = new
=============================================================================
