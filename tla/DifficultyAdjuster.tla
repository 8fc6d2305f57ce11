-------------------------- MODULE DifficultyAdjuster --------------------------
(***************************************************************************)
(* The difficulty calculator of src/src/consensus/difficulty.cpp, which    *)
(* the chain does not call: Blockchain::adjustDifficulty has rules of its  *)
(* own.  Block times come from the system clock and may run backwards.     *)
(***************************************************************************)
EXTENDS Integers

CONSTANTS TargetBlockTime,    \* TARGET_BLOCK_TIME
          AdjustmentInterval  \* ADJUSTMENT_INTERVAL

Expected == TargetBlockTime * AdjustmentInterval

\* At most four times off, MAX_ADJUSTMENT.
Clamped(elapsed) ==
  IF elapsed < Expected \div 4 THEN Expected \div 4
  ELSE IF elapsed > Expected * 4 THEN Expected * 4 ELSE elapsed

\* Mutant: there is no highest difficulty.
CalculateUncapped(current, first, last) ==
  LET elapsed == Clamped(last - first)
  IN  IF elapsed < Expected THEN current + 1
      ELSE IF elapsed > Expected /\ current > 1 THEN current - 1 ELSE current

Calculate(current, first, last) ==
  LET elapsed == Clamped(last - first)
  IN  IF elapsed < Expected THEN (IF current + 1 < 32 THEN current + 1 ELSE 32)
      ELSE IF elapsed > Expected /\ current > 1 THEN current - 1 ELSE current

NeedsAdjustment(height) == height > 0 /\ height % AdjustmentInterval = 0

NextAdjustmentBlock(height) == ((height \div AdjustmentInterval) + 1) * AdjustmentInterval
=============================================================================
