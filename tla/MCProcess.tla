----------------------------- MODULE MCProcess -----------------------------
(* Process on small instances. *)
EXTENDS Process, TLC

\* The value of the mask as an unsigned word of PCB_SIZE bits.
Word(mask) ==
  LET bits[i \in 0..PCB_SIZE] ==
        IF i = 0 THEN 0
        ELSE bits[i - 1] + (IF i - 1 \in mask THEN 2^(i - 1) ELSE 0)
  IN  bits[PCB_SIZE]

\* ClearBit is subtraction modulo the word size.
ASSUME ClearBitIsSubtraction ==
  \A mask \in SUBSET PID, i \in PID :
    Word(ClearBit(mask, i)) = (Word(mask) - 2^i) % 2^PCB_SIZE

StackSymmetry == Permutations(Stacks)
=============================================================================
