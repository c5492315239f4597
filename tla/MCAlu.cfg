SPECIFICATION Spec
CONSTANT WordBits = 6
INVARIANTS FloorDivision BitLenBrackets BitwiseAgree TriuDense
