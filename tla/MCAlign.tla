------------------------------ MODULE MCAlign ------------------------------
(* Words of five bits: five alignments, and every usize.  Powers of two up *)
(* to 2^5, whose exponents are in a byte of twelve values.                 *)
EXTENDS Align

PowersOfTwo[i \in 0 .. Bits] == IF i = 0 THEN 1 ELSE 2 * PowersOfTwo[i - 1]
ValuesOfPowers[e \in Exponents] == IF e = 0 THEN 1 ELSE 2 * ValuesOfPowers[e - 1]
=============================================================================
