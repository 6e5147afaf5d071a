------------------------------ MODULE MCErrno ------------------------------
(* Every message of up to six bytes over two letters and malformed parts,  *)
(* in buffers of six bytes: some just fit, some only before replacements.  *)
EXTENDS Errno

TwoLetters == {"a", "b"}

ShortMessages == UNION {[1 .. n -> TwoLetters \cup {"bad"}] : n \in 0 .. 6}
=============================================================================
