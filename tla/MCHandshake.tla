----------------------------- MODULE MCHandshake -----------------------------
(***************************************************************************)
(* Handshake for TLC: halves of one bit, two passwords, and a principal for *)
(* each way of allowing payload types.                                     *)
(***************************************************************************)
EXTENDS Handshake

CONSTANTS b, p, q

MCBits == {b}
MCPasswords == {p, q}
MCEntries ==
  [id \in {<<{}, {b}>>, <<{b}, {}>>} |->
     [password |-> IF id[1] = {} THEN p ELSE q,
      types |-> IF id[1] = {} THEN {"AES128"} ELSE {}]]

==============================================================================
