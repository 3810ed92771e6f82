----------------------------- MODULE MCChangeLog -----------------------------
(* Two families share the sequence; a device of one pulls while three        *)
(* connections write.                                                        *)
EXTENDS ChangeLog

CONSTANTS f1, f2, w1, w2, w3, r1

MCFamilyOf == [r \in Readers |-> f1]

=============================================================================
