------------------------------ MODULE MCProtocol ------------------------------
(***************************************************************************)
(* Texts, modes and occurrences for Protocol: nothing found, one of two    *)
(* occurrences and both, with user data of two bytes and of none, and with *)
(* needles and without.                                                    *)
(***************************************************************************)
EXTENDS Protocol

Long == [data |-> <<71, 72>>, needle |-> <<61, 62>>]
Short == [data |-> <<>>, needle |-> <<62>>]

MCLookup(text) == IF text = <<61, 62>> THEN <<Long, Short>> ELSE <<>>

FirstOnly == 1
Needles == 4
UserData == 8

MCRequests ==
  { [mode |-> FirstOnly, text |-> <<>>],
    [mode |-> FirstOnly + UserData, text |-> <<61, 62>>],
    [mode |-> Needles + UserData, text |-> <<61, 62>>] }

===============================================================================
