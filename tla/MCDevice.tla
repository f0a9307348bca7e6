------------------------------ MODULE MCDevice ------------------------------
(* Small instances of Device for TLC. *)
EXTENDS Device

Letters(n) == [i \in 1..n |-> 65]

(* An address whose last two bytes are a legal interval, and one that is   *)
(* too short.                                                              *)
MacRecords == {<<"mac", <<194, 3, 4, 5, 16, 0>>>>, <<"mac", <<7>>>>}

(* The lowest legal interval at the front of a record longer than what is  *)
(* read of it, and half an interval.                                       *)
IntervalRecords == {<<"adv_int", <<32, 0, 9>>>>, <<"adv_int", <<200>>>>}

(* A name that fills the buffer, one that just fits the scan response, an  *)
(* empty one and one that overruns the buffer.                             *)
NameRecords == {<<"name", Letters(NameSize)>>, <<"name", Letters(28)>>,
                <<"name", <<>>>>, <<"name", Letters(NameSize + 1)>>}

AllRecords == MacRecords \cup IntervalRecords \cup NameRecords
=============================================================================
