----------------------------- MODULE MCSerialIO -----------------------------
(* Instances of SerialIO for TLC. *)
EXTENDS SerialIO

(* No region, one, and two of different sizes. *)
SomeSizes == {<<>>, <<1>>, <<1, 2>>}
(* A task without data may be two operations ahead after a read. *)
WriteReadReadWrite == <<"write", "read", "read", "write">>
=============================================================================
