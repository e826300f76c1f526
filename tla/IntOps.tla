------------------------------- MODULE IntOps -------------------------------
(***************************************************************************)
(* The data part of mydis/type_int.go: what a handler answers or writes    *)
(* when it finds v stored at its key.                                      *)
(***************************************************************************)
EXTENDS Values

IsInt(v) == Blank(v) \/ v.type = "int"
AsInt(v) == IF v.type = "int" THEN v.int ELSE 0

GetInt(v) ==
  Return(IF v = Absent THEN Err("ErrKeyNotFound")
         ELSE IF IsInt(v) THEN Ok(NumV(AsInt(v)))
         ELSE Err("ErrDecode"))

\* Mutant: the sum is stored wider than the code's int64.
IncrementIntWide(v, n) ==
  IF v = Absent \/ IsInt(v)
  THEN Write(EncodeInt(AsInt(v) + n), NumV(AsInt(v) + n))
  ELSE Refuse(Err("ErrDecode"))

\* A missing key counts as 0; the sum has the width of the code's int64.
IncrementInt(v, n) ==
  IF v = Absent \/ IsInt(v)
  THEN LET sum == Wrap(AsInt(v) + n)
       IN  Write(EncodeInt(sum), NumV(sum))
  ELSE Refuse(Err("ErrDecode"))

DecrementInt(v, n) == IncrementInt(v, Wrap(-n))
=============================================================================
