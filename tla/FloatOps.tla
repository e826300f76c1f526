------------------------------ MODULE FloatOps ------------------------------
(***************************************************************************)
(* The data part of mydis/type_float.go.  The numbers of Floats stand for  *)
(* the doubles: a range, its two infinities and the value that is no       *)
(* number.                                                                 *)
(***************************************************************************)
EXTENDS Values

IsFloat(v) == Blank(v) \/ v.type = "float"
AsFloat(v) == IF v.type = "float" THEN v.float ELSE 0

\* Addition of doubles: it saturates, and an infinity absorbs what is added.
Plus(a, b) ==
  IF NaN \in {a, b} \/ {a, b} = {Half, -Half} THEN NaN
  ELSE IF Half \in {a, b} \/ a + b > Half THEN Half
  ELSE IF -Half \in {a, b} \/ a + b < -Half THEN -Half
  ELSE a + b

Negated(a) == IF a = NaN THEN NaN ELSE -a

GetFloat(v) ==
  Return(IF v = Absent THEN Err("ErrKeyNotFound")
         ELSE IF IsFloat(v) THEN Ok(FloatV(AsFloat(v)))
         ELSE Err("ErrDecode"))

\* A missing key counts as 0.
IncrementFloat(v, x) ==
  IF v = Absent \/ IsFloat(v)
  THEN Write(EncodeFloat(Plus(AsFloat(v), x)), FloatV(Plus(AsFloat(v), x)))
  ELSE Refuse(Err("ErrDecode"))

DecrementFloat(v, x) == IncrementFloat(v, Negated(x))
=============================================================================
