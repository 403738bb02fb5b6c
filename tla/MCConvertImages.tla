-------------------------- MODULE MCConvertImages ---------------------------
(* Conversions of the same image and of different images.                   *)
EXTENDS ConvertImages, TLC
CONSTANTS r1, r2, r3, a, b, c
TwoOfOne == r1 :> a @@ r2 :> a @@ r3 :> b
=============================================================================
