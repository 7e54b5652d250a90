------------------------------ MODULE MCScreen ------------------------------
(***************************************************************************)
(* The screen for TLC.                                                     *)
(***************************************************************************)
EXTENDS Screen

(* Lines that fill, overflow and leave a row; and one with a blank in it   *)
MCStrings ==
  { <<"A">>, <<"A", "B", "A", "B", Newline>>, <<"B", " ", "A">>, <<Newline, "B">> }

MCDisplacements == {<<1, 0>>, <<-2, 0>>, <<0, 1>>, <<1, -3>>}
=============================================================================
