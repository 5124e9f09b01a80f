---------------------------------- MODULE MCViews ----------------------------------
(* An instance of StacksAnalysis and Views for TLC. *)
EXTENDS Views

CONSTANTS m1, m2, f, g, a, b

\* A function seen on two lines, once of a file that was included; a function with
\* the same name in another module; and one without a file.
MCFrames ==
  {[module |-> m1, symbol |-> f, file |-> a, line |-> 1],
   [module |-> m1, symbol |-> f, file |-> b, line |-> 2],
   [module |-> m2, symbol |-> f, file |-> a, line |-> 1],
   [module |-> m1, symbol |-> g, file |-> NoFile, line |-> 1]}

MCResolution == <<2, 5>>
MCAlphabet == <<g, f>>
MCOtherProcess == <<0, 1>>
=============================================================================
