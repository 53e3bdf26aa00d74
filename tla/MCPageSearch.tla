------------------------------ MODULE MCPageSearch ------------------------------
(***************************************************************************)
(* Pages of up to three glyphs of two letters and blanks, in two styles;   *)
(* patterns with blanks in all places.                                     *)
(***************************************************************************)
EXTENDS PageSearch

CONSTANTS a, b

MCPatterns ==
    {<<a>>, <<a, b>>, <<Blank>>, <<a, Blank>>, <<Blank, a>>, <<a, Blank, b>>,
     <<Blank, Blank>>, <<Blank, a, Blank>>}
================================================================================
