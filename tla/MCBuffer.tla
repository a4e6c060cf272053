------------------------------ MODULE MCBuffer -------------------------------
(* Class Buffer with bytes of two values, integers of one and two bytes    *)
(* and room for a handful of bytes.                                        *)
EXTENDS Buffer

MCWidths == {1, 2}
=============================================================================
