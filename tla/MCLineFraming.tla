----------------------------- MODULE MCLineFraming -----------------------------
(* A buffer of four bytes, of which lines may have two.                    *)
EXTENDS LineFraming
================================================================================
