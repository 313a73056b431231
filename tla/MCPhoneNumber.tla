--------------------------- MODULE MCPhoneNumber ---------------------------
(* A small instance of PhoneNumber.                                          *)
EXTENDS PhoneNumber

\* The two codes that PreparePhoneNumber writes alike, and a foreign one.
CodesAndOther == {"7", "8", "1"}
=============================================================================
