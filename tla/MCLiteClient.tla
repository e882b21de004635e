----------------------------- MODULE MCLiteClient -----------------------------
(* Three servers, as many as the limits of a query allow, and a caller that    *)
(* queries again and again.                                                    *)
EXTENDS LiteClient
===============================================================================
