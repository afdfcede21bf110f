---------------------------- MODULE MCSfsLayout ----------------------------
(* Every disk of 8, 16, ... 1536 MB.                                        *)
EXTENDS SfsLayout
=============================================================================
