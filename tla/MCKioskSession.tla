---------------------------- MODULE MCKioskSession ----------------------------
(* One account, at one kiosk: his own PIN, and his own password. *)
EXTENDS KioskSession
=============================================================================
