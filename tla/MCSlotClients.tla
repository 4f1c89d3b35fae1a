---------------------------- MODULE MCSlotClients ----------------------------
(***************************************************************************)
(* An instance of SlotClients for TLC: messages of one byte, programs for  *)
(* two channels, and one whose ioctl is refused.                           *)
(***************************************************************************)
EXTENDS SlotClients

CONSTANTS short

MCPrograms == {Sender(short, 2), Reader(1), Reader(0)}

MCLength == [w \in Messages |-> 1]
==============================================================================
