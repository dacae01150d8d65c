--------------------------- MODULE MCAddressBook ---------------------------
(* An address book of two ids, one or two jobs, for TLC.                   *)
EXTENDS AddressBook, TLC

CONSTANTS id1, id2, j1, j2, b1, b2, b3
============================================================================
