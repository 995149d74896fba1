---------------------------- MODULE MCTicketFiles ----------------------------
(* Instances of TicketFiles: one attachment and one upload of the same     *)
(* content.                                                                *)
EXTENDS TicketFiles
SameContent(a) == "blob"
=============================================================================
