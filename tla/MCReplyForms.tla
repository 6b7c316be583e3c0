---------------------------- MODULE MCReplyForms ----------------------------
(***************************************************************************)
(* Email outreach as MCEmailOutreach instantiates it, and the pages a      *)
(* reply is reviewed from.  They share no state: each is explored with the *)
(* other at rest.                                                          *)
(***************************************************************************)
EXTENDS MCEmailOutreach, ReviewForms

CONSTANTS t1, t2

MCInit == OutreachInit /\ FormsInit

MCNext ==
    \/ FormsInit /\ OutreachNext /\ UNCHANGED formVars
    \/ OutreachInit /\ FormsNext /\ UNCHANGED vars

MCSpec == MCInit /\ [][MCNext]_<<vars, formVars>>

=============================================================================
