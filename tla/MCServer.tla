------------------------------ MODULE MCServer ------------------------------
(***************************************************************************)
(* One account with two passwords, two sessions, two server processes; a   *)
(* trip with its owner and two people to invite, one of them the account.  *)
(***************************************************************************)
EXTENDS Server

(* A behaviour is about accounts and sockets, about the roster, about the  *)
(* media, or about media while the roster changes.                         *)
MCBudgets ==
    {[account |-> 4, roster |-> 0, media |-> 0],
     [account |-> 0, roster |-> 3, media |-> 0],
     [account |-> 0, roster |-> 0, media |-> 4],
     [account |-> 0, roster |-> 1, media |-> 2]}

(* Three requests suffice to upload, to be refused and to delete.          *)
RemovalBudgets == {[account |-> 0, roster |-> 0, media |-> 3]}
=============================================================================
