------------------------------ MODULE MCSession ------------------------------
(***************************************************************************)
(* Threads of the simulation server calling the session store.             *)
(***************************************************************************)
EXTENDS SewSession

=============================================================================
