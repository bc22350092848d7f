------------------------------- MODULE MCQuiet -------------------------------
(* MCProcess with the history of undisturbed attempts. *)
EXTENDS MCProcess, ProcessQuiet

=============================================================================
