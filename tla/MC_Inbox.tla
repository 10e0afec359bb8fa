------------------------------ MODULE MC_Inbox ------------------------------
(* Instances of Inbox for TLC. *)
EXTENDS Inbox

CONSTANTS external, message, result

AllMessages == {external, message, result}
FoldedMessages == {message, result}
PromptMessages == {external, message}
=============================================================================
