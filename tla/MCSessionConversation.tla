----------------------- MODULE MCSessionConversation -----------------------
(* Instances of SessionConversation for TLC.                               *)
EXTENDS SessionConversation

MCPromptCosts == {1, 3}
MCOnePromptCost == {3}
MCSummaryCosts == {1}

=============================================================================
