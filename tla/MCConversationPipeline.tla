----------------------- MODULE MCConversationPipeline -----------------------
(* Values for the constants of ConversationPipeline. *)
EXTENDS ConversationPipeline
CONSTANTS c1, c2, c3, c4, r1, r2

\* Two proper conversations, the second captured earlier than the first, and
\* one that is refused and one that is dropped.
AllKinds ==
    [c \in Conversations |-> CASE c = c3 -> "invalid" [] c = c4 -> "noise"
                               [] OTHER -> "valid"]
CaptureTimes ==
    [c \in Conversations |-> CASE c = c1 -> 2 [] c = c2 -> 1 [] c = c3 -> 3 [] OTHER -> 4]
=============================================================================
