--------------------------- MODULE MCConversations ---------------------------
(* Model checking instances of Conversations and Inbox.                    *)
EXTENDS ConversationsInv, ConversationsRefinement, Inbox, TLC

\* Message ids are request names, so requests are interchangeable.
RequestSymmetry == Permutations(Requests)

\* So are the names of groups, which are only compared.
GroupSymmetry == Permutations(Requests) \cup Permutations(GroupNames)
=============================================================================
