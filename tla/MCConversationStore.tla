------------------------- MODULE MCConversationStore -------------------------
(* Instances of ConversationStore for TLC: a few interchangeable ids.      *)
EXTENDS ConversationStore, TLC

IdSymmetry == Permutations(Ids)

(* Bound: crashes, todos and handlers that hold a conversation across an   *)
(* await are explored beside one conversation in memory and in the stores; *)
(* two conversations without them, from the first boot on.                 *)
OneOrPlain ==
  \/ crashes = 0 /\ todos \cup unreported \cup pgTodos = {}
  \/ \E id \in Ids :
       dirty \cup removed \cup Present(conversations) \cup Present(file.rows)
         \cup Present(pgRows) \cup Present(saver.rows) \subseteq {id}
=============================================================================
