-------------------------------- MODULE MCTurn --------------------------------
(* Turn with the chats a caller may come with: a question, with a system    *)
(* message, with a turn before it, with calls the caller has run, and with  *)
(* a tool message that has no result.                                       *)
EXTENDS Turn

S(k) == <<<<"say", k>>>>
Chats == {<<user(S(1))>>,
          <<system(S(1)), user(S(2))>>,
          <<user(S(1)), assistant(S(2)), user(S(3))>>,
          <<user(S(1)), assistant_with_tools(<<>>, <<1, 2>>), tool_result(1), tool_result(2)>>,
          <<user(S(1)), Message("tool", S(2), <<>>, NoResult)>>}

\* What WellFormed, and the theorem that states it, ask of the callers.
ASSUME ChatsArePaired == \A ms \in BaseChats : Paired(ms)

AllEntries == Bindings \cup {"over", "manager"}
Manager == {"manager"}
Claude == {"claude"}
Kiro == {"kiro"}
Over == {"over"}
=============================================================================
