---------------------------- MODULE MCAgentTurn ----------------------------
(***************************************************************************)
(* Replies a model may write: each way a guardrail treats a message, alone *)
(* and before or after another, with each closing question.                *)
(***************************************************************************)
EXTENDS AgentTurn

Bodies ==
    {<<<<"say">>>>, <<<<"ask">>>>, <<<<"say", "echo">>>>, <<<<"echo">>>>, <<<<"marker">>>>,
     <<<<"note">>>>, <<<<"say", "link">>>>, <<<<"long">>>>, <<<<"say">>, <<"ask">>>>,
     <<<<"echo">>, <<"say">>>>, <<<<"long">>, <<"ask">>>>}
ClosingQuestions == {<<>>, <<"ask">>, <<"echo">>, <<"ask", "echo">>, <<"marker">>, <<"note">>}

Draft(messages, closing, escalate, reasoned, confident) ==
    [messages |-> messages, closing |-> closing, escalate |-> escalate,
     reasoned |-> reasoned, confident |-> confident]

MCDrafts ==
    {Draft(m, c, FALSE, FALSE, TRUE) : m \in Bodies, c \in ClosingQuestions}
    \union {Draft(m, c, TRUE, r, TRUE) :
               m \in {<<<<"say">>>>, <<<<"note">>>>}, c \in {<<>>, <<"ask">>}, r \in BOOLEAN}
    \union {Draft(<<<<"say">>>>, <<"ask">>, FALSE, FALSE, FALSE)}
=============================================================================
