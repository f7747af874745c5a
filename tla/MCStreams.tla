------------------------------ MODULE MCStreams ------------------------------
(* Streams with texts of at most one character (none, ink, or a blank), and *)
(* the checks of the framings below them.                                   *)
EXTENDS Streams, Frames

AllBindings == {"callback", "pull", "pyo3", "node", "server", "chunks"}
Python == {"pyo3"}
OpenAI == {"openai_compat"}
Assembling == {"claude", "anthropic"}
Texts == {<<>>, <<"x">>, <<" ">>}
=============================================================================
