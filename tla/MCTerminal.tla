----------------------------- MODULE MCTerminal -----------------------------
(* An instance of TerminalSession.                                         *)
EXTENDS TerminalSession
=============================================================================
