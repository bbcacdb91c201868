---------------------------- MODULE MCAgentLoop -----------------------------
(* Instances of AgentLoop for TLC.                                         *)
EXTENDS AgentLoop, TLC

CONSTANTS read, remove, look, draw, file_read, shell, browser_ext

(* A file may be read without asking, the shell must always be asked for.   *)
MCToolOf == read :> file_read @@ remove :> shell @@ look :> browser_ext
  @@ draw :> file_read
MCResponses == {<<read, look>>, <<remove, read>>, <<look, remove>>, <<read, draw>>}
=============================================================================
