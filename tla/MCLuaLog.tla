------------------------------ MODULE MCLuaLog ------------------------------
(***************************************************************************)
(* Small instance of LuaLog: two messages fill a buffer, three buffers are *)
(* a backlog, and a file takes four messages.                              *)
(***************************************************************************)
EXTENDS LuaLog

\* A drop takes two unwritten buffers; a day may pass before anything is written.
AllFaults == {"mkdir", "fopen"}
=============================================================================
