------------------------------ MODULE MCRecovery ------------------------------
(* Recovery for TLC: every command, every menu entry. *)
EXTENDS Recovery

const_Requests == Commands
const_MenuWork == MenuCommands
const_Ubuntu == {"update-ubuntu"}
const_Package == {"update_package"}
const_NoMenu == {}
=============================================================================
