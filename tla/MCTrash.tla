------------------------------- MODULE MCTrash -------------------------------
(* Two places of the same name, the second on another file system and with a *)
(* path that the info file does not give back; a file, a directory and a     *)
(* link to nothing.                                                          *)
EXTENDS Trash, TLC

CONSTANTS x, y, file, dir, link

MCBase     == (x :> "a") @@ (y :> "a")
MCReadBack == (x :> x) @@ (y :> x)
==============================================================================
