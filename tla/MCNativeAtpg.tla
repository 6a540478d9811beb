---- MODULE MCNativeAtpg ----
(* NativeAtpg for TLC; each .cfg picks one operating mode of the loop.         *)
EXTENDS NativeAtpg
====
