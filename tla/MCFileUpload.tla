---------------------------- MODULE MCFileUpload ----------------------------
(* Model-checking instance of FileUpload: up to three attempts, so that a  *)
(* destination can be offered a third PUT, and three destinations.         *)
EXTENDS FileUpload

MCDests == 1 .. 3
====
