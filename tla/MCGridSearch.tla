----------------------------- MODULE MCGridSearch -----------------------------
(* Two runs of a grid of two tasks, which is created twice.                *)
EXTENDS GridSearch

CONSTANTS r1, r2
===============================================================================
