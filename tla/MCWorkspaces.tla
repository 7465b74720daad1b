---------------------------- MODULE MCWorkspaces ----------------------------
(* An instance of Workspaces for TLC.                                      *)
EXTENDS Workspaces

MCRetention == [c \in Classes |-> IF c = "pr" THEN 3 ELSE 2]
=============================================================================
