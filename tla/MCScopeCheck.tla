---------------------------- MODULE MCScopeCheck ----------------------------
(* Three names, one of them a builtin function, and two functions per unit. *)
EXTENDS ScopeCheck

BuiltinNames == {"g"}
AllNames     == {"f", "g", "h"}
=============================================================================
