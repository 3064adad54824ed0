-------------------------- MODULE MCKeyedLifecycle --------------------------
(* Three operations on two keys, in any overlap.                           *)
EXTENDS KeyedLifecycle
=============================================================================
