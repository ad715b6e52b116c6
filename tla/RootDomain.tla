----------------------------- MODULE RootDomain -----------------------------
(* What the two members of struct root_domain modelled here share: the CPUs. *)
EXTENDS Integers

CONSTANT NCPU       \* the number of CPUs

CPU == 0 .. NCPU - 1
=============================================================================
