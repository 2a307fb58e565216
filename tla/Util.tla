-------------------------------- MODULE Util --------------------------------
(***************************************************************************)
(* Sizes and allocation (src/src/util.c).  size_t is SizeMax wide; nothing *)
(* above half of that can be allocated, and whatever cannot be allocated   *)
(* ends phxargs.                                                           *)
(***************************************************************************)
EXTENDS Integers

CONSTANTS
  SizeMax,      \* SIZE_MAX
  PointerSize   \* sizeof(char*)

ASSUME UtilAssumption == SizeMax \in Nat /\ PointerSize \in Nat \ {0}

\* PTRDIFF_MAX
AllocMax == SizeMax \div 2

Wrapped(n) == n % (SizeMax + 1)

CannotAllocate(bytes) == bytes > AllocMax

phxargs_double_capacity(capacity) == IF capacity = 0 THEN 1 ELSE 2 * capacity

CannotDouble(capacity) == capacity > SizeMax \div 2

=============================================================================
