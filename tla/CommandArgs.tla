---------------------------- MODULE CommandArgs ----------------------------
(***************************************************************************)
(* Growing lists of argument strings (src/src/command_args.c): struct      *)
(* command_args_s as a record of count, capacity, the pointers allocated,  *)
(* by index, each as the string it points to, and the length of all of     *)
(* them with their NULs.                                                   *)
(***************************************************************************)
EXTENDS Util, Sequences

NULL == <<-1>>   \* no string

command_args_create_with_capacity(n) ==
  [count |-> 0, capacity |-> n, args |-> [i \in 0..(n - 1) |-> NULL], length |-> 0]

\* The bytes that realloc() is asked for.
ArrayBytes(capacity) == Wrapped(capacity * PointerSize)

command_args_add_exits(a) ==
  /\ a.count >= a.capacity
  /\ \/ CannotDouble(a.capacity)
     \/ CannotAllocate(ArrayBytes(phxargs_double_capacity(a.capacity)))

reallocate_if_needed(a) ==
  IF a.count >= a.capacity
    THEN LET bigger == phxargs_double_capacity(a.capacity)
         IN [a EXCEPT !.capacity = bigger,
                      !.args = [i \in 0 .. (ArrayBytes(bigger) \div PointerSize) - 1 |->
                                  IF i \in DOMAIN @ THEN @[i] ELSE NULL]]
    ELSE a

command_args_add(a, new_arg) ==
  LET roomy == reallocate_if_needed(a)
  IN [roomy EXCEPT !.args[roomy.count] = new_arg,
                   !.count = @ + 1,
                   !.length = @ + Len(new_arg) + 1]

\* The strings of a, as far as they are in the memory allocated.
Strings(a) ==
  [i \in 1..a.count |-> IF i - 1 \in DOMAIN a.args THEN a.args[i - 1] ELSE NULL]

=============================================================================
