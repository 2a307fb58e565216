--------------------------- MODULE OptionsProofs ---------------------------
(***************************************************************************)
(* Theorems about Options, for every command line.                         *)
(***************************************************************************)
EXTENDS Options, TLAPS

\* While options are parsed, at most one of -I, -L and -n is in force.
LimitsExclude(s) ==
  /\ s.line_mode_specified =>
       s.max_lines_per_command > 0 /\ s.max_args_per_command = 0 /\ s.arg_placeholder = NULL
  /\ ~s.line_mode_specified => s.max_lines_per_command = 0
  /\ s.arg_placeholder # NULL => s.max_args_per_command = 0

OptionsInv ==
  /\ TypeOK
  /\ argv \in OptionLists
  /\ outcome = "parsing" => LimitsExclude(opts)
  /\ HandsOverConfigured

-----------------------------------------------------------------------------
(* The setters. *)

LEMMA SetLines ==
  ASSUME NEW s \in OptionsRecord, NEW n \in Nat, NEW mode \in BOOLEAN
  PROVE  LET r == [s EXCEPT !.max_lines_per_command = n, !.line_mode_specified = mode]
         IN /\ r \in OptionsRecord
            /\ r.max_lines_per_command = n /\ r.line_mode_specified = mode
            /\ r.max_args_per_command = s.max_args_per_command
            /\ r.arg_placeholder = s.arg_placeholder
BY DEF OptionsRecord

LEMMA SetArgs ==
  ASSUME NEW s \in OptionsRecord, NEW n \in Nat
  PROVE  LET r == [s EXCEPT !.max_args_per_command = n]
         IN /\ r \in OptionsRecord
            /\ r.max_args_per_command = n
            /\ r.max_lines_per_command = s.max_lines_per_command
            /\ r.line_mode_specified = s.line_mode_specified
            /\ r.arg_placeholder = s.arg_placeholder
BY DEF OptionsRecord

LEMMA SetPlaceholder ==
  ASSUME NEW s \in OptionsRecord, NEW name \in Names \cup {NULL}
  PROVE  LET r == [s EXCEPT !.arg_placeholder = name]
         IN /\ r \in OptionsRecord
            /\ r.arg_placeholder = name
            /\ r.max_args_per_command = s.max_args_per_command
            /\ r.max_lines_per_command = s.max_lines_per_command
            /\ r.line_mode_specified = s.line_mode_specified
BY DEF OptionsRecord

\* -L, -n and -I each leave only themselves in force.
LEMMA LimitSetters ==
  ASSUME NEW s \in OptionsRecord
  PROVE  /\ \A n \in Nat \ {0} :
              /\ set_max_lines_per_command(s, n) \in OptionsRecord
              /\ LimitsExclude(set_max_lines_per_command(s, n))
         /\ \A n \in Nat :
              /\ set_max_args_per_command(s, n) \in OptionsRecord
              /\ LimitsExclude(set_max_args_per_command(s, n))
         /\ \A name \in Names :
              /\ set_arg_placeholder(s, name) \in OptionsRecord
              /\ LimitsExclude(set_arg_placeholder(s, name))
<1>1. ASSUME NEW n \in Nat \ {0}
      PROVE  /\ set_max_lines_per_command(s, n) \in OptionsRecord
             /\ LimitsExclude(set_max_lines_per_command(s, n))
  <2> DEFINE t == [s EXCEPT !.max_lines_per_command = n, !.line_mode_specified = TRUE]
             u == reset_arg_placeholder(t)
             r == reset_max_args_per_command(u)
  <2>1. t \in OptionsRecord /\ t.max_lines_per_command = n /\ t.line_mode_specified = TRUE
    BY SetLines
  <2> HIDE DEF t
  <2>2. /\ u \in OptionsRecord /\ u.max_lines_per_command = n
        /\ u.line_mode_specified = TRUE /\ u.arg_placeholder = NULL
    BY <2>1, SetPlaceholder DEF reset_arg_placeholder
  <2> HIDE DEF u
  <2>3. /\ r \in OptionsRecord /\ r.max_lines_per_command = n
        /\ r.line_mode_specified = TRUE /\ r.arg_placeholder = NULL
        /\ r.max_args_per_command = 0
    BY <2>2, SetArgs DEF reset_max_args_per_command
  <2>4. set_max_lines_per_command(s, n) = r
    BY DEF set_max_lines_per_command, t, u
  <2> QED
    BY <2>3, <2>4 DEF LimitsExclude
<1>2. ASSUME NEW n \in Nat
      PROVE  /\ set_max_args_per_command(s, n) \in OptionsRecord
             /\ LimitsExclude(set_max_args_per_command(s, n))
  <2> DEFINE t == [s EXCEPT !.max_args_per_command = n]
             u == reset_arg_placeholder(t)
             r == reset_max_lines_per_command(u)
  <2>1. t \in OptionsRecord
    BY SetArgs
  <2> HIDE DEF t
  <2>2. u \in OptionsRecord /\ u.arg_placeholder = NULL
    BY <2>1, SetPlaceholder DEF reset_arg_placeholder
  <2> HIDE DEF u
  <2>3. /\ r \in OptionsRecord /\ r.max_lines_per_command = 0
        /\ r.line_mode_specified = FALSE /\ r.arg_placeholder = NULL
    BY <2>2 DEF reset_max_lines_per_command, OptionsRecord
  <2>4. set_max_args_per_command(s, n) = r
    BY DEF set_max_args_per_command, t, u
  <2> QED
    BY <2>3, <2>4 DEF LimitsExclude
<1>3. ASSUME NEW name \in Names
      PROVE  /\ set_arg_placeholder(s, name) \in OptionsRecord
             /\ LimitsExclude(set_arg_placeholder(s, name))
  <2> DEFINE t == [s EXCEPT !.arg_placeholder = name]
             u == reset_max_lines_per_command(t)
             r == reset_max_args_per_command(u)
  <2>1. t \in OptionsRecord
    BY SetPlaceholder
  <2> HIDE DEF t
  <2>2. /\ u \in OptionsRecord /\ u.max_lines_per_command = 0
        /\ u.line_mode_specified = FALSE
    BY <2>1 DEF reset_max_lines_per_command, OptionsRecord
  <2> HIDE DEF u
  <2>3. /\ r \in OptionsRecord /\ r.max_lines_per_command = 0
        /\ r.line_mode_specified = FALSE /\ r.max_args_per_command = 0
    BY <2>2, SetArgs DEF reset_max_args_per_command
  <2>4. set_arg_placeholder(s, name) = r
    BY DEF set_arg_placeholder, t, u
  <2> QED
    BY <2>3, <2>4 DEF LimitsExclude
<1> QED
  BY <1>1, <1>2, <1>3

-----------------------------------------------------------------------------
(* One option. *)

\* An option that is accepted keeps the record of options well-typed, and
\* leaves at most one of -I, -L and -n in force (the setters of options.c).
LEMMA OneOption ==
  ASSUME NEW s \in OptionsRecord, NEW o, Occurrence(o), accepted(o)
  PROVE  /\ set_option(s, o) \in OptionsRecord
         /\ LimitsExclude(s) => LimitsExclude(set_option(s, o))
<1> USE OptionsAssumption
<1>1. CASE o.opt = "L"
  <2>1. o.arg \in Nat /\ o.arg > 0
    BY <1>1 DEF Occurrence, accepted, number_at_least, NumberOptions, NameOptions, Flags
  <2>2. set_option(s, o) = set_max_lines_per_command(s, o.arg)
    BY <1>1 DEF set_option
  <2> QED
    BY <2>1, <2>2, LimitSetters
<1>2. CASE o.opt = "n"
  <2>1. o.arg \in Nat /\ o.arg > 0
    BY <1>2 DEF Occurrence, accepted, number_at_least, NumberOptions, NameOptions, Flags
  <2>2. set_option(s, o) = set_max_args_per_command(s, o.arg)
    BY <1>2 DEF set_option
  <2> QED
    BY <2>1, <2>2, LimitSetters
<1>3. CASE o.opt = "I"
  <2>1. o.arg \in Names
    BY <1>3 DEF Occurrence, NumberOptions, NameOptions, Flags
  <2>2. set_option(s, o) = set_arg_placeholder(s, o.arg)
    BY <1>3 DEF set_option
  <2> QED
    BY <2>1, <2>2, LimitSetters
<1>4. CASE o.opt = "P"
  <2>1. o.arg \in Nat
    BY <1>4 DEF Occurrence, accepted, procs_accepted, number_at_least, NumberOptions,
                NameOptions, Flags
  <2>2. set_option(s, o) = [s EXCEPT !.max_procs = o.arg]
    BY <1>4 DEF set_option
  <2> QED
    BY <2>1, <2>2 DEF OptionsRecord, LimitsExclude
<1>5. CASE o.opt = "s"
  <2>1. o.arg \in Nat
    BY <1>5 DEF Occurrence, accepted, number_at_least, NumberOptions, NameOptions, Flags
  <2>2. set_option(s, o) = [s EXCEPT !.max_command_length = o.arg]
    BY <1>5 DEF set_option
  <2> QED
    BY <2>1, <2>2 DEF OptionsRecord, LimitsExclude
<1>6. CASE o.opt \in {"a", "E"}
  <2>1. o.arg \in Names
    BY <1>6 DEF Occurrence, NumberOptions, NameOptions, Flags
  <2>2. \/ set_option(s, o) = [s EXCEPT !.arg_file_path = o.arg]
        \/ set_option(s, o) = [s EXCEPT !.logical_end_of_input_marker = o.arg]
    BY <1>6 DEF set_option
  <2> QED
    BY <2>1, <2>2 DEF OptionsRecord, LimitsExclude
<1>7. CASE o.opt = "d"
  <2>1. o.arg \in Seq(Chars \ {NUL}) /\ Len(o.arg) = 1
    BY <1>7 DEF Occurrence, accepted, NumberOptions, NameOptions, Flags
  <2>2. o.arg[1] \in Chars
    BY <2>1
  <2>3. set_option(s, o) = set_arg_delimiter(s, o.arg[1])
    BY <1>7 DEF set_option
  <2> QED
    BY <2>2, <2>3 DEF set_arg_delimiter, OptionsRecord, LimitsExclude
<1>8. CASE o.opt \in Flags
  <2>1. CASE o.opt = "0"
    <3>1. set_option(s, o) = enable_nul_char_as_arg_delimiter(s)
      BY <2>1 DEF set_option
    <3> QED
      BY <3>1 DEF enable_nul_char_as_arg_delimiter, OptionsRecord, LimitsExclude
  <2>2. CASE o.opt = "o"
    <3>1. set_option(s, o) = [s EXCEPT !.open_tty = TRUE]
      BY <2>2 DEF set_option
    <3> QED
      BY <3>1 DEF OptionsRecord, LimitsExclude
  <2>3. CASE o.opt = "p"
    <3>1. set_option(s, o) = [s EXCEPT !.prompt = TRUE, !.trace = TRUE]
      BY <2>3 DEF set_option, enable_prompt
    <3> QED
      BY <3>1 DEF OptionsRecord, LimitsExclude
  <2>4. CASE o.opt = "r"
    <3>1. set_option(s, o) = [s EXCEPT !.suppress_execution_on_empty_input = TRUE]
      BY <2>4 DEF set_option
    <3> QED
      BY <3>1 DEF OptionsRecord, LimitsExclude
  <2>5. CASE o.opt = "t"
    <3>1. set_option(s, o) = [s EXCEPT !.trace = TRUE]
      BY <2>5 DEF set_option
    <3> QED
      BY <3>1 DEF OptionsRecord, LimitsExclude
  <2>6. CASE o.opt = "x"
    <3>1. set_option(s, o) = [s EXCEPT !.terminate_on_too_large_command = TRUE]
      BY <2>6 DEF set_option, enable_terminate_on_too_large_command
    <3> QED
      BY <3>1 DEF OptionsRecord, LimitsExclude
  <2> QED
    BY <1>8, <2>1, <2>2, <2>3, <2>4, <2>5, <2>6 DEF Flags
<1>9. o.opt \in {"L", "n", "I", "P", "s", "a", "E", "d"} \cup Flags
  BY DEF Occurrence, accepted, NumberOptions, NameOptions
<1> QED
  BY <1>1, <1>2, <1>3, <1>4, <1>5, <1>6, <1>7, <1>8, <1>9 DEF Flags

\* configure_options turns options in which at most one limit is in force into
\* options that a command can be created from.
LEMMA Configuring ==
  ASSUME NEW s \in OptionsRecord, LimitsExclude(s),
         opts' = apply_placeholder(apply_line_mode(s))
  PROVE  /\ opts' \in OptionsRecord
         /\ Configured(HandedOver)'
<1> USE OptionsAssumption
<1> DEFINE t == apply_line_mode(s)
           v == reset_logical_end_of_input_marker(enable_terminate_on_too_large_command(t))
           w == apply_limits(t)
<1>1. /\ t \in OptionsRecord /\ LimitsExclude(t)
      /\ t.line_mode_specified => t.terminate_on_too_large_command
  BY DEF apply_line_mode, enable_terminate_on_too_large_command, OptionsRecord, LimitsExclude
<1> HIDE DEF t
<1>2. opts' = apply_placeholder(t)
  BY DEF t
<1>3. CASE t.arg_placeholder = NULL
  <2>1. opts' = t
    BY <1>2, <1>3 DEF apply_placeholder
  <2> QED
    BY <1>1, <1>3, <2>1 DEF LimitsExclude, HandedOver, Configured, Option, OptionsRecord
<1>4. CASE t.arg_placeholder # NULL
  <2>1. /\ v \in OptionsRecord
        /\ v.terminate_on_too_large_command = TRUE
        /\ v.line_mode_specified = FALSE
        /\ v.max_args_per_command = 0
        /\ v.arg_placeholder # NULL
    BY <1>1, <1>4 DEF reset_logical_end_of_input_marker,
       enable_terminate_on_too_large_command, OptionsRecord, LimitsExclude
  <2> HIDE DEF v
  <2>2. /\ w \in OptionsRecord
        /\ w.terminate_on_too_large_command = TRUE
        /\ w.line_mode_specified = FALSE
        /\ w.max_args_per_command = 0
        /\ w.max_lines_per_command = 1
        /\ w.arg_placeholder # NULL
    <3>1. w = [v EXCEPT !.max_lines_per_command = 1]
      BY DEF apply_limits, v
    <3> QED
      BY <2>1, <3>1 DEF OptionsRecord
  <2> HIDE DEF w
  <2> DEFINE x == set_arg_delimiter(w, Newline)
  <2>3. opts' = w \/ opts' = x
    BY <1>2, <1>4 DEF apply_placeholder, w
  <2>4. /\ opts' \in OptionsRecord
        /\ opts'.terminate_on_too_large_command = TRUE
        /\ opts'.line_mode_specified = FALSE
        /\ opts'.max_args_per_command = 0
        /\ opts'.max_lines_per_command = 1
        /\ opts'.arg_placeholder # NULL
    <3>1. /\ x \in OptionsRecord
          /\ x.terminate_on_too_large_command = TRUE
          /\ x.line_mode_specified = FALSE
          /\ x.max_args_per_command = 0
          /\ x.max_lines_per_command = 1
          /\ x.arg_placeholder # NULL
      BY <2>2 DEF set_arg_delimiter, OptionsRecord
    <3> HIDE DEF x
    <3>2. CASE opts' = w
      BY <2>2, <3>2
    <3>3. CASE opts' = x
      BY <3>1, <3>3
    <3> QED
      BY <2>3, <3>2, <3>3
  <2>5. HandedOver' \in Option
    <3>1. /\ opts'.max_lines_per_command \in Nat
          /\ opts'.max_args_per_command \in Nat
          /\ opts'.max_command_length \in Nat
          /\ opts'.line_mode_specified \in BOOLEAN
          /\ opts'.terminate_on_too_large_command \in BOOLEAN
          /\ opts'.suppress_execution_on_empty_input \in BOOLEAN
      BY <2>4 DEF OptionsRecord
    <3> QED
      BY <3>1 DEF HandedOver, Option
  <2>6. /\ HandedOver'.terminate_on_too_large_command = TRUE
        /\ HandedOver'.line_mode = FALSE
        /\ HandedOver'.max_args = 0
        /\ HandedOver'.max_lines = 1
        /\ HandedOver'.arg_placeholder = TRUE
    BY <2>4 DEF HandedOver
  <2> QED
    BY <2>4, <2>5, <2>6 DEF Configured
<1> QED
  BY <1>3, <1>4

-----------------------------------------------------------------------------

LEMMA OptionsInvInitially == Init => OptionsInv
<1> SUFFICES ASSUME Init PROVE OptionsInv
  OBVIOUS
<1>1. Len(argv) \in Nat
  BY OptionListsAssumption DEF Init
<1>2. opts \in OptionsRecord /\ LimitsExclude(opts)
  BY OptionsAssumption DEF Init, init_options, OptionsRecord, LimitsExclude
<1> QED
  BY <1>1, <1>2 DEF Init, OptionsInv, TypeOK, HandsOverConfigured

LEMMA OptionsInvPreserved == OptionsInv /\ [Next]_vars => OptionsInv'
<1> SUFFICES ASSUME OptionsInv, [Next]_vars PROVE OptionsInv'
  OBVIOUS
<1>1. CASE parse_option
  <2> DEFINE o == argv[optind + 1]
  <2>1. Len(argv) \in Nat /\ optind' \in 0 .. Len(argv) /\ Occurrence(o)
    BY <1>1, OptionListsAssumption DEF OptionsInv, TypeOK, parse_option
  <2>2. CASE accepted(o) /\ opts' = set_option(opts, o) /\ outcome' = outcome
    <3>1. opts' \in OptionsRecord /\ LimitsExclude(opts)'
      <4>1. opts \in OptionsRecord /\ LimitsExclude(opts)
        BY <1>1 DEF OptionsInv, TypeOK, parse_option
      <4>2. set_option(opts, o) \in OptionsRecord /\ LimitsExclude(set_option(opts, o))
        BY <2>1, <2>2, <4>1, OneOption
      <4> QED
        BY <2>2, <4>2 DEF LimitsExclude
    <3> QED
      BY <1>1, <2>1, <2>2, <3>1 DEF OptionsInv, TypeOK, parse_option, HandsOverConfigured
  <2>3. CASE outcome' = "failed" /\ opts' = opts
    BY <1>1, <2>1, <2>3 DEF OptionsInv, TypeOK, parse_option, HandsOverConfigured
  <2> QED
    BY <1>1, <2>2, <2>3 DEF parse_option
<1>2. CASE configure_options
  <2>1. opts \in OptionsRecord /\ LimitsExclude(opts)
    BY <1>2 DEF OptionsInv, TypeOK, configure_options
  <2>2. opts' \in OptionsRecord /\ Configured(HandedOver)'
    BY <1>2, <2>1, Configuring DEF configure_options
  <2> QED
    BY <1>2, <2>2 DEF OptionsInv, TypeOK, configure_options, HandsOverConfigured
<1>3. CASE UNCHANGED vars
  BY <1>3 DEF vars, OptionsInv, TypeOK, LimitsExclude, HandsOverConfigured, HandedOver,
              Configured
<1> QED
  BY <1>1, <1>2, <1>3 DEF Next, Done

LEMMA OptionsInvAlways == Spec => []OptionsInv
  BY OptionsInvInitially, OptionsInvPreserved, PTL DEF Spec

-----------------------------------------------------------------------------

\* Every variable keeps its type, whatever the options and their arguments.
THEOREM TypeCorrect == Spec => []TypeOK
  BY OptionsInvAlways, PTL DEF OptionsInv

\* options_create hands over options that fit together, in whatever order -I,
\* -L, -n and -x were given: the assumption CommandAssumption of Command.
THEOREM CommandsGetConfigured == Spec => []HandsOverConfigured
  BY OptionsInvAlways, PTL DEF OptionsInv

-----------------------------------------------------------------------------
(* The limit of the pool. *)

\* The fields that decide about the number of processes.
SameProcs(r, s) == r.max_procs = s.max_procs /\ r.prompt = s.prompt

LEMMA SettersKeepProcs ==
  ASSUME NEW s \in OptionsRecord
  PROVE  /\ SameProcs(reset_arg_placeholder(s), s)
         /\ SameProcs(reset_max_args_per_command(s), s)
         /\ SameProcs(reset_max_lines_per_command(s), s)
         /\ reset_arg_placeholder(s) \in OptionsRecord
         /\ reset_max_args_per_command(s) \in OptionsRecord
         /\ reset_max_lines_per_command(s) \in OptionsRecord
<1>1. /\ SameProcs(reset_arg_placeholder(s), s)
      /\ reset_arg_placeholder(s) \in OptionsRecord
  BY DEF SameProcs, reset_arg_placeholder, OptionsRecord
<1>2. /\ SameProcs(reset_max_args_per_command(s), s)
      /\ reset_max_args_per_command(s) \in OptionsRecord
  BY DEF SameProcs, reset_max_args_per_command, OptionsRecord
<1>3. /\ SameProcs(reset_max_lines_per_command(s), s)
      /\ reset_max_lines_per_command(s) \in OptionsRecord
  BY DEF SameProcs, reset_max_lines_per_command, OptionsRecord
<1> QED
  BY <1>1, <1>2, <1>3

\* -P alone sets the number of processes: what it accepts is within the limit
\* of the system, and the other options leave that number alone.
LEMMA OnlyPSetsProcs ==
  ASSUME NEW s \in OptionsRecord, NEW o, Occurrence(o), accepted(o)
  PROVE  \/ set_option(s, o).max_procs = s.max_procs
         \/ ChildMax > 0 => set_option(s, o).max_procs <= ChildMax
<1>1. CASE o.opt = "P"
  <2>1. set_option(s, o).max_procs = o.arg
    BY <1>1 DEF set_option, OptionsRecord
  <2>2. o.arg \in Nat /\ (o.arg > 0 /\ ChildMax > 0 => o.arg <= ChildMax)
    BY <1>1 DEF Occurrence, accepted, procs_accepted, number_at_least, NumberOptions,
                NameOptions, Flags
  <2> QED
    BY <2>1, <2>2, OptionsAssumption
<1>2. CASE o.opt = "L"
  <2> DEFINE t == [s EXCEPT !.max_lines_per_command = o.arg, !.line_mode_specified = TRUE]
  <2>1. o.arg \in Nat
    BY <1>2 DEF Occurrence, accepted, number_at_least, NumberOptions, NameOptions, Flags
  <2>2. t \in OptionsRecord /\ SameProcs(t, s)
    BY <2>1 DEF OptionsRecord, SameProcs
  <2>3. set_option(s, o) = reset_max_args_per_command(reset_arg_placeholder(t))
    BY <1>2 DEF set_option, set_max_lines_per_command
  <2> HIDE DEF t
  <2>4. SameProcs(set_option(s, o), s)
    BY <2>2, <2>3, SettersKeepProcs DEF SameProcs
  <2> QED
    BY <2>4 DEF SameProcs
<1>3. CASE o.opt = "n"
  <2> DEFINE t == [s EXCEPT !.max_args_per_command = o.arg]
  <2>1. o.arg \in Nat
    BY <1>3 DEF Occurrence, accepted, number_at_least, NumberOptions, NameOptions, Flags
  <2>2. t \in OptionsRecord /\ SameProcs(t, s)
    BY <2>1 DEF OptionsRecord, SameProcs
  <2>3. set_option(s, o) = reset_max_lines_per_command(reset_arg_placeholder(t))
    BY <1>3 DEF set_option, set_max_args_per_command
  <2> HIDE DEF t
  <2>4. SameProcs(set_option(s, o), s)
    BY <2>2, <2>3, SettersKeepProcs DEF SameProcs
  <2> QED
    BY <2>4 DEF SameProcs
<1>4. CASE o.opt = "I"
  <2> DEFINE t == [s EXCEPT !.arg_placeholder = o.arg]
  <2>1. o.arg \in Names
    BY <1>4 DEF Occurrence, NumberOptions, NameOptions, Flags
  <2>2. t \in OptionsRecord /\ SameProcs(t, s)
    BY <2>1 DEF OptionsRecord, SameProcs
  <2>3. set_option(s, o) = reset_max_args_per_command(reset_max_lines_per_command(t))
    BY <1>4 DEF set_option, set_arg_placeholder
  <2> HIDE DEF t
  <2>4. SameProcs(set_option(s, o), s)
    BY <2>2, <2>3, SettersKeepProcs DEF SameProcs
  <2> QED
    BY <2>4 DEF SameProcs
<1>5. CASE o.opt = "0"
  BY <1>5 DEF set_option, enable_nul_char_as_arg_delimiter, OptionsRecord
<1>6. CASE o.opt = "d"
  BY <1>6 DEF set_option, set_arg_delimiter, OptionsRecord
<1>7. CASE o.opt = "p"
  BY <1>7 DEF set_option, enable_prompt, OptionsRecord
<1>8. CASE o.opt = "x"
  BY <1>8 DEF set_option, enable_terminate_on_too_large_command, OptionsRecord
<1>9. CASE o.opt \in {"a", "E", "s"}
  BY <1>9 DEF set_option, OptionsRecord
<1>10. CASE o.opt \in {"o", "r", "t"}
  BY <1>10 DEF set_option, OptionsRecord
<1>11. o.opt \in {"L", "n", "I", "P", "s", "a", "E", "d"} \cup Flags
  BY DEF Occurrence, accepted, NumberOptions, NameOptions
<1> QED
  BY <1>1, <1>2, <1>3, <1>4, <1>5, <1>6, <1>7, <1>8, <1>9, <1>10, <1>11 DEF Flags

LEMMA ConfiguringKeepsProcs ==
  ASSUME NEW s \in OptionsRecord
  PROVE  SameProcs(apply_placeholder(apply_line_mode(s)), s)
<1> DEFINE t == apply_line_mode(s)
           v == reset_logical_end_of_input_marker(enable_terminate_on_too_large_command(t))
           w == apply_limits(t)
<1>1. t \in OptionsRecord /\ SameProcs(t, s)
  BY DEF apply_line_mode, enable_terminate_on_too_large_command, OptionsRecord, SameProcs
<1> HIDE DEF t
<1>2. v \in OptionsRecord /\ SameProcs(v, s)
  BY <1>1, OptionsAssumption DEF reset_logical_end_of_input_marker,
     enable_terminate_on_too_large_command, OptionsRecord, SameProcs
<1>3. w = [v EXCEPT !.max_lines_per_command = 1]
  BY DEF apply_limits
<1> HIDE DEF v, w
<1>4. w \in OptionsRecord /\ SameProcs(w, s)
  BY <1>2, <1>3 DEF OptionsRecord, SameProcs
<1>5. SameProcs(set_arg_delimiter(w, Newline), s)
  BY <1>4 DEF set_arg_delimiter, OptionsRecord, SameProcs
<1>6. apply_placeholder(t) \in {t, w, set_arg_delimiter(w, Newline)}
  BY DEF apply_placeholder, w
<1> QED
  BY <1>1, <1>4, <1>5, <1>6 DEF t

\* The limit asked for so far is one the system allows, and that of options
\* handed over goes with a prompt.
ProcsInv ==
  /\ OptionsInv
  /\ ChildMax > 0 => opts.max_procs <= ChildMax
  /\ outcome = "configured" => ~prompt_and_procs_conflict(opts)

LEMMA ProcsInvInitially == Init => ProcsInv
  BY OptionsInvInitially, OptionsAssumption DEF ProcsInv, Init, init_options

LEMMA ProcsInvPreserved == ProcsInv /\ [Next]_vars => ProcsInv'
<1> SUFFICES ASSUME ProcsInv, [Next]_vars PROVE ProcsInv'
  OBVIOUS
<1>1. OptionsInv'
  BY OptionsInvPreserved DEF ProcsInv
<1>2. CASE parse_option
  <2> DEFINE o == argv[optind + 1]
  <2>1. Occurrence(o) /\ opts \in OptionsRecord
    BY <1>2, OptionListsAssumption DEF ProcsInv, OptionsInv, TypeOK, parse_option
  <2>2. ChildMax > 0 => opts'.max_procs <= ChildMax
    <3>1. CASE accepted(o) /\ opts' = set_option(opts, o)
      BY <2>1, <3>1, OnlyPSetsProcs DEF ProcsInv
    <3>2. CASE opts' = opts
      BY <3>2 DEF ProcsInv
    <3> QED
      BY <1>2, <3>1, <3>2 DEF parse_option
  <2>3. outcome' # "configured"
    BY <1>2 DEF parse_option
  <2> QED
    BY <1>1, <2>2, <2>3 DEF ProcsInv
<1>3. CASE configure_options
  <2>1. SameProcs(opts', opts)
    BY <1>3, ConfiguringKeepsProcs DEF configure_options, ProcsInv, OptionsInv, TypeOK
  <2>2. outcome' = "configured" => ~prompt_and_procs_conflict(opts)
    BY <1>3 DEF configure_options
  <2> QED
    BY <1>1, <2>1, <2>2 DEF ProcsInv, SameProcs, prompt_and_procs_conflict
<1>4. CASE UNCHANGED vars
  BY <1>1, <1>4 DEF vars, ProcsInv, prompt_and_procs_conflict
<1> QED
  BY <1>2, <1>3, <1>4 DEF Next, Done


\* The pool is created with a number of processes that the system allows, and
\* with one, or with no limit, under -p.
THEOREM ProcsAreAllowed == Spec => []ProcsWithinLimits
<1>1. ProcsInv => ProcsWithinLimits
  <2> SUFFICES ASSUME ProcsInv, outcome = "configured" PROVE ProcsWithinLimits
    BY DEF ProcsWithinLimits
  <2>1. opts.max_procs \in Nat
    BY DEF ProcsInv, OptionsInv, TypeOK, OptionsRecord
  <2> QED
    BY <2>1 DEF ProcsInv, prompt_and_procs_conflict, ProcsWithinLimits
<1> QED
  BY <1>1, ProcsInvInitially, ProcsInvPreserved, PTL DEF Spec

-----------------------------------------------------------------------------
(* Which of the options decide. *)

\* The fields that -I, -L and -n set, and those that -0 and -d set.
LimitsOf(s) == <<s.arg_placeholder, s.line_mode_specified,
                 s.max_lines_per_command, s.max_args_per_command>>

DelimiterOf(s) == <<s.use_nul_char_as_arg_delimiter, s.arg_delimiter>>

\* What the option o asks them to be.
LimitsAsked(o) ==
  CASE o.opt = "I" -> <<o.arg, FALSE, 0, 0>>
    [] o.opt = "L" -> <<NULL, TRUE, o.arg, 0>>
    [] OTHER       -> <<NULL, FALSE, 0, o.arg>>

DelimiterAsked(o) == IF o.opt = "d" THEN <<FALSE, o.arg[1]>> ELSE <<TRUE, NUL>>

\* -I, -L and -n decide on the limits whatever came before, and no other option
\* touches these.
LEMMA OneOptionLimits ==
  ASSUME NEW s \in OptionsRecord, NEW o, Occurrence(o), accepted(o)
  PROVE  LimitsOf(set_option(s, o)) = IF o.opt \in Limit THEN LimitsAsked(o) ELSE LimitsOf(s)
<1> DEFINE r == set_option(s, o)
<1>1. CASE o.opt = "L"
  <2> DEFINE t == [s EXCEPT !.max_lines_per_command = o.arg, !.line_mode_specified = TRUE]
             u == reset_arg_placeholder(t)
  <2>1. o.arg \in Nat
    BY <1>1 DEF Occurrence, accepted, number_at_least, NumberOptions, NameOptions, Flags
  <2>2. t \in OptionsRecord /\ t.max_lines_per_command = o.arg /\ t.line_mode_specified = TRUE
    BY <2>1, SetLines
  <2>3. r = reset_max_args_per_command(u)
    BY <1>1 DEF set_option, set_max_lines_per_command
  <2> HIDE DEF t, r
  <2>4. /\ u \in OptionsRecord /\ u.max_lines_per_command = o.arg
        /\ u.line_mode_specified = TRUE /\ u.arg_placeholder = NULL
    BY <2>2, SetPlaceholder DEF reset_arg_placeholder
  <2> HIDE DEF u
  <2>5. /\ r.max_lines_per_command = o.arg /\ r.line_mode_specified = TRUE
        /\ r.arg_placeholder = NULL /\ r.max_args_per_command = 0
    BY <2>3, <2>4, SetArgs DEF reset_max_args_per_command
  <2> QED
    BY <1>1, <2>5 DEF LimitsOf, LimitsAsked, Limit, r
<1>2. CASE o.opt = "n"
  <2> DEFINE t == [s EXCEPT !.max_args_per_command = o.arg]
             u == reset_arg_placeholder(t)
  <2>1. o.arg \in Nat
    BY <1>2 DEF Occurrence, accepted, number_at_least, NumberOptions, NameOptions, Flags
  <2>2. t \in OptionsRecord /\ t.max_args_per_command = o.arg
    BY <2>1, SetArgs
  <2>3. r = reset_max_lines_per_command(u)
    BY <1>2 DEF set_option, set_max_args_per_command
  <2> HIDE DEF t, r
  <2>4. u \in OptionsRecord /\ u.max_args_per_command = o.arg /\ u.arg_placeholder = NULL
    BY <2>2, SetPlaceholder DEF reset_arg_placeholder
  <2> HIDE DEF u
  <2>5. /\ r.max_lines_per_command = 0 /\ r.line_mode_specified = FALSE
        /\ r.arg_placeholder = NULL /\ r.max_args_per_command = o.arg
    BY <2>3, <2>4, SetLines DEF reset_max_lines_per_command
  <2> QED
    BY <1>2, <2>5 DEF LimitsOf, LimitsAsked, Limit, r
<1>3. CASE o.opt = "I"
  <2> DEFINE t == [s EXCEPT !.arg_placeholder = o.arg]
             u == reset_max_lines_per_command(t)
  <2>1. o.arg \in Names
    BY <1>3 DEF Occurrence, NumberOptions, NameOptions, Flags
  <2>2. t \in OptionsRecord /\ t.arg_placeholder = o.arg
    BY <2>1, SetPlaceholder
  <2>3. r = reset_max_args_per_command(u)
    BY <1>3 DEF set_option, set_arg_placeholder
  <2> HIDE DEF t, r
  <2>4. /\ u \in OptionsRecord /\ u.arg_placeholder = o.arg
        /\ u.max_lines_per_command = 0 /\ u.line_mode_specified = FALSE
    BY <2>2 DEF reset_max_lines_per_command, OptionsRecord
  <2> HIDE DEF u
  <2>5. /\ r.max_lines_per_command = 0 /\ r.line_mode_specified = FALSE
        /\ r.arg_placeholder = o.arg /\ r.max_args_per_command = 0
    BY <2>3, <2>4, SetArgs DEF reset_max_args_per_command
  <2> QED
    BY <1>3, <2>5 DEF LimitsOf, LimitsAsked, Limit, r
<1>4. CASE o.opt = "0"
  BY <1>4 DEF set_option, enable_nul_char_as_arg_delimiter, OptionsRecord, LimitsOf, Limit
<1>5. CASE o.opt = "d"
  BY <1>5 DEF set_option, set_arg_delimiter, OptionsRecord, LimitsOf, Limit
<1>6. CASE o.opt = "p"
  BY <1>6 DEF set_option, enable_prompt, OptionsRecord, LimitsOf, Limit
<1>7. CASE o.opt = "x"
  BY <1>7 DEF set_option, enable_terminate_on_too_large_command, OptionsRecord, LimitsOf, Limit
<1>8. CASE o.opt \in {"a", "E", "s", "P"}
  BY <1>8 DEF set_option, OptionsRecord, LimitsOf, Limit
<1>9. CASE o.opt \in {"o", "r", "t"}
  BY <1>9 DEF set_option, OptionsRecord, LimitsOf, Limit
<1>10. o.opt \in {"L", "n", "I", "P", "s", "a", "E", "d"} \cup Flags
  BY DEF Occurrence, accepted, NumberOptions, NameOptions
<1> QED
  BY <1>1, <1>2, <1>3, <1>4, <1>5, <1>6, <1>7, <1>8, <1>9, <1>10 DEF Flags

LEMMA LimitSettersKeepDelimiter ==
  ASSUME NEW s \in OptionsRecord
  PROVE  /\ \A n \in Nat :
              /\ DelimiterOf(set_max_lines_per_command(s, n)) = DelimiterOf(s)
              /\ DelimiterOf(set_max_args_per_command(s, n)) = DelimiterOf(s)
         /\ \A name \in Names : DelimiterOf(set_arg_placeholder(s, name)) = DelimiterOf(s)
<1> USE DEF DelimiterOf
<1>1. ASSUME NEW t \in OptionsRecord
      PROVE  /\ DelimiterOf(reset_arg_placeholder(t)) = DelimiterOf(t)
             /\ DelimiterOf(reset_max_args_per_command(t)) = DelimiterOf(t)
             /\ DelimiterOf(reset_max_lines_per_command(t)) = DelimiterOf(t)
  BY DEF OptionsRecord, reset_arg_placeholder, reset_max_args_per_command,
         reset_max_lines_per_command
<1>2. ASSUME NEW n \in Nat
      PROVE  /\ DelimiterOf(set_max_lines_per_command(s, n)) = DelimiterOf(s)
             /\ DelimiterOf(set_max_args_per_command(s, n)) = DelimiterOf(s)
  <2> DEFINE t == [s EXCEPT !.max_lines_per_command = n, !.line_mode_specified = TRUE]
             u == [s EXCEPT !.max_args_per_command = n]
  <2>1. /\ t \in OptionsRecord /\ DelimiterOf(t) = DelimiterOf(s)
        /\ u \in OptionsRecord /\ DelimiterOf(u) = DelimiterOf(s)
    BY DEF OptionsRecord
  <2>2. /\ set_max_lines_per_command(s, n) = reset_max_args_per_command(reset_arg_placeholder(t))
        /\ set_max_args_per_command(s, n) = reset_max_lines_per_command(reset_arg_placeholder(u))
    BY DEF set_max_lines_per_command, set_max_args_per_command
  <2> HIDE DEF t, u, DelimiterOf
  <2> QED
    BY <1>1, <2>1, <2>2, SettersKeepProcs
<1>3. ASSUME NEW name \in Names
      PROVE  DelimiterOf(set_arg_placeholder(s, name)) = DelimiterOf(s)
  <2> DEFINE t == [s EXCEPT !.arg_placeholder = name]
  <2>1. t \in OptionsRecord /\ DelimiterOf(t) = DelimiterOf(s)
    BY DEF OptionsRecord
  <2>2. set_arg_placeholder(s, name) = reset_max_args_per_command(reset_max_lines_per_command(t))
    BY DEF set_arg_placeholder
  <2> HIDE DEF t, DelimiterOf
  <2> QED
    BY <1>1, <2>1, <2>2, SettersKeepProcs
<1> QED
  BY <1>2, <1>3

\* -0 and -d decide on the delimiter, and no other option touches it.
LEMMA OneOptionDelimiter ==
  ASSUME NEW s \in OptionsRecord, NEW o, Occurrence(o), accepted(o)
  PROVE  DelimiterOf(set_option(s, o)) =
           IF o.opt \in {"0", "d"} THEN DelimiterAsked(o) ELSE DelimiterOf(s)
<1>1. CASE o.opt \in {"L", "n"}
  <2>1. o.arg \in Nat
    BY <1>1 DEF Occurrence, accepted, number_at_least, NumberOptions, NameOptions, Flags
  <2>2. \/ set_option(s, o) = set_max_lines_per_command(s, o.arg)
        \/ set_option(s, o) = set_max_args_per_command(s, o.arg)
    BY <1>1 DEF set_option
  <2> QED
    BY <1>1, <2>1, <2>2, LimitSettersKeepDelimiter
<1>2. CASE o.opt = "I"
  <2>1. o.arg \in Names
    BY <1>2 DEF Occurrence, NumberOptions, NameOptions, Flags
  <2>2. set_option(s, o) = set_arg_placeholder(s, o.arg)
    BY <1>2 DEF set_option
  <2> QED
    BY <1>2, <2>1, <2>2, LimitSettersKeepDelimiter
<1>3. CASE o.opt = "0"
  BY <1>3 DEF set_option, enable_nul_char_as_arg_delimiter, OptionsRecord, DelimiterOf,
              DelimiterAsked
<1>4. CASE o.opt = "d"
  BY <1>4 DEF set_option, set_arg_delimiter, OptionsRecord, DelimiterOf, DelimiterAsked
<1>5. CASE o.opt = "p"
  BY <1>5 DEF set_option, enable_prompt, OptionsRecord, DelimiterOf
<1>6. CASE o.opt = "x"
  BY <1>6 DEF set_option, enable_terminate_on_too_large_command, OptionsRecord, DelimiterOf
<1>7. CASE o.opt \in {"a", "E", "s", "P"}
  BY <1>7 DEF set_option, OptionsRecord, DelimiterOf
<1>8. CASE o.opt \in {"o", "r", "t"}
  BY <1>8 DEF set_option, OptionsRecord, DelimiterOf
<1>9. o.opt \in {"L", "n", "I", "P", "s", "a", "E", "d"} \cup Flags
  BY DEF Occurrence, accepted, NumberOptions, NameOptions
<1> QED
  BY <1>1, <1>2, <1>3, <1>4, <1>5, <1>6, <1>7, <1>8, <1>9 DEF Flags

LEMMA ConfiguringDecides ==
  ASSUME NEW s \in OptionsRecord
  PROVE  LET r == apply_placeholder(apply_line_mode(s))
         IN IF s.arg_placeholder = NULL
              THEN LimitsOf(r) = LimitsOf(s) /\ DelimiterOf(r) = DelimiterOf(s)
              ELSE /\ LimitsOf(r) = <<s.arg_placeholder, s.line_mode_specified, 1,
                                      s.max_args_per_command>>
                   /\ DelimiterOf(r) = IF DelimiterOf(s) = <<FALSE, NUL>>
                                         THEN <<FALSE, Newline>> ELSE DelimiterOf(s)
<1> DEFINE t == apply_line_mode(s)
           v == reset_logical_end_of_input_marker(enable_terminate_on_too_large_command(t))
           w == apply_limits(t)
           x == set_arg_delimiter(w, Newline)
<1> USE DEF LimitsOf, DelimiterOf
<1>1. /\ t \in OptionsRecord /\ t.arg_placeholder = s.arg_placeholder
      /\ LimitsOf(t) = LimitsOf(s) /\ DelimiterOf(t) = DelimiterOf(s)
  BY DEF apply_line_mode, enable_terminate_on_too_large_command, OptionsRecord
<1> HIDE DEF t
<1>2. v \in OptionsRecord /\ LimitsOf(v) = LimitsOf(t) /\ DelimiterOf(v) = DelimiterOf(t)
  BY <1>1, OptionsAssumption DEF reset_logical_end_of_input_marker,
     enable_terminate_on_too_large_command, OptionsRecord
<1>3. w = [v EXCEPT !.max_lines_per_command = 1]
  BY DEF apply_limits
<1> HIDE DEF v, w
<1>4. /\ w \in OptionsRecord /\ DelimiterOf(w) = DelimiterOf(t)
      /\ LimitsOf(w) = <<t.arg_placeholder, t.line_mode_specified, 1, t.max_args_per_command>>
  BY <1>2, <1>3 DEF OptionsRecord
<1>5. LimitsOf(x) = LimitsOf(w) /\ DelimiterOf(x) = <<FALSE, Newline>>
  BY <1>4 DEF set_arg_delimiter, OptionsRecord
<1> HIDE DEF x
<1>6. apply_placeholder(t) = IF t.arg_placeholder = NULL THEN t
                             ELSE IF DelimiterOf(t) = <<FALSE, NUL>> THEN x ELSE w
  BY <1>1 DEF apply_placeholder, w, x, OptionsRecord
<1> QED
  BY <1>1, <1>4, <1>5, <1>6 DEF t

\* Of the first n options the k-th is the last that is one of the letters; 0 if
\* none is.
IsLastUpTo(k, n, letters) ==
  /\ k \in 0..n
  /\ k # 0 => argv[k].opt \in letters
  /\ \A j \in (k + 1)..n : argv[j].opt \notin letters

LEMMA LastUpToEnd ==
  ASSUME Len(argv) \in Nat, NEW letters, NEW k, IsLastUpTo(k, Len(argv), letters)
  PROVE  LastOf(letters) = k
<1> DEFINE given == {i \in 1..Len(argv) : argv[i].opt \in letters}
<1>1. CASE k = 0
  BY <1>1 DEF IsLastUpTo, LastOf
<1>2. CASE k # 0
  <2>1. k \in given /\ \A j \in given : j <= k
    BY <1>2 DEF IsLastUpTo
  <2>2. \A i \in given : (\A j \in given : j <= i) => i = k
    BY <2>1
  <2> QED
    BY <2>1, <2>2 DEF LastOf
<1> QED
  BY <1>1, <1>2

\* The next option becomes the last, or the last one stays.
LEMMA NextOfLetters ==
  ASSUME NEW n \in Nat, NEW k, NEW letters, IsLastUpTo(k, n, letters)
  PROVE  IF argv[n + 1].opt \in letters THEN IsLastUpTo(n + 1, n + 1, letters)
                                        ELSE IsLastUpTo(k, n + 1, letters)
  BY DEF IsLastUpTo

LimitsFollow(k) ==
  LimitsOf(opts) = IF k = 0 THEN <<NULL, FALSE, 0, 0>> ELSE LimitsAsked(argv[k])

DelimiterFollows(k) ==
  DelimiterOf(opts) = IF k = 0 THEN <<FALSE, NUL>> ELSE DelimiterAsked(argv[k])

\* Strengthening: after any number of options, those that set the limits and the
\* delimiter last are in force.
FollowInv ==
  /\ OptionsInv
  /\ outcome = "parsing" =>
       /\ \E k : IsLastUpTo(k, optind, Limit) /\ LimitsFollow(k)
       /\ \E k : IsLastUpTo(k, optind, {"0", "d"}) /\ DelimiterFollows(k)
       /\ \A i \in 1..optind : accepted(argv[i])
  /\ LastLimitWins /\ SplitsAsAsked

LEMMA FollowInvInitially == Init => FollowInv
<1> SUFFICES ASSUME Init PROVE FollowInv
  OBVIOUS
<1>1. IsLastUpTo(0, 0, Limit) /\ IsLastUpTo(0, 0, {"0", "d"})
  BY DEF IsLastUpTo
<1>2. LimitsFollow(0) /\ DelimiterFollows(0)
  BY DEF Init, init_options, LimitsFollow, DelimiterFollows, LimitsOf, DelimiterOf
<1> QED
  BY <1>1, <1>2, OptionsInvInitially DEF Init, FollowInv, LastLimitWins, SplitsAsAsked

\* One more option keeps the last ones in force.
LEMMA OneMoreOption ==
  ASSUME FollowInv, parse_option, outcome' = "parsing"
  PROVE  /\ \E k : IsLastUpTo(k, optind, Limit)' /\ LimitsFollow(k)'
         /\ \E k : IsLastUpTo(k, optind, {"0", "d"})' /\ DelimiterFollows(k)'
         /\ \A i \in 1..optind' : accepted(argv'[i])
<1> DEFINE o == argv[optind + 1]
<1>1. /\ optind \in Nat /\ opts \in OptionsRecord /\ Occurrence(o) /\ accepted(o)
      /\ opts' = set_option(opts, o) /\ argv' = argv /\ optind' = optind + 1
  BY OptionListsAssumption DEF parse_option, FollowInv, OptionsInv, TypeOK
<1>2. /\ LimitsOf(opts') = IF o.opt \in Limit THEN LimitsAsked(o) ELSE LimitsOf(opts)
      /\ DelimiterOf(opts') = IF o.opt \in {"0", "d"} THEN DelimiterAsked(o)
                                                      ELSE DelimiterOf(opts)
  BY <1>1, OneOptionLimits, OneOptionDelimiter
<1>3. \E k : IsLastUpTo(k, optind, Limit)' /\ LimitsFollow(k)'
  <2>1. PICK k : IsLastUpTo(k, optind, Limit) /\ LimitsFollow(k)
    BY DEF FollowInv, parse_option
  <2>2. CASE o.opt \in Limit
    <3>1. PICK n \in Nat : n = optind + 1
      BY <1>1
    <3>2. IsLastUpTo(n, optind + 1, Limit)
      BY <1>1, <2>1, <2>2, <3>1, NextOfLetters
    <3>3. IsLastUpTo(n, optind, Limit)'
      BY <1>1, <3>2 DEF IsLastUpTo
    <3>4. n # 0 /\ argv'[n] = o
      BY <1>1, <3>1
    <3>5. LimitsFollow(n)'
      BY <1>2, <2>2, <3>4 DEF LimitsFollow
    <3> QED
      BY <3>3, <3>5
  <2>3. CASE o.opt \notin Limit
    <3>1. IsLastUpTo(k, optind + 1, Limit)
      BY <1>1, <2>1, <2>3, NextOfLetters
    <3>2. IsLastUpTo(k, optind, Limit)' /\ LimitsFollow(k)'
      BY <1>1, <1>2, <2>1, <2>3, <3>1 DEF IsLastUpTo, LimitsFollow
    <3> QED
      BY <3>2
  <2> QED
    BY <2>2, <2>3
<1>4. \E k : IsLastUpTo(k, optind, {"0", "d"})' /\ DelimiterFollows(k)'
  <2>1. PICK k : IsLastUpTo(k, optind, {"0", "d"}) /\ DelimiterFollows(k)
    BY DEF FollowInv, parse_option
  <2>2. CASE o.opt \in {"0", "d"}
    <3>1. PICK n \in Nat : n = optind + 1
      BY <1>1
    <3>2. IsLastUpTo(n, optind + 1, {"0", "d"})
      BY <1>1, <2>1, <2>2, <3>1, NextOfLetters
    <3>3. IsLastUpTo(n, optind, {"0", "d"})'
      BY <1>1, <3>2 DEF IsLastUpTo
    <3>4. n # 0 /\ argv'[n] = o
      BY <1>1, <3>1
    <3>5. DelimiterFollows(n)'
      BY <1>2, <2>2, <3>4 DEF DelimiterFollows
    <3> QED
      BY <3>3, <3>5
  <2>3. CASE o.opt \notin {"0", "d"}
    <3>1. IsLastUpTo(k, optind + 1, {"0", "d"})
      BY <1>1, <2>1, <2>3, NextOfLetters
    <3>2. IsLastUpTo(k, optind, {"0", "d"})' /\ DelimiterFollows(k)'
      BY <1>1, <1>2, <2>1, <2>3, <3>1 DEF IsLastUpTo, DelimiterFollows
    <3> QED
      BY <3>2
  <2> QED
    BY <2>2, <2>3
<1>5. \A i \in 1..optind' : accepted(argv'[i])
  BY <1>1 DEF FollowInv, parse_option
<1> QED
  BY <1>3, <1>4, <1>5

\* What the loop has left in force is what configure_options builds on.
LEMMA LastOnesDecide ==
  ASSUME FollowInv, configure_options
  PROVE  LastLimitWins' /\ SplitsAsAsked'
<1>1. PICK k : IsLastUpTo(k, optind, Limit) /\ LimitsFollow(k)
  BY DEF FollowInv, configure_options
<1>2. PICK m : IsLastUpTo(m, optind, {"0", "d"}) /\ DelimiterFollows(m)
  BY DEF FollowInv, configure_options
<1>3. /\ optind = Len(argv) /\ Len(argv) \in Nat /\ opts \in OptionsRecord
      /\ \A i \in 1..Len(argv) : Occurrence(argv[i]) /\ accepted(argv[i])
      /\ opts' = apply_placeholder(apply_line_mode(opts)) /\ argv' = argv
  BY OptionListsAssumption DEF FollowInv, OptionsInv, TypeOK, configure_options
<1>4. LastOf(Limit) = k /\ LastOf({"0", "d"}) = m
  BY <1>1, <1>2, <1>3, LastUpToEnd
<1>5. LastOf(Limit)' = k /\ LastOf({"0", "d"})' = m
  BY <1>3, <1>4 DEF LastOf
<1>6. k = 0 \/ (k \in 1..Len(argv) /\ argv[k].opt \in Limit)
  BY <1>1, <1>3 DEF IsLastUpTo
<1>7. m = 0 \/ (m \in 1..Len(argv) /\ argv[m].opt \in {"0", "d"})
  BY <1>2, <1>3 DEF IsLastUpTo
<1>8. k # 0 /\ argv[k].opt = "I" => argv[k].arg \in Names
  BY <1>3, <1>6 DEF Occurrence, NumberOptions, NameOptions, Flags
<1>9. m # 0 /\ argv[m].opt = "d" => argv[m].arg[1] \in Chars \ {NUL}
  BY <1>3, <1>7 DEF Occurrence, accepted, NumberOptions, NameOptions, Flags
<1>10. LastLimitWins'
  <2>1. CASE k = 0
    <3>1. LimitsOf(opts) = <<NULL, FALSE, 0, 0>> /\ opts.arg_placeholder = NULL
      BY <1>1, <2>1 DEF LimitsFollow, LimitsOf
    <3>2. LimitsOf(opts') = <<NULL, FALSE, 0, 0>>
      BY <1>3, <3>1, ConfiguringDecides
    <3> QED
      BY <1>5, <2>1, <3>2 DEF LastLimitWins, IsLast, LimitsOf
  <2>2. CASE k # 0 /\ argv[k].opt = "I"
    <3>1. LimitsOf(opts) = <<argv[k].arg, FALSE, 0, 0>> /\ opts.arg_placeholder # NULL
      BY <1>1, <1>8, <2>2, OptionsAssumption DEF LimitsFollow, LimitsOf, LimitsAsked
    <3>2. LimitsOf(opts') = <<argv[k].arg, FALSE, 1, 0>>
      BY <1>3, <3>1, ConfiguringDecides DEF LimitsOf
    <3> QED
      BY <1>3, <1>5, <2>2, <3>2 DEF LastLimitWins, IsLast, LimitsOf
  <2>3. CASE k # 0 /\ argv[k].opt = "L"
    <3>1. LimitsOf(opts) = <<NULL, TRUE, argv[k].arg, 0>> /\ opts.arg_placeholder = NULL
      BY <1>1, <2>3 DEF LimitsFollow, LimitsOf, LimitsAsked
    <3>2. LimitsOf(opts') = <<NULL, TRUE, argv[k].arg, 0>>
      BY <1>3, <3>1, ConfiguringDecides
    <3> QED
      BY <1>3, <1>5, <2>3, <3>2 DEF LastLimitWins, IsLast, LimitsOf
  <2>4. CASE k # 0 /\ argv[k].opt = "n"
    <3>1. LimitsOf(opts) = <<NULL, FALSE, 0, argv[k].arg>> /\ opts.arg_placeholder = NULL
      BY <1>1, <2>4 DEF LimitsFollow, LimitsOf, LimitsAsked
    <3>2. LimitsOf(opts') = <<NULL, FALSE, 0, argv[k].arg>>
      BY <1>3, <3>1, ConfiguringDecides
    <3> QED
      BY <1>3, <1>5, <2>4, <3>2 DEF LastLimitWins, IsLast, LimitsOf
  <2> QED
    BY <1>6, <2>1, <2>2, <2>3, <2>4 DEF Limit
<1>11. opts.arg_placeholder # NULL <=> k # 0 /\ argv[k].opt = "I"
  BY <1>1, <1>6, <1>8, OptionsAssumption DEF LimitsFollow, LimitsOf, LimitsAsked, Limit
<1>12. IsLast("I", Limit)' <=> k # 0 /\ argv[k].opt = "I"
  BY <1>3, <1>5 DEF IsLast
<1>13. SplitsAsAsked'
  <2>1. CASE m = 0
    <3>1. DelimiterOf(opts) = <<FALSE, NUL>>
      BY <1>2, <2>1 DEF DelimiterFollows
    <3>2. DelimiterOf(opts') = IF k # 0 /\ argv[k].opt = "I" THEN <<FALSE, Newline>>
                                                             ELSE <<FALSE, NUL>>
      BY <1>3, <1>11, <3>1, ConfiguringDecides
    <3> QED
      BY <1>5, <1>12, <2>1, <3>2, OptionsAssumption
         DEF SplitsAsAsked, DelimiterOf, UsesDelimTokenizer
  <2>2. CASE m # 0
    <3>1. /\ DelimiterOf(opts) = DelimiterAsked(argv[m])
          /\ DelimiterAsked(argv[m]) # <<FALSE, NUL>>
      BY <1>2, <1>7, <1>9, <2>2 DEF DelimiterFollows, DelimiterAsked
    <3>2. DelimiterOf(opts') = DelimiterAsked(argv[m])
      BY <1>3, <3>1, ConfiguringDecides
    <3> QED
      BY <1>3, <1>5, <1>7, <1>9, <2>2, <3>2
         DEF SplitsAsAsked, DelimiterOf, DelimiterAsked, UsesDelimTokenizer
  <2> QED
    BY <2>1, <2>2
<1> QED
  BY <1>10, <1>13

LEMMA FollowInvPreserved == FollowInv /\ [Next]_vars => FollowInv'
<1> SUFFICES ASSUME FollowInv, [Next]_vars PROVE FollowInv'
  OBVIOUS
<1>1. OptionsInv'
  BY OptionsInvPreserved DEF FollowInv
<1>2. CASE parse_option
  <2>1. outcome' # "configured"
    BY <1>2 DEF parse_option
  <2> QED
    BY <1>1, <1>2, <2>1, OneMoreOption DEF FollowInv, LastLimitWins, SplitsAsAsked
<1>3. CASE configure_options
  <2>1. outcome' # "parsing"
    BY <1>3 DEF configure_options
  <2> QED
    BY <1>1, <1>3, <2>1, LastOnesDecide DEF FollowInv
<1>4. CASE UNCHANGED vars
  <2>1. /\ LastLimitWins' = LastLimitWins /\ SplitsAsAsked' = SplitsAsAsked
    BY <1>4 DEF vars, LastLimitWins, SplitsAsAsked, LastOf, IsLast, UsesDelimTokenizer
  <2> QED
    BY <1>1, <1>4, <2>1
       DEF vars, FollowInv, IsLastUpTo, LimitsFollow, DelimiterFollows
<1> QED
  BY <1>2, <1>3, <1>4 DEF Next, Done

LEMMA FollowInvAlways == Spec => []FollowInv
  BY FollowInvInitially, FollowInvPreserved, PTL DEF Spec

\* However often -I, -L and -n are given and in whatever order, commands are
\* created with the last of them in force, with its own argument, and with
\* nothing of the others (the setters of options.c, configure_options).
THEOREM LastLimitDecides == Spec => []LastLimitWins
  BY FollowInvAlways, PTL DEF FollowInv

\* The tokenizer and its delimiter are those of the last of -0 and -d; without
\* either -I means lines, wherever it stands among the options
\* (configure_options, xargs_mode_create).
THEOREM LastDelimiterDecides == Spec => []SplitsAsAsked
  BY FollowInvAlways, PTL DEF FollowInv

=============================================================================
