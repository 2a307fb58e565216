-------------------------------- MODULE Xargs --------------------------------
(***************************************************************************)
(* phxargs as src/src/xargs.c runs it: xargs_create looks for a            *)
(* placeholder among the options, and runs the mode of AppenderMode or     *)
(* that of ReplacerMode to its end.                                        *)
(***************************************************************************)
EXTENDS AppenderMode, ReplacerMode

xargs_create == ModeInit

xargs_run ==
  \/ ~opts.arg_placeholder /\ appender_mode_run
  \/ opts.arg_placeholder /\ replacer_mode_run

XargsSpec == xargs_create /\ [][xargs_run]_allVars

\* phxargs is scheduled, its input ends, and its children end.
FairXargsSpec ==
  /\ XargsSpec
  /\ WF_allVars(\/ process_pool_install_signal_handlers /\ UNCHANGED modeVars
                \/ PoolStep /\ UNCHANGED modeVars
                \/ ~opts.arg_placeholder /\ AppenderModeStep
                \/ opts.arg_placeholder /\ ReplacerModeStep
                \/ \E c \in Child : LaunchCommand(c))
  /\ \A c \in Child :
       WF_allVars((\E raw \in RawStatus : ChildExits(c, raw)) /\ UNCHANGED modeVars)

=============================================================================
