------------------------------ MODULE WinMain ------------------------------
(***************************************************************************)
(* wWinMain of the Windows runner (windows/runner/main.cpp): the command   *)
(* line is converted (CommandLine) and handed to the engine's project,     *)
(* then the window lives and dies (Win32Window).                           *)
(***************************************************************************)
EXTENDS Win32Window

CONSTANTS MaxArguments, MaxUnits, UIntModulus, MaxSize  \* those of CommandLine

VARIABLES argv, conversion, target_length, arguments    \* those of CommandLine

argumentVars == <<argv, conversion, target_length, arguments>>
mainVars     == <<vars, argumentVars>>

Arguments == INSTANCE CommandLine WITH pc <- conversion

ASSUME SizesAssumption == Arguments!SizesFit

MainInit == Init /\ Arguments!Init

ConvertArguments == Arguments!Next /\ UNCHANGED vars

\* set_dart_entrypoint_arguments takes the strings; LocalFree has released argv.  The
\* window is constructed behind this.
SetEntrypointArguments ==
  /\ conversion = "returned"
  /\ conversion' = "handed over"
  /\ argv' = Arguments!NullArgv
  /\ target_length' = 0
  /\ arguments' = <<>>
  /\ UNCHANGED vars

\* The window and its messages.
Window(step) == conversion = "handed over" /\ step /\ UNCHANGED argumentVars

\* An exception that nobody caught has ended the program.
Terminated == conversion = "terminated" /\ UNCHANGED mainVars

MainNext == ConvertArguments \/ SetEntrypointArguments \/ Window(Next) \/ Terminated

\* The thread goes on with what it has begun and with the messages that were posted.
MainSpec == MainInit /\ [][MainNext]_mainVars /\ WF_mainVars(Window(Step))

-----------------------------------------------------------------------------
(* Properties. *)

\* The engine gets each argument in its place, converted or empty, as CommandLine
\* states it.
ArgumentsArriveInPlace == Arguments!ArgumentsArriveInPlace

=============================================================================
