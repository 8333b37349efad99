---------------------------- MODULE CommandLine ----------------------------
(***************************************************************************)
(* GetCommandLineArguments and Utf8FromUtf16 of the Windows runner         *)
(* (windows/runner/utils.cpp), called once by wWinMain.                    *)
(*                                                                         *)
(* A UTF-16 string is the sequence of the kinds of its units; a UTF-8      *)
(* string is the number of its text bytes and of the NULs behind them.     *)
(***************************************************************************)
EXTENDS Integers, Sequences, SequencesExt

CONSTANTS
  MaxArguments,   \* bound: arguments behind the name of the binary
  MaxUnits,       \* bound: UTF-16 units of an argument
  UIntModulus,    \* 2^32, scaled down
  MaxSize         \* std::string::max_size() of the build, scaled down

VARIABLES
  argv,           \* what CommandLineToArgvW returned
  pc,             \* the next statement
  target_length,  \* of the argument being converted
  arguments       \* command_line_arguments

vars == <<argv, pc, target_length, arguments>>

-----------------------------------------------------------------------------
(* WideCharToMultiByte with CP_UTF8 and WC_ERR_INVALID_CHARS (external). *)

\* Units below 0x80, below 0x800 and above, and the two kinds of surrogates.
Bytes == [one |-> 1, two |-> 2, three |-> 3, high |-> 2, low |-> 2]

Units == DOMAIN Bytes

WellFormed(s) ==
  \A i \in DOMAIN s :
    /\ s[i] = "high" => i < Len(s) /\ s[i + 1] = "low"
    /\ s[i] = "low" => i > 1 /\ s[i - 1] = "high"

ByteLength(s) == FoldLeft(LAMBDA n, unit : n + Bytes[unit], 0, s)

\* With a length of -1 and no buffer: the bytes needed, the NUL included.
RequiredLength(s) == IF WellFormed(s) THEN ByteLength(s) + 1 ELSE 0

\* With a buffer: the bytes written, none if the buffer is too small for them.
ConvertedLength(s, size) == IF WellFormed(s) /\ ByteLength(s) <= size THEN ByteLength(s) ELSE 0

-----------------------------------------------------------------------------
NullArgv == <<>>

Strings == BoundedSeq(Units, MaxUnits)

\* No argument is too long for an int or for a std::string: Windows limits the command
\* line to 32767 units, and neither limit of the build is below 2^31 - 1.
SizesFit ==
  /\ MaxArguments \in Nat /\ MaxUnits \in Nat /\ UIntModulus \in Nat \ {0} /\ MaxSize \in Nat
  /\ \A s \in Strings : ByteLength(s) \in Nat /\ ByteLength(s) < UIntModulus \div 2 /\ ByteLength(s) <= MaxSize

EmptyString == [text |-> 0, nuls |-> 0]

Init ==
  /\ \/ argv = NullArgv
     \/ \E rest \in BoundedSeq(Strings, MaxArguments) : argv = <<<<"one">>>> \o rest
  /\ pc = "measure"
  /\ target_length = 0
  /\ arguments = <<>>

\* argv[i] of the loop, which begins behind the name of the binary.
Current == argv[Len(arguments) + 2]

Remaining == Len(arguments) + 1 < Len(argv)

push_back(string) == arguments' = Append(arguments, string)

\* Faulty variant of Measure: the NUL is counted.
MeasureWithNul ==
  /\ pc = "measure" /\ Remaining
  /\ target_length' = RequiredLength(Current) % UIntModulus
  /\ IF target_length' = 0 \/ target_length' > MaxSize
       THEN push_back(EmptyString) /\ UNCHANGED pc
       ELSE pc' = "resize" /\ UNCHANGED arguments
  /\ UNCHANGED argv

\* The first conversion and the early return on its length, an unsigned int.
Measure ==
  /\ pc = "measure" /\ Remaining
  /\ target_length' = (RequiredLength(Current) - 1) % UIntModulus
  /\ IF target_length' = 0 \/ target_length' > MaxSize
       THEN push_back(EmptyString) /\ UNCHANGED pc
       ELSE pc' = "resize" /\ UNCHANGED arguments
  /\ UNCHANGED argv

\* utf8_string.resize: four gigabytes may be there or not.  std::bad_alloc is caught
\* nowhere and ends the program.
Resize ==
  /\ pc = "resize"
  /\ pc' \in {"convert"} \cup (IF target_length = UIntModulus - 1 THEN {"terminated"} ELSE {})
  /\ UNCHANGED <<argv, target_length, arguments>>

\* The buffer's size is passed as an int: what exceeds it arrives negative.
SignedLength == IF target_length < UIntModulus \div 2 THEN target_length ELSE target_length - UIntModulus

\* The second conversion, into the resized string.
Convert ==
  /\ pc = "convert"
  /\ LET converted_length == ConvertedLength(Current, SignedLength)
     IN  push_back(IF converted_length = 0
                     THEN EmptyString
                     ELSE [text |-> converted_length, nuls |-> target_length - converted_length])
  /\ pc' = "measure"
  /\ UNCHANGED <<argv, target_length>>

\* GetCommandLineArguments returns, at once if there is no argv.
Return ==
  /\ pc = "measure" /\ ~Remaining
  /\ pc' = "returned"
  /\ UNCHANGED <<argv, target_length, arguments>>

Next == Measure \/ Resize \/ Convert \/ Return

-----------------------------------------------------------------------------
(* Properties. *)

\* Whatever failed on the way, the engine gets one string for each argument behind
\* the name of the binary, in place: the bytes of the argument and not a NUL more, or
\* nothing for one that is not UTF-16.  A failed first conversion gets there by way of
\* the largest unsigned int, if that many bytes can be had.
ArgumentsArriveInPlace ==
  pc = "returned" =>
    /\ Len(arguments) = IF argv = NullArgv THEN 0 ELSE Len(argv) - 1
    /\ \A i \in DOMAIN arguments :
         arguments[i] = IF WellFormed(argv[i + 1])
                          THEN [text |-> ByteLength(argv[i + 1]), nuls |-> 0]
                          ELSE EmptyString

=============================================================================
