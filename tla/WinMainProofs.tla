--------------------------- MODULE WinMainProofs ---------------------------
(***************************************************************************)
(* Theorems about WinMain: what the engine gets of the command line, for   *)
(* any number of arguments of any length that Windows can pass, with a     *)
(* max_size() above or below the largest unsigned int; and what the        *)
(* window's handlers find while the window and the object are taken down   *)
(* inside each other.                                                      *)
(***************************************************************************)
EXTENDS WinMain, SequenceTheorems, TLAPS

-----------------------------------------------------------------------------
(* The conversion of one argument. *)

\* What argument s is to become.
Expected(s) ==
  IF Arguments!WellFormed(s) THEN [text |-> Arguments!ByteLength(s), nuls |-> 0] ELSE Arguments!EmptyString

\* What the first conversion measures.
Measured(s) == (Arguments!RequiredLength(s) - 1) % UIntModulus

LEMMA MeasuredLength ==
  ASSUME NEW s \in Arguments!Strings
  PROVE  /\ Arguments!ByteLength(s) \in Nat /\ Arguments!ByteLength(s) <= MaxSize
         /\ Arguments!ByteLength(s) < UIntModulus \div 2 /\ UIntModulus \in Nat \ {0} /\ MaxSize \in Nat
         /\ Arguments!WellFormed(s) => Measured(s) = Arguments!ByteLength(s)
         /\ ~Arguments!WellFormed(s) => Measured(s) = UIntModulus - 1
<1>1. /\ Arguments!ByteLength(s) \in Nat /\ Arguments!ByteLength(s) <= MaxSize /\ MaxSize \in Nat
      /\ Arguments!ByteLength(s) < UIntModulus \div 2 /\ UIntModulus \in Nat \ {0}
  BY SizesAssumption DEF Arguments!SizesFit
<1>2. UIntModulus \div 2 \in Nat /\ UIntModulus \div 2 < UIntModulus
  BY <1>1
<1>3. ASSUME Arguments!WellFormed(s) PROVE Measured(s) = Arguments!ByteLength(s)
  <2>1. Arguments!RequiredLength(s) - 1 = Arguments!ByteLength(s)
    BY <1>1, <1>3 DEF Arguments!RequiredLength
  <2>2. \A n \in Nat : n < UIntModulus => n % UIntModulus = n
    BY <1>1
  <2>3. QED BY <1>1, <1>2, <2>1, <2>2 DEF Measured
<1>4. ASSUME ~Arguments!WellFormed(s) PROVE Measured(s) = UIntModulus - 1
  <2>1. Arguments!RequiredLength(s) - 1 = -1
    BY <1>4 DEF Arguments!RequiredLength
  <2>2. (-1) % UIntModulus = UIntModulus - 1
    BY <1>1
  <2>3. QED BY <2>1, <2>2 DEF Measured
<1>5. QED BY <1>1, <1>3, <1>4

\* The early return gives what is due.
LEMMA ReturnedEarly ==
  ASSUME NEW s \in Arguments!Strings, Measured(s) = 0 \/ Measured(s) > MaxSize
  PROVE  Expected(s) = Arguments!EmptyString
<1>1. CASE Arguments!WellFormed(s)
  <2>1. Arguments!ByteLength(s) = 0
    BY <1>1, MeasuredLength
  <2>2. QED BY <1>1, <2>1 DEF Expected, Arguments!EmptyString
<1>2. CASE ~Arguments!WellFormed(s)
  BY <1>2 DEF Expected
<1>3. QED BY <1>1, <1>2

\* So does the second conversion, into a string of the measured length.
LEMMA ConvertedInFull ==
  ASSUME NEW s \in Arguments!Strings, target_length = Measured(s), Measured(s) # 0
  PROVE  Expected(s) =
           LET n == Arguments!ConvertedLength(s, Arguments!SignedLength)
           IN  IF n = 0 THEN Arguments!EmptyString ELSE [text |-> n, nuls |-> target_length - n]
<1>1. CASE Arguments!WellFormed(s)
  <2>1. target_length = Arguments!ByteLength(s) /\ target_length \in Nat /\ target_length < UIntModulus \div 2
    BY <1>1, MeasuredLength
  <2>2. Arguments!SignedLength = target_length
    BY <2>1 DEF Arguments!SignedLength
  <2>3. Arguments!ConvertedLength(s, Arguments!SignedLength) = target_length /\ target_length # 0
    BY <1>1, <2>1, <2>2 DEF Arguments!ConvertedLength
  <2>4. QED BY <1>1, <2>1, <2>3 DEF Expected
<1>2. CASE ~Arguments!WellFormed(s)
  BY <1>2 DEF Expected, Arguments!ConvertedLength
<1>3. QED BY <1>1, <1>2

-----------------------------------------------------------------------------
(* The loop. *)

\* What has been converted is right, and what is being converted is measured.
LoopInv ==
  conversion # "handed over" =>
    /\ Len(argv) \in Nat /\ \A i \in 2 .. Len(argv) : argv[i] \in Arguments!Strings
    /\ argv = Arguments!NullArgv => Len(argv) = 0
    /\ argv # Arguments!NullArgv => Len(argv) > 0
    /\ arguments \in Seq([text : Nat, nuls : Int])
    /\ Len(arguments) = 0 \/ Len(arguments) < Len(argv)
    /\ \A i \in 1 .. Len(arguments) : arguments[i] = Expected(argv[i + 1])
    /\ conversion \in {"resize", "convert"} =>
         /\ Arguments!Remaining
         /\ target_length = Measured(Arguments!Current) /\ target_length # 0
    /\ conversion = "returned" => ~Arguments!Remaining

LEMMA ExpectedType ==
  ASSUME NEW s \in Arguments!Strings
  PROVE  Expected(s) \in [text : Nat, nuls : Int]
<1>1. Arguments!ByteLength(s) \in Nat
  BY MeasuredLength
<1>2. QED BY <1>1 DEF Expected, Arguments!EmptyString

LEMMA Init_Loop == MainInit => LoopInv
<1>1. SUFFICES ASSUME MainInit PROVE LoopInv
  OBVIOUS
<1>2. conversion = "measure" /\ arguments = <<>>
  BY <1>1 DEF MainInit, Arguments!Init
<1>3. CASE argv = Arguments!NullArgv
  BY <1>2, <1>3 DEF LoopInv, Arguments!NullArgv
<1>4. CASE \E rest \in Arguments!BoundedSeq(Arguments!Strings, MaxArguments) : argv = <<<<"one">>>> \o rest
  <2> DEFINE S == Arguments!Strings
             name == <<"one">>
  <2>1. PICK rest \in Arguments!BoundedSeq(S, MaxArguments) : argv = <<name>> \o rest
    BY <1>4
  <2> HIDE DEF S, name
  <2>2. PICK n \in 0 .. MaxArguments : rest \in [1 .. n -> S]
    BY <2>1 DEF Arguments!BoundedSeq, Arguments!SeqOf
  <2>3. n \in Nat
    BY SizesAssumption DEF Arguments!SizesFit
  <2> DEFINE T == S \cup {name}
  <2>4. rest \in Seq(T) /\ Len(rest) = n /\ <<name>> \in Seq(T) /\ Len(<<name>>) = 1
    BY <2>2, <2>3
  <2> HIDE DEF T
  <2>5. /\ argv \in Seq(T) /\ Len(argv) = 1 + n
        /\ \A i \in 1 .. n + 1 : argv[i] = IF i <= 1 THEN <<name>>[i] ELSE rest[i - 1]
    BY <2>1, <2>3, <2>4, ConcatProperties
  <2>6. \A i \in 2 .. Len(argv) : argv[i] \in S
    BY <2>2, <2>3, <2>5
  <2>7. argv # <<>>
    BY <2>3, <2>5
  <2>8. Len(argv) \in Nat /\ Len(argv) > 0
    BY <2>3, <2>5
  <2>9. QED BY <1>2, <2>6, <2>7, <2>8 DEF LoopInv, Arguments!NullArgv, S
<1>5. QED BY <1>1, <1>3, <1>4 DEF MainInit, Arguments!Init

\* One more argument is there.
LEMMA PushedBack ==
  ASSUME LoopInv, conversion \in {"measure", "convert"}, Arguments!Remaining, UNCHANGED argv,
         Arguments!push_back(Expected(Arguments!Current)), conversion' = "measure"
  PROVE  LoopInv'
<1> DEFINE x == Expected(Arguments!Current)
           R == [text : Nat, nuls : Int]
           n == Len(arguments)
<1>1. /\ Len(argv) \in Nat /\ arguments \in Seq(R) /\ n + 1 < Len(argv)
      /\ \A i \in 1 .. n : arguments[i] = Expected(argv[i + 1])
      /\ \A i \in 2 .. Len(argv) : argv[i] \in Arguments!Strings
      /\ argv = Arguments!NullArgv => Len(argv) = 0
      /\ argv # Arguments!NullArgv => Len(argv) > 0
  BY DEF LoopInv, Arguments!Remaining
<1>2. n \in Nat
  BY <1>1, LenProperties
<1>3. Arguments!Current \in Arguments!Strings /\ Arguments!Current = argv[n + 2]
  BY <1>1, <1>2 DEF Arguments!Current
<1>4. x \in R
  BY <1>3, ExpectedType
<1>5. arguments' = Append(arguments, x) /\ x = Expected(argv[n + 2])
  BY <1>3 DEF Arguments!push_back
<1> HIDE DEF x, R
<1>6. /\ arguments' \in Seq(R) /\ Len(arguments') = n + 1 /\ arguments'[n + 1] = x
      /\ \A i \in 1 .. n : arguments'[i] = arguments[i]
  BY <1>1, <1>4, <1>5, AppendProperties
<1>7. ASSUME NEW i \in 1 .. n + 1 PROVE arguments'[i] = Expected(argv[i + 1])
  <2>1. CASE i = n + 1
    BY <1>2, <1>5, <1>6, <2>1
  <2>2. CASE i # n + 1
    <3>1. i \in 1 .. n
      BY <1>2, <2>2
    <3>2. QED BY <1>1, <1>6, <3>1
  <2>3. QED BY <2>1, <2>2
<1>8. Len(arguments') < Len(argv)
  BY <1>1, <1>6
<1> HIDE DEF n
<1>9. QED BY <1>1, <1>6, <1>7, <1>8 DEF LoopInv, R, Expected

LEMMA LoopStep == LoopInv /\ [MainNext]_mainVars => LoopInv'
<1>1. SUFFICES ASSUME LoopInv, [MainNext]_mainVars PROVE LoopInv'
  OBVIOUS
<1>2. CASE UNCHANGED argumentVars
  BY <1>1, <1>2 DEF argumentVars, LoopInv, Expected, Measured, Arguments!Remaining,
                    Arguments!Current
<1>3. CASE SetEntrypointArguments
  BY <1>3 DEF SetEntrypointArguments, LoopInv
<1>4. CASE Arguments!Measure
  <2>1. conversion = "measure" /\ Arguments!Remaining /\ UNCHANGED argv /\ target_length' = Measured(Arguments!Current)
    BY <1>4 DEF Arguments!Measure, Measured
  <2>2. Arguments!Current \in Arguments!Strings
    BY <1>1, <2>1, LenProperties DEF LoopInv, Arguments!Current, Arguments!Remaining
  <2>3. CASE target_length' = 0 \/ target_length' > MaxSize
    <3>1. Expected(Arguments!Current) = Arguments!EmptyString
      BY <2>1, <2>2, <2>3, ReturnedEarly
    <3>2. Arguments!push_back(Arguments!EmptyString) /\ UNCHANGED conversion
      BY <1>4, <2>3 DEF Arguments!Measure
    <3>3. QED BY <1>1, <2>1, <3>1, <3>2, PushedBack
  <2>4. CASE ~(target_length' = 0 \/ target_length' > MaxSize)
    <3>1. conversion' = "resize" /\ UNCHANGED arguments
      BY <1>4, <2>4 DEF Arguments!Measure
    <3>2. UNCHANGED <<Arguments!Remaining, Arguments!Current>>
      BY <2>1, <3>1 DEF Arguments!Remaining, Arguments!Current
    <3>3. QED BY <1>1, <2>1, <2>4, <3>1, <3>2 DEF LoopInv, Measured
  <2>5. QED BY <2>3, <2>4
<1>5. CASE Arguments!Resize
  <2>1. conversion = "resize" /\ conversion' \in {"convert", "terminated"} /\ UNCHANGED <<argv, target_length, arguments>>
    BY <1>5 DEF Arguments!Resize
  <2>2. UNCHANGED <<Arguments!Remaining, Arguments!Current>>
    BY <2>1 DEF Arguments!Remaining, Arguments!Current
  <2>3. QED BY <1>1, <2>1, <2>2 DEF LoopInv, Measured
<1>6. CASE Arguments!Convert
  <2>1. conversion = "convert" /\ conversion' = "measure" /\ UNCHANGED argv
    BY <1>6 DEF Arguments!Convert
  <2>2. Arguments!Remaining /\ target_length = Measured(Arguments!Current) /\ target_length # 0
    BY <1>1, <2>1 DEF LoopInv
  <2>3. Arguments!Current \in Arguments!Strings
    BY <1>1, <2>1, <2>2, LenProperties DEF LoopInv, Arguments!Current, Arguments!Remaining
  <2>4. Arguments!push_back(Expected(Arguments!Current))
    <3>1. Expected(Arguments!Current) =
            LET n == Arguments!ConvertedLength(Arguments!Current, Arguments!SignedLength)
            IN  IF n = 0 THEN Arguments!EmptyString ELSE [text |-> n, nuls |-> target_length - n]
      BY <2>2, <2>3, ConvertedInFull
    <3>2. QED BY <1>6, <3>1 DEF Arguments!Convert
  <2>5. QED BY <1>1, <2>1, <2>2, <2>4, PushedBack
<1>7. CASE Arguments!Return
  <2>1. conversion = "measure" /\ ~Arguments!Remaining /\ conversion' = "returned"
        /\ UNCHANGED <<argv, target_length, arguments>>
    BY <1>7 DEF Arguments!Return
  <2>2. UNCHANGED <<Arguments!Remaining, Arguments!Current>>
    BY <2>1 DEF Arguments!Remaining, Arguments!Current
  <2>3. QED BY <1>1, <2>1, <2>2 DEF LoopInv, Measured
<1>8. QED
  BY <1>1, <1>2, <1>3, <1>4, <1>5, <1>6, <1>7
  DEF MainNext, mainVars, ConvertArguments, Arguments!Next, Window, Terminated

\* However many arguments there are, the engine gets one string for each, in its place: what
\* is not UTF-16 arrives empty, and the length that wraps round to the largest unsigned int
\* never reaches the engine.
THEOREM ArgumentsConverted == MainSpec => []ArgumentsArriveInPlace
<1>1. LoopInv => ArgumentsArriveInPlace
  <2>1. SUFFICES ASSUME LoopInv, conversion = "returned"
                 PROVE  /\ Len(arguments) = IF argv = Arguments!NullArgv THEN 0 ELSE Len(argv) - 1
                        /\ \A i \in DOMAIN arguments : arguments[i] = Expected(argv[i + 1])
    BY DEF ArgumentsArriveInPlace, Arguments!ArgumentsArriveInPlace, Expected
  <2>2. /\ Len(argv) \in Nat /\ arguments \in Seq([text : Nat, nuls : Int])
        /\ argv = Arguments!NullArgv => Len(argv) = 0
        /\ argv # Arguments!NullArgv => Len(argv) > 0
        /\ Len(arguments) = 0 \/ Len(arguments) < Len(argv)
        /\ \A i \in 1 .. Len(arguments) : arguments[i] = Expected(argv[i + 1])
        /\ ~(Len(arguments) + 1 < Len(argv))
    BY <2>1 DEF LoopInv, Arguments!Remaining
  <2>3. Len(arguments) \in Nat /\ DOMAIN arguments = 1 .. Len(arguments)
    BY <2>2, LenProperties
  <2>4. QED BY <2>2, <2>3
<1>2. QED BY <1>1, Init_Loop, LoopStep, PTL DEF MainSpec

-----------------------------------------------------------------------------
(* The stack of calls. *)

\* What a frame may be named for.
Labels == Messages \cup
  {"Create", "CreateWindow", "OnCreate", "EnterLoop", "GetMessage", "Destroy", "ReleaseWindow",
   "ForgetWindow", "ReleaseClass", "DestroyWindow", "NcDestroy", "PostQuit",
   "~FlutterWindow", "~Win32Window", "Exit"}

\* The stack s with a call on top that is at label x.
Push(s, x) == Append(s, x)

\* A call on top of a stack of calls makes a stack of calls.
LEMMA PushTyped ==
  ASSUME NEW s \in Seq(Labels), NEW x \in Labels
  PROVE  Push(s, x) \in Seq(Labels)
BY DEF Push

\* The innermost call of such a stack, and the calls below it.
LEMMA Innermost ==
  ASSUME NEW s \in Seq(Labels), NEW x \in Labels, frames = Push(s, x)
  PROVE  At(x) /\ Top = x /\ Below = s
<1>1. /\ frames \in Seq(Labels) /\ frames # <<>> /\ Len(frames) = Len(s) + 1
      /\ frames[Len(frames)] = x /\ \A i \in 1 .. Len(s) : frames[i] = s[i]
  BY AppendProperties DEF Push
<1>2. Len(s) \in Nat
  OBVIOUS
<1>3. /\ Below \in Seq(Labels)
      /\ Len(Below) = Len(s)
      /\ \A i \in 1 .. Len(s) : Below[i] = s[i]
  <2>1. Below = SubSeq(frames, 1, Len(s))
    BY <1>1, <1>2 DEF Below
  <2>2. \A i \in 1 .. Len(s) : frames[i] \in Labels
    BY <1>1, <1>2
  <2>3. QED BY <1>1, <1>2, <2>1, <2>2, SubSeqProperties
<1>4. Below = s
  BY <1>3, SeqEqual
<1>5. QED BY <1>1, <1>4 DEF At, Top

\* Two sequences of one element make one of two.
LEMMA Pair ==
  ASSUME NEW z \in Labels, NEW w \in Labels
  PROVE  <<z>> \o <<w>> = <<z, w>>
<1>1. <<z>> \in Seq(Labels) /\ <<w>> \in Seq(Labels) /\ <<z, w>> \in Seq(Labels)
  OBVIOUS
<1>2. /\ Len(<<z>>) = 1 /\ Len(<<w>>) = 1 /\ Len(<<z, w>>) = 2
      /\ <<z>>[1] = z /\ <<w>>[1] = w /\ <<z, w>>[1] = z /\ <<z, w>>[2] = w
  OBVIOUS
<1> DEFINE both == <<z>> \o <<w>>
<1>3. both \in Seq(Labels) /\ Len(both) = 2 /\ both[1] = z /\ both[2] = w
  BY <1>1, <1>2, ConcatProperties
<1> DEFINE pair == <<z, w>>
<1>4. pair \in Seq(Labels) /\ Len(pair) = 2 /\ pair[1] = z /\ pair[2] = w
  BY <1>1, <1>2
<1> HIDE DEF both, pair
<1>5. \A i \in 1 .. Len(both) : both[i] = pair[i]
  BY <1>3, <1>4
<1>6. both = pair
  BY <1>3, <1>4, <1>5, SeqEqual
<1>7. QED BY <1>6 DEF both, pair

\* Two calls made are two calls on top.
LEMMA PushTwo ==
  ASSUME NEW t \in Seq(Labels), NEW z \in Labels, NEW w \in Labels
  PROVE  t \o <<z, w>> = Push(Push(t, z), w)
<1>1. <<z>> \in Seq(Labels) /\ <<w>> \in Seq(Labels)
  OBVIOUS
<1>2. t \o <<z, w>> = t \o (<<z>> \o <<w>>)
  BY Pair
<1>3. t \o (<<z>> \o <<w>>) = (t \o <<z>>) \o <<w>>
  BY <1>1, ConcatAssociative
<1>4. t \o <<z>> = Push(t, z) /\ Push(t, z) \in Seq(Labels)
  BY AppendIsConcat, PushTyped DEF Push
<1>5. Push(t, z) \o <<w>> = Push(Push(t, z), w)
  BY <1>4, AppendIsConcat DEF Push
<1>6. QED BY <1>2, <1>3, <1>4, <1>5

\* What the innermost call, over s, makes of the stack.
LEMMA Moves ==
  ASSUME NEW s \in Seq(Labels), NEW x \in Labels, frames = Push(s, x)
  PROVE  /\ Return => frames' = s
         /\ \A y \in Labels :
              /\ Goto(y) => frames' = Push(s, y)
              /\ ReturnInto(<<y>>) => frames' = Push(s, y)
              /\ Call(y, <<>>) => frames' = Push(s, y)
              /\ \A z \in Labels : Call(y, <<z>>) => frames' = Push(Push(s, y), z)
<1> USE Innermost
<1>1. \A t \in Seq(Labels), y \in Labels : t \o <<y>> = Push(t, y)
  BY AppendIsConcat DEF Push
<1>3. \A t \in Seq(Labels) : t \o <<>> = t
  BY ConcatEmptySeq
<1>4. \A y \in Labels : Push(s, y) \in Seq(Labels)
  BY PushTyped
<1>5. Return => frames' = s
  BY DEF Return
<1>6. ASSUME NEW y \in Labels
      PROVE  /\ Goto(y) => frames' = Push(s, y)
             /\ ReturnInto(<<y>>) => frames' = Push(s, y)
             /\ Call(y, <<>>) => frames' = Push(s, y)
  <2>1. Goto(y) => frames' = Push(s, y)
    BY DEF Goto, Push
  <2>2. ReturnInto(<<y>>) => frames' = Push(s, y)
    BY <1>1 DEF ReturnInto
  <2>3. Call(y, <<>>) => frames' = Push(s, y)
    BY <1>3, <1>4 DEF Call, Push
  <2>4. QED BY <2>1, <2>2, <2>3
<1>7. ASSUME NEW y \in Labels, NEW z \in Labels
      PROVE  Call(y, <<z>>) => frames' = Push(Push(s, y), z)
  BY <1>1, <1>4 DEF Call, Push
<1>8. QED BY <1>5, <1>6, <1>7

\* The same, with the call that is made first.
LEMMA CallsOne ==
  ASSUME NEW s \in Seq(Labels), NEW x \in Labels, frames = Push(s, x),
         NEW y \in Labels, NEW z \in Labels, Call(y, <<z>>)
  PROVE  frames' = Push(Push(s, y), z)
BY Moves

\* The innermost call goes on at y when z and w, which it calls first, have returned.
CallTwo(y, z, w) == Call(y, <<z, w>>)

\* What the stack is then.
LEMMA CallsTwo ==
  ASSUME Below \in Seq(Labels), NEW y \in Labels, NEW z \in Labels, NEW w \in Labels, CallTwo(y, z, w)
  PROVE  frames' = Push(Push(Push(Below, y), z), w)
<1>1. frames' = Push(Below, y) \o <<z, w>> /\ Push(Below, y) \in Seq(Labels)
  BY PushTyped DEF CallTwo, Call, Push
<1>2. QED BY <1>1, PushTwo

\* Which action a label stands for.
LEMMA Acts ==
  ASSUME NEW x, Top = x, Step
  PROVE  /\ x = "Create" => Create
         /\ x = "CreateWindow" => CreateWindow
         /\ x = "OnCreate" => OnCreate
         /\ x = "EnterLoop" => EnterLoop
         /\ x = "GetMessage" => FirstFrame \/ Quit \/ \E message \in Messages : Dispatch(message)
         /\ x = "Destroy" => Destroy
         /\ x = "ReleaseWindow" => ReleaseWindow
         /\ x = "ForgetWindow" => ForgetWindow
         /\ x = "ReleaseClass" => ReleaseClass
         /\ x = "DestroyWindow" => DestroyWindow
         /\ x = "NcDestroy" => NcDestroy
         /\ x = "PostQuit" => PostQuit
         /\ x = "~FlutterWindow" => DestructFlutterWindow
         /\ x = "~Win32Window" => DestructWin32Window
         /\ x = "WM_DESTROY" => HandleDestroy
         /\ x \in Messages \ {"WM_DESTROY"} => Handle(x)
         /\ x # "Exit"
<1>1. /\ EnterLoop => x = "EnterLoop"
      /\ FirstFrame => x = "GetMessage"
      /\ Quit => x = "GetMessage"
      /\ Create => x = "Create"
      /\ CreateWindow => x = "CreateWindow"
      /\ OnCreate => x = "OnCreate"
      /\ HandleDestroy => x = "WM_DESTROY"
      /\ PostQuit => x = "PostQuit"
      /\ Destroy => x = "Destroy"
      /\ ReleaseWindow => x = "ReleaseWindow"
      /\ ForgetWindow => x = "ForgetWindow"
      /\ ReleaseClass => x = "ReleaseClass"
      /\ DestroyWindow => x = "DestroyWindow"
      /\ NcDestroy => x = "NcDestroy"
      /\ DestructFlutterWindow => x = "~FlutterWindow"
      /\ DestructWin32Window => x = "~Win32Window"
      /\ \A message \in Messages :
           /\ Handle(message) => x = message /\ x # "WM_DESTROY"
           /\ Dispatch(message) => x = "GetMessage"
  BY DEF At, EnterLoop, FirstFrame, Quit, Create, CreateWindow, OnCreate, HandleDestroy, PostQuit,
         Destroy, ReleaseWindow, ForgetWindow, ReleaseClass, DestroyWindow, NcDestroy,
         DestructFlutterWindow, DestructWin32Window, Handle, Dispatch
<1>2. QED BY <1>1 DEF Step, Messages

-----------------------------------------------------------------------------
(* The life of the window. *)

\* wWinMain is at x; Create, OnCreate, the message loop and ~Win32Window have called
\* something that is at x.
Main(x)       == Push(<<>>, x)
InCreate(x)   == Push(Main("CreateWindow"), x)
InOnCreate(x) == Push(Main("OnCreate"), x)
InLoop(x)     == Push(Main("GetMessage"), x)
InExit(x)     == Push(Main("Exit"), x)

\* The system destroys the window and has called its handler, and that has called
\* Destroy: because the user closes the window, or because the destructor destroys it.
Closing(x)    == Push(InLoop("NcDestroy"), x)
InClosing(x)  == Push(Closing("PostQuit"), x)
Releasing(x)  == Push(InExit("ForgetWindow"), x)
Ending(x)     == Push(Releasing("NcDestroy"), x)
InEnding(x)   == Push(Ending("PostQuit"), x)

\* The messages that Post puts into the queue.
Posted == {"WM_SIZE", "WM_DPICHANGED", "WM_ACTIVATE", "WM_FONTCHANGE", "WM_CLOSE"}

\* The object before and after ~FlutterWindow has returned.
Whole  == object = "FlutterWindow" /\ count = 1
Halved == object = "Win32Window" /\ count = 0 /\ controller = "null"

\* The view is there, and the window has it.
Filled == controller = "live" /\ child = "live"

\* Create has not made the window yet.
Starting ==
  /\ frames \in {Main("Create"), InCreate("Destroy"), InCreate("ReleaseWindow"),
                 InCreate("ReleaseClass"), Main("CreateWindow")}
  /\ Whole /\ quit = FALSE /\ shown = FALSE
  /\ window = "none" /\ window_handle = FALSE
  /\ controller = "null" /\ child = "null" /\ queue = {}

\* The window is made and OnCreate has not filled it yet.
Opening ==
  /\ frames \in {InOnCreate("WM_SIZE"), Main("OnCreate")}
  /\ Whole /\ quit = FALSE /\ shown = FALSE
  /\ window = "alive" /\ window_handle = TRUE
  /\ controller = "null" /\ child = "null" /\ queue \subseteq Posted

\* The loop, and the handlers that it calls; the last one destroys the window.
Running ==
  /\ frames \in {Main("EnterLoop"), Main("GetMessage"), InLoop("DestroyWindow"),
                 Push(InLoop("WM_SIZE"),
                 "WM_ACTIVATE")} \cup {InLoop(message) : message \in Posted}
  /\ Whole /\ quit = FALSE
  /\ window = "alive" /\ window_handle = TRUE
  /\ Filled /\ queue \subseteq Posted

\* The user closes the window: its handlers may still use the view.
Deactivating ==
  /\ frames \in {Push(Closing("WM_DESTROY"), "WM_ACTIVATE"), Closing("WM_DESTROY")}
  /\ Whole /\ window = "destroying" /\ window_handle = TRUE /\ Filled

\* The handle is forgotten, so that the Destroy inside destroys nothing again.
Unfilling ==
  /\ frames = InClosing("Destroy")
  /\ Whole /\ window = "destroying" /\ window_handle = FALSE /\ Filled

\* The view is gone, and no handler that would use it is called any more.
Emptied ==
  /\ frames \in {Push(InClosing("ReleaseWindow"), "WM_PARENTNOTIFY"), InClosing("ReleaseWindow"),
                 InClosing("ReleaseClass"), Closing("PostQuit"), InLoop("NcDestroy")}
  /\ Whole /\ window = "destroying" /\ window_handle = FALSE /\ controller = "null"

\* The window is gone; the loop waits for WM_QUIT.
Closed ==
  /\ frames = Main("GetMessage")
  /\ Whole /\ window = "destroyed" /\ window_handle = FALSE /\ controller = "null" /\ queue = {}

\* A window that is still there when it is destructed was never shown; the handle may also
\* be that of a window that was never made.
Unshown ==
  \/ window \in {"alive", "refused"} /\ window_handle = TRUE /\ shown = FALSE
  \/ window \in {"none", "destroyed"} /\ window_handle = FALSE

\* The destructors, after the loop or after a failure.
Destructing == frames = Main("~FlutterWindow") /\ Whole /\ Unshown

Halving == frames = Main("~Win32Window") /\ Whole /\ Unshown /\ controller = "null"

Leaving == frames \in {InExit("Destroy"), InExit("ReleaseWindow")} /\ Halved /\ Unshown

\* A window that is left, because the engine failed, is destroyed by ~Win32Window, ...
Released ==
  /\ frames = Releasing("DestroyWindow")
  /\ Halved /\ window \in {"alive", "refused"} /\ window_handle = TRUE /\ shown = FALSE

\* ... its handler is called, ...
Notified ==
  /\ frames = Ending("WM_DESTROY")
  /\ Halved /\ window = "destroying" /\ window_handle = TRUE

\* ... which calls Destroy inside Destroy, where the class cannot be unregistered yet, ...
Ended ==
  /\ frames \in {InEnding("Destroy"), InEnding("ReleaseWindow"), InEnding("ReleaseClass"),
                 Ending("PostQuit"), Releasing("NcDestroy")}
  /\ Halved /\ window = "destroying" /\ window_handle = FALSE

\* ... and the outer Destroy unregisters it when the window is gone.
Gone ==
  /\ Halved /\ window \in {"none", "destroyed", "refused"}
  /\ \/ /\ frames = InExit("ForgetWindow")
        /\ window_handle = FALSE \/ (window_handle = TRUE /\ window = "refused")
     \/ frames = InExit("ReleaseClass") /\ window_handle = FALSE

\* wWinMain has returned.
Finished ==
  /\ frames = Main("Exit")
  /\ Halved /\ window \in {"none", "destroyed", "refused"} /\ window_handle = FALSE
  /\ os_class = FALSE /\ class_registered = FALSE

\* The phases of the window: each names the calls that may be active and what is there.
WindowInv ==
  \/ Starting \/ Opening \/ Running
  \/ Deactivating \/ Unfilling \/ Emptied \/ Closed
  \/ Destructing \/ Halving \/ Leaving
  \/ Released \/ Notified \/ Ended \/ Gone \/ Finished

\* Every label is one.
LEMMA LabelFacts ==
  /\ Messages \subseteq Labels
  /\ "WM_DESTROY" \in Messages /\ "WM_CLOSE" \in Messages /\ "WM_SIZE" \in Messages
  /\ "WM_DPICHANGED" \in Messages /\ "WM_ACTIVATE" \in Messages /\ "WM_FONTCHANGE" \in Messages
  /\ "WM_PARENTNOTIFY" \in Messages
  /\ "Create" \in Labels /\ "CreateWindow" \in Labels /\ "OnCreate" \in Labels
  /\ "EnterLoop" \in Labels /\ "GetMessage" \in Labels /\ "Destroy" \in Labels
  /\ "ReleaseWindow" \in Labels /\ "ForgetWindow" \in Labels /\ "ReleaseClass" \in Labels
  /\ "DestroyWindow" \in Labels /\ "NcDestroy" \in Labels /\ "PostQuit" \in Labels
  /\ "~FlutterWindow" \in Labels /\ "~Win32Window" \in Labels /\ "Exit" \in Labels
BY DEF Labels, Messages

\* What calls are made on top of is a stack of calls.
LEMMA Bases ==
  /\ <<>> \in Seq(Labels)
  /\ \A x \in Labels :
       /\ Main(x) \in Seq(Labels)
       /\ InLoop(x) \in Seq(Labels)
       /\ Closing(x) \in Seq(Labels)
       /\ InClosing(x) \in Seq(Labels)
       /\ InExit(x) \in Seq(Labels)
       /\ Releasing(x) \in Seq(Labels)
       /\ Ending(x) \in Seq(Labels)
<1>1. <<>> \in Seq(Labels)
  OBVIOUS
<1>2. \A x \in Labels : Main(x) \in Seq(Labels)
  BY <1>1, PushTyped DEF Main
<1>3. \A x \in Labels : InLoop(x) \in Seq(Labels) /\ InExit(x) \in Seq(Labels)
  BY <1>2, PushTyped, LabelFacts DEF InLoop, InExit
<1>4. \A x \in Labels : Closing(x) \in Seq(Labels) /\ Releasing(x) \in Seq(Labels)
  BY <1>3, PushTyped, LabelFacts DEF Closing, Releasing
<1>5. \A x \in Labels : InClosing(x) \in Seq(Labels) /\ Ending(x) \in Seq(Labels)
  BY <1>4, PushTyped, LabelFacts DEF InClosing, Ending
<1>6. QED BY <1>1, <1>2, <1>3, <1>4, <1>5

\* Create finds nothing to destroy and makes the window, or fails.
LEMMA StartingStep ==
  ASSUME Starting, Step
  PROVE  Starting' \/ Opening' \/ Destructing'
<1> USE LabelFacts, Bases
<1>1. CASE frames = Main("Create")
  <2>1. Create
    BY <1>1, Innermost, Acts DEF Main
  <2>2. frames' = Push(Main("CreateWindow"), "Destroy")
    <3>1. Call("CreateWindow", <<"Destroy">>)
      BY <2>1 DEF Create
    <3>2. QED BY <1>1, <3>1, CallsOne DEF Main
  <2>3. QED BY <2>1, <2>2 DEF Create, InCreate, Starting, Whole, objectVars, windowVars,
                              viewVars, quitVars
<1>2. CASE frames = InCreate("Destroy")
  <2>1. Destroy
    BY <1>2, Innermost, Acts DEF InCreate
  <2>2. frames' = InCreate("ReleaseWindow")
    BY <1>2, <2>1, Moves DEF Destroy, Starting, InCreate
  <2>3. QED BY <2>1, <2>2 DEF Destroy, Starting, Whole, objectVars, windowVars, viewVars, quitVars
<1>3. CASE frames = InCreate("ReleaseWindow")
  <2>1. ReleaseWindow
    BY <1>3, Innermost, Acts DEF InCreate
  <2>2. frames' = InCreate("ReleaseClass")
    BY <1>3, <2>1, Moves DEF ReleaseWindow, Starting, InCreate
  <2>3. QED BY <2>1, <2>2 DEF ReleaseWindow, Starting, Whole, objectVars, windowVars, viewVars,
                              quitVars
<1>4. CASE frames = InCreate("ReleaseClass")
  <2>1. ReleaseClass
    BY <1>4, Innermost, Acts DEF InCreate
  <2>2. frames' = Main("CreateWindow")
    BY <1>4, <2>1, Moves DEF ReleaseClass, Starting, InCreate
  <2>3. QED BY <2>1, <2>2 DEF ReleaseClass, Starting, Whole, objectVars, windowVars, viewVars,
                              quitVars
<1>5. CASE frames = Main("CreateWindow")
  <2>1. CreateWindow
    BY <1>5, Innermost, Acts DEF Main
  <2>2. \/ /\ window' = "alive" /\ window_handle' = TRUE
           /\ frames' = InOnCreate("WM_SIZE")
        \/ /\ window' = "refused" /\ window_handle' = TRUE
           /\ frames' = Main("~FlutterWindow")
        \/ /\ UNCHANGED <<window, window_handle>>
           /\ frames' = Main("~FlutterWindow")
    BY <1>5, <2>1, Moves DEF CreateWindow, Main, InOnCreate
  <2>3. QED BY <2>1, <2>2 DEF CreateWindow, Opening, Destructing, Unshown, Posted, Starting,
                              Whole, objectVars, windowVars, viewVars, quitVars
<1>6. QED BY <1>1, <1>2, <1>3, <1>4, <1>5 DEF Starting

\* OnCreate fills the window, or fails.
LEMMA OpeningStep ==
  ASSUME Opening, Step
  PROVE  Opening' \/ Running' \/ Destructing'
<1> USE LabelFacts, Bases
<1>1. CASE frames = InOnCreate("WM_SIZE")
  <2>1. Handle("WM_SIZE")
    BY <1>1, Innermost, Acts DEF InOnCreate
  <2>2. frames' = Main("OnCreate")
    BY <1>1, <2>1, Moves DEF Handle, InOnCreate
  <2>3. QED BY <2>1, <2>2 DEF Handle, Opening, Whole, Posted, objectVars, windowVars, viewVars,
                              quitVars
<1>2. CASE frames = Main("OnCreate")
  <2>1. OnCreate
    BY <1>2, Innermost, Acts DEF Main
  <2>2. \/ /\ controller' = "live" /\ child' = "live"
           /\ frames' = Main("EnterLoop")
        \/ frames' = Main("~FlutterWindow")
    BY <1>2, <2>1, Moves DEF OnCreate, Main
  <2>3. QED BY <2>1, <2>2 DEF OnCreate, Opening, Running, Destructing, Unshown, Filled, Whole,
                              Posted, objectVars, windowVars, viewVars, quitVars
<1>3. QED BY <1>1, <1>2 DEF Opening

\* The handle is forgotten before anything is taken down.
LEMMA DeactivatingStep ==
  ASSUME Deactivating, Step
  PROVE  Deactivating' \/ Unfilling'
<1> USE LabelFacts, Bases
<1>1. CASE frames = Push(Closing("WM_DESTROY"), "WM_ACTIVATE")
  <2>1. Handle("WM_ACTIVATE")
    BY <1>1, Innermost, Acts DEF Push
  <2>2. frames' = Closing("WM_DESTROY")
    BY <1>1, <2>1, Moves DEF Handle
  <2>3. QED BY <2>1, <2>2 DEF Handle, Deactivating, Filled, Whole, objectVars, windowVars,
                              viewVars, quitVars
<1>2. CASE frames = Closing("WM_DESTROY")
  <2>1. HandleDestroy
    BY <1>2, Innermost, Acts DEF Closing
  <2>2. frames' = Push(Closing("PostQuit"), "Destroy")
    <3>1. Call("PostQuit", <<"Destroy">>)
      BY <2>1 DEF HandleDestroy
    <3>2. QED BY <1>2, <3>1, CallsOne DEF Closing
  <2>3. QED BY <2>1, <2>2 DEF HandleDestroy, InClosing, Unfilling, Deactivating, Filled, Whole,
                              objectVars, windowVars, viewVars, quitVars
<1>3. QED BY <1>1, <1>2 DEF Deactivating

\* Destroy resets the controller while the window is still there to be told.
LEMMA UnfillingStep ==
  ASSUME Unfilling, Step
  PROVE  Emptied'
<1> USE LabelFacts, Bases
<1>1. CASE frames = InClosing("Destroy")
  <2>1. Destroy
    BY <1>1, Innermost, Acts DEF InClosing
  <2>2. frames' = Push(InClosing("ReleaseWindow"), "WM_PARENTNOTIFY")
    <3>1. Call("ReleaseWindow", <<"WM_PARENTNOTIFY">>)
      BY <2>1 DEF Destroy, Unfilling, Whole, Filled
    <3>2. QED BY <1>1, <3>1, CallsOne DEF InClosing
  <2>3. QED BY <2>1, <2>2 DEF Destroy, Unfilling, Emptied, Filled, Whole, objectVars,
                              windowVars, viewVars, quitVars
<1>2. QED BY <1>1 DEF Unfilling

\* Nothing is destroyed twice: the inner Destroy finds no handle, and the system ends
\* what it began.
LEMMA EmptiedStep ==
  ASSUME Emptied, Step
  PROVE  Emptied' \/ Closed'
<1> USE LabelFacts, Bases
<1>1. CASE frames = Push(InClosing("ReleaseWindow"), "WM_PARENTNOTIFY")
  <2>1. Handle("WM_PARENTNOTIFY")
    BY <1>1, Innermost, Acts DEF Push
  <2>2. frames' = InClosing("ReleaseWindow")
    BY <1>1, <2>1, Moves DEF Handle
  <2>3. QED BY <2>1, <2>2 DEF Handle, Emptied, Whole, objectVars, windowVars, viewVars, quitVars
<1>2. CASE frames = InClosing("ReleaseWindow")
  <2>1. ReleaseWindow
    BY <1>2, Innermost, Acts DEF InClosing
  <2>2. frames' = InClosing("ReleaseClass")
    BY <1>2, <2>1, Moves DEF ReleaseWindow, Emptied, InClosing
  <2>3. QED BY <2>1, <2>2 DEF ReleaseWindow, Emptied, Whole, objectVars, windowVars, viewVars,
                              quitVars
<1>3. CASE frames = InClosing("ReleaseClass")
  <2>1. ReleaseClass
    BY <1>3, Innermost, Acts DEF InClosing
  <2>2. frames' = Closing("PostQuit")
    BY <1>3, <2>1, Moves DEF ReleaseClass, InClosing
  <2>3. QED BY <2>1, <2>2 DEF ReleaseClass, Emptied, Whole, objectVars, windowVars, viewVars,
                              quitVars
<1>4. CASE frames = Closing("PostQuit")
  <2>1. PostQuit
    BY <1>4, Innermost, Acts DEF Closing
  <2>2. frames' = InLoop("NcDestroy")
    BY <1>4, <2>1, Moves DEF PostQuit, Closing
  <2>3. QED BY <2>1, <2>2 DEF PostQuit, Emptied, Whole, objectVars, windowVars, viewVars, quitVars
<1>5. CASE frames = InLoop("NcDestroy")
  <2>1. NcDestroy
    BY <1>5, Innermost, Acts DEF InLoop
  <2>2. frames' = Main("GetMessage")
    BY <1>5, <2>1, Moves DEF NcDestroy, InLoop
  <2>3. QED BY <2>1, <2>2 DEF NcDestroy, Closed, Emptied, Whole, objectVars, windowVars,
                              viewVars, quitVars
<1>6. QED BY <1>1, <1>2, <1>3, <1>4, <1>5 DEF Emptied

\* After that only the end of the loop is left.
LEMMA ClosedStep ==
  ASSUME Closed, Step
  PROVE  Destructing'
<1> USE LabelFacts, Bases
<1>1. CASE frames = Main("GetMessage")
  <2>1. Quit
    BY <1>1, Innermost, Acts DEF Main, Closed, FirstFrame, Dispatch
  <2>2. frames' = Main("~FlutterWindow")
    BY <1>1, <2>1, Moves DEF Quit, Main
  <2>3. QED BY <2>1, <2>2 DEF Quit, Destructing, Unshown, Closed, Whole, objectVars, windowVars,
                              viewVars, quitVars
<1>2. QED BY <1>1 DEF Closed

\* ~FlutterWindow takes the view.
LEMMA DestructingStep ==
  ASSUME Destructing, Step
  PROVE  Halving'
<1> USE LabelFacts, Bases
<1>1. CASE frames = Main("~FlutterWindow")
  <2>1. DestructFlutterWindow
    BY <1>1, Innermost, Acts DEF Main
  <2>2. frames' = Main("~Win32Window")
    BY <1>1, <2>1, Moves DEF DestructFlutterWindow, Main
  <2>3. QED BY <2>1, <2>2 DEF DestructFlutterWindow, Halving, Destructing, Unshown, Whole,
                              objectVars, windowVars, viewVars, quitVars
<1>2. QED BY <1>1 DEF Destructing

\* From here on the object is a Win32Window.
LEMMA HalvingStep ==
  ASSUME Halving, Step
  PROVE  Leaving'
<1> USE LabelFacts, Bases
<1>1. CASE frames = Main("~Win32Window")
  <2>1. DestructWin32Window
    BY <1>1, Innermost, Acts DEF Main
  <2>2. frames' = Push(Main("Exit"), "Destroy")
    <3>1. Call("Exit", <<"Destroy">>)
      BY <2>1 DEF DestructWin32Window
    <3>2. QED BY <1>1, <3>1, CallsOne DEF Main
  <2>3. QED BY <2>1, <2>2 DEF DestructWin32Window, InExit, Leaving, Halved, Halving, Unshown,
                              Whole, objectVars, windowVars, viewVars, quitVars
<1>2. QED BY <1>1 DEF Halving

\* Its destructor destroys a window that is left.
LEMMA LeavingStep ==
  ASSUME Leaving, Step
  PROVE  Leaving' \/ Released' \/ Gone'
<1> USE LabelFacts, Bases
<1>1. CASE frames = InExit("Destroy")
  <2>1. Destroy
    BY <1>1, Innermost, Acts DEF InExit
  <2>2. frames' = InExit("ReleaseWindow")
    BY <1>1, <2>1, Moves DEF Destroy, Leaving, Halved, InExit
  <2>3. QED BY <2>1, <2>2 DEF Destroy, Leaving, Unshown, Halved, objectVars, windowVars,
                              viewVars, quitVars
<1>2. CASE frames = InExit("ReleaseWindow")
  <2>1. ReleaseWindow
    BY <1>2, Innermost, Acts DEF InExit
  <2>2. \/ window_handle = TRUE /\ frames' = Push(InExit("ForgetWindow"), "DestroyWindow")
        \/ window_handle = FALSE /\ frames' = InExit("ReleaseClass")
    BY <1>2, <2>1, Moves DEF ReleaseWindow, Leaving, Unshown, Halved, InExit
  <2>3. QED BY <2>1, <2>2 DEF ReleaseWindow, Released, Gone, Releasing, Leaving, Unshown,
                              Halved, objectVars, windowVars, viewVars, quitVars
<1>3. QED BY <1>1, <1>2 DEF Leaving

\* A window that was never shown is not deactivated, and one never made is not destroyed.
LEMMA ReleasedStep ==
  ASSUME Released, Step
  PROVE  Notified' \/ Gone'
<1> USE LabelFacts, Bases
<1>1. frames = Releasing("DestroyWindow") /\ DestroyWindow
  BY Innermost, Acts DEF Releasing, Released
<1>2. CASE window = "alive"
  <2>1. frames' = Push(Releasing("NcDestroy"), "WM_DESTROY")
    <3>1. Call("NcDestroy", <<"WM_DESTROY">>)
      BY <1>1, <1>2 DEF DestroyWindow, Released
    <3>2. QED BY <1>1, <3>1, CallsOne DEF Releasing
  <2>2. QED BY <1>1, <1>2, <2>1 DEF DestroyWindow, Notified, Ending, Released, Halved,
                                    objectVars, windowVars, viewVars, quitVars
<1>3. CASE window = "refused"
  <2>1. frames' = InExit("ForgetWindow")
    BY <1>1, <1>3, Moves DEF DestroyWindow, Releasing
  <2>2. QED BY <1>1, <1>3, <2>1 DEF DestroyWindow, Gone, Released, Halved, objectVars,
                                    windowVars, viewVars, quitVars
<1>4. QED BY <1>2, <1>3 DEF Released

\* The handler calls Destroy inside Destroy.
LEMMA NotifiedStep ==
  ASSUME Notified, Step
  PROVE  Ended'
<1> USE LabelFacts, Bases
<1>1. CASE frames = Ending("WM_DESTROY")
  <2>1. HandleDestroy
    BY <1>1, Innermost, Acts DEF Ending
  <2>2. frames' = Push(Ending("PostQuit"), "Destroy")
    <3>1. Call("PostQuit", <<"Destroy">>)
      BY <2>1 DEF HandleDestroy
    <3>2. QED BY <1>1, <3>1, CallsOne DEF Ending
  <2>3. QED BY <2>1, <2>2 DEF HandleDestroy, InEnding, Ended, Notified, Halved, objectVars,
                              windowVars, viewVars, quitVars
<1>2. QED BY <1>1 DEF Notified

\* The inner Destroy finds no handle and unregisters the class in vain.
LEMMA EndedStep ==
  ASSUME Ended, Step
  PROVE  Ended' \/ Gone'
<1> USE LabelFacts, Bases
<1>1. CASE frames = InEnding("Destroy")
  <2>1. Destroy
    BY <1>1, Innermost, Acts DEF InEnding
  <2>2. frames' = InEnding("ReleaseWindow")
    BY <1>1, <2>1, Moves DEF Destroy, Ended, Halved, InEnding
  <2>3. QED BY <2>1, <2>2 DEF Destroy, Ended, Halved, objectVars, windowVars, viewVars, quitVars
<1>2. CASE frames = InEnding("ReleaseWindow")
  <2>1. ReleaseWindow
    BY <1>2, Innermost, Acts DEF InEnding
  <2>2. frames' = InEnding("ReleaseClass")
    BY <1>2, <2>1, Moves DEF ReleaseWindow, Ended, InEnding
  <2>3. QED BY <2>1, <2>2 DEF ReleaseWindow, Ended, Halved, objectVars, windowVars, viewVars,
                              quitVars
<1>3. CASE frames = InEnding("ReleaseClass")
  <2>1. ReleaseClass
    BY <1>3, Innermost, Acts DEF InEnding
  <2>2. frames' = Ending("PostQuit")
    BY <1>3, <2>1, Moves DEF ReleaseClass, InEnding
  <2>3. QED BY <2>1, <2>2 DEF ReleaseClass, Ended, Halved, objectVars, windowVars, viewVars,
                              quitVars
<1>4. CASE frames = Ending("PostQuit")
  <2>1. PostQuit
    BY <1>4, Innermost, Acts DEF Ending
  <2>2. frames' = Releasing("NcDestroy")
    BY <1>4, <2>1, Moves DEF PostQuit, Ending
  <2>3. QED BY <2>1, <2>2 DEF PostQuit, Ended, Halved, objectVars, windowVars, viewVars, quitVars
<1>5. CASE frames = Releasing("NcDestroy")
  <2>1. NcDestroy
    BY <1>5, Innermost, Acts DEF Releasing
  <2>2. frames' = InExit("ForgetWindow")
    BY <1>5, <2>1, Moves DEF NcDestroy, Releasing
  <2>3. QED BY <2>1, <2>2 DEF NcDestroy, Gone, Ended, Halved, objectVars, windowVars, viewVars,
                              quitVars
<1>6. QED BY <1>1, <1>2, <1>3, <1>4, <1>5 DEF Ended

\* The outer Destroy unregisters the class with no window left.
LEMMA GoneStep ==
  ASSUME Gone, Step
  PROVE  Gone' \/ Finished'
<1> USE LabelFacts, Bases
<1>1. CASE frames = InExit("ForgetWindow")
  <2>1. ForgetWindow
    BY <1>1, Innermost, Acts DEF InExit
  <2>2. frames' = InExit("ReleaseClass")
    BY <1>1, <2>1, Moves DEF ForgetWindow, InExit
  <2>3. QED BY <2>1, <2>2 DEF ForgetWindow, Gone, Halved, objectVars, windowVars, viewVars,
                              quitVars
<1>2. CASE frames = InExit("ReleaseClass") /\ window_handle = FALSE
  <2>1. ReleaseClass
    BY <1>2, Innermost, Acts DEF InExit
  <2>2. frames' = Main("Exit")
    BY <1>2, <2>1, Moves DEF ReleaseClass, InExit
  <2>3. QED BY <1>2, <2>1, <2>2 DEF ReleaseClass, Finished, Gone, Halved, objectVars, windowVars,
                              viewVars, quitVars
<1>3. QED BY <1>1, <1>2 DEF Gone

\* The messages leave the window as it is, until the user closes it.
LEMMA RunningStep ==
  ASSUME Running, Step
  PROVE  Running' \/ Deactivating'
<1> USE LabelFacts, Bases
<1> DEFINE Kept == UNCHANGED <<objectVars, window, window_handle, viewVars, quit>>
<1>1. ASSUME Kept, queue' \subseteq Posted,
             frames' \in {Main("EnterLoop"), Main("GetMessage"), InLoop("DestroyWindow"),
                         Push(InLoop("WM_SIZE"),
                         "WM_ACTIVATE")} \cup {InLoop(message) : message \in Posted}
      PROVE  Running'
  BY <1>1 DEF Running, Whole, Filled, objectVars, viewVars
<1>2. Posted \subseteq Messages \ {"WM_DESTROY"} /\ queue \subseteq Posted /\ quit = FALSE
  BY DEF Posted, Messages, Running
<1>3. CASE frames = Main("EnterLoop")
  <2>1. EnterLoop
    BY <1>3, Innermost, Acts DEF Main
  <2>2. frames' = Main("GetMessage")
    BY <1>3, <2>1, Moves DEF EnterLoop, Main
  <2>3. QED BY <1>1, <1>2, <2>1, <2>2 DEF EnterLoop, windowVars
<1>4. CASE frames = Main("GetMessage")
  <2>1. FirstFrame \/ \E message \in Messages : Dispatch(message)
    BY <1>2, <1>4, Innermost, Acts DEF Main, Quit
  <2>2. CASE FirstFrame
    <3>1. CallTwo("GetMessage", "WM_SIZE", "WM_ACTIVATE")
      BY <2>2 DEF FirstFrame, CallTwo
    <3>2. Below = <<>>
      BY <1>4, Innermost DEF Main
    <3>3. frames' = Push(Push(Push(<<>>, "GetMessage"), "WM_SIZE"), "WM_ACTIVATE")
      BY <3>1, <3>2, CallsTwo
    <3>4. frames' = Push(InLoop("WM_SIZE"), "WM_ACTIVATE")
      BY <3>3 DEF InLoop, Main
    <3>5. QED BY <1>1, <1>2, <2>2, <3>4 DEF FirstFrame, quitVars
  <2>3. ASSUME NEW message \in Messages, Dispatch(message)
        PROVE  Running'
    <3>1. Call("GetMessage", <<message>>) /\ message \in Posted
      BY <1>2, <2>3 DEF Dispatch
    <3>2. frames' = Push(Main("GetMessage"), message)
      BY <1>4, <3>1, CallsOne DEF Main
    <3>3. QED BY <1>1, <1>2, <2>3, <3>1, <3>2 DEF Dispatch, InLoop, windowVars, quitVars
  <2>4. QED BY <2>1, <2>2, <2>3
<1>5. ASSUME NEW message \in Posted, frames = InLoop(message)
      PROVE  Running'
  <2>1. Handle(message)
    BY <1>2, <1>5, Innermost, Acts DEF InLoop
  <2>2. frames' \in {Main("GetMessage"), InLoop("DestroyWindow"), InLoop("WM_SIZE")}
    BY <1>2, <1>5, <2>1, Moves DEF Handle, InLoop
  <2>3. "WM_SIZE" \in Posted
    BY DEF Posted
  <2>4. QED BY <1>1, <1>2, <2>1, <2>2, <2>3 DEF Handle, windowVars, quitVars
<1>6. CASE frames = Push(InLoop("WM_SIZE"), "WM_ACTIVATE")
  <2>1. Handle("WM_ACTIVATE")
    BY <1>6, Innermost, Acts
  <2>2. frames' = InLoop("WM_SIZE")
    BY <1>6, <2>1, Moves DEF Handle
  <2>3. "WM_SIZE" \in Posted
    BY DEF Posted
  <2>4. QED BY <1>1, <1>2, <2>1, <2>2, <2>3 DEF Handle, windowVars, quitVars
<1>7. CASE frames = InLoop("DestroyWindow")
  <2>1. DestroyWindow
    BY <1>7, Innermost, Acts DEF InLoop
  <2>2. \/ CallTwo("NcDestroy", "WM_DESTROY", "WM_ACTIVATE")
        \/ Call("NcDestroy", <<"WM_DESTROY">>)
    <3>1. <<"WM_DESTROY">> \o <<"WM_ACTIVATE">> = <<"WM_DESTROY", "WM_ACTIVATE">>
      BY Pair
    <3>2. <<"WM_DESTROY">> \o <<>> = <<"WM_DESTROY">>
      OBVIOUS
    <3>3. QED BY <2>1, <3>1, <3>2 DEF DestroyWindow, CallTwo, Running
  <2>3. \/ frames' = Push(Push(InLoop("NcDestroy"), "WM_DESTROY"), "WM_ACTIVATE")
        \/ frames' = Push(InLoop("NcDestroy"), "WM_DESTROY")
    <3>1. frames = Push(Main("GetMessage"), "DestroyWindow") /\ Below = Main("GetMessage")
      BY <1>7, Innermost DEF InLoop
    <3>2. ASSUME CallTwo("NcDestroy", "WM_DESTROY", "WM_ACTIVATE")
          PROVE  frames' = Push(Push(Push(Main("GetMessage"), "NcDestroy"), "WM_DESTROY"),
          "WM_ACTIVATE")
      <4>1. Below \in Seq(Labels)
        BY <3>1
      <4>2. frames' = Push(Push(Push(Below, "NcDestroy"), "WM_DESTROY"), "WM_ACTIVATE")
        BY <3>2, <4>1, CallsTwo
      <4>3. QED BY <3>1, <4>2
    <3>3. ASSUME Call("NcDestroy", <<"WM_DESTROY">>)
          PROVE  frames' = Push(Push(Main("GetMessage"), "NcDestroy"), "WM_DESTROY")
      BY <3>1, <3>3, CallsOne
    <3>4. QED BY <2>2, <3>2, <3>3 DEF InLoop
  <2>4. QED BY <2>1, <2>3 DEF DestroyWindow, Running, Deactivating, Closing, Whole, Filled,
                              objectVars, viewVars
<1>8. QED BY <1>3, <1>4, <1>5, <1>6, <1>7 DEF Running

\* Where nothing changes the phase is the same.
LEMMA PhasesKept ==
  ASSUME WindowInv, UNCHANGED vars
  PROVE  WindowInv'
<1>1. UNCHANGED <<frames, queue, object, count, window, window_handle, shown, controller, child,
                  class_registered, os_class, quit>>
  BY DEF vars, objectVars, windowVars, viewVars, classVars, quitVars
<1>2. QED BY <1>1 DEF WindowInv, Starting, Opening, Running, Deactivating, Unfilling, Emptied,
                   Closed, Destructing, Halving, Leaving, Released, Notified, Ended, Gone,
                   Finished,
                   Whole, Halved, Filled, Unshown

\* Every step goes on in the phase or enters the next.
LEMMA WindowStep ==
  ASSUME WindowInv, Next
  PROVE  WindowInv'
<1>1. ASSUME Step PROVE WindowInv'
  <2>1. ~Finished
    BY <1>1, Innermost, Acts, LabelFacts, Bases DEF Finished, Main
  <2>2. QED
    BY <1>1, <2>1, StartingStep, OpeningStep, RunningStep, DeactivatingStep, UnfillingStep,
       EmptiedStep, ClosedStep, DestructingStep, HalvingStep, LeavingStep, ReleasedStep,
       NotifiedStep, EndedStep, GoneStep DEF WindowInv
<1>2. ASSUME NEW message \in Messages, Post(message) PROVE WindowInv'
  <2>1. queue \subseteq Posted => queue' \subseteq Posted
    BY <1>2 DEF Post, Posted
  <2>2. window = "alive"
    BY <1>2 DEF Post
  <2>3. UNCHANGED <<frames, object, count, window, window_handle, shown, controller, child, quit>>
    BY <1>2 DEF Post, objectVars, windowVars, viewVars, quitVars
  <2>4. Opening \/ Running \/ Destructing \/ Halving \/ Leaving \/ Released
    BY <2>2 DEF WindowInv, Starting, Deactivating, Unfilling, Emptied, Closed, Notified, Ended,
                Gone, Finished
  <2>5. QED BY <2>1, <2>3, <2>4 DEF WindowInv, Opening, Running, Destructing, Halving, Leaving,
                     Released, Whole, Halved, Filled, Unshown
<1>3. ASSUME Idle PROVE WindowInv'
  BY <1>3, PhasesKept DEF Idle
<1>4. QED BY <1>1, <1>2, <1>3 DEF Next

\* Where no view is in the window, only these handlers run.
LEMMA Tops ==
  ASSUME WindowInv
  PROVE  /\ \/ Filled
            \/ child = "null" /\ Top = "WM_SIZE"
            \/ Top \notin {"WM_SIZE", "WM_ACTIVATE", "WM_FONTCHANGE"}
         /\ Top = "Exit" => Finished
<1> USE LabelFacts, Bases
<1>1. ASSUME NEW s \in Seq(Labels), NEW x \in Labels, frames = Push(s, x)
      PROVE  Top = x
  BY <1>1, Innermost
<1>2. \A x \in Labels :
        frames \in {Main(x), InCreate(x), InOnCreate(x), InLoop(x), InExit(x), Closing(x),
                   InClosing(x), Releasing(x), Ending(x), InEnding(x)} => Top = x
  BY <1>1 DEF Main, InCreate, InOnCreate, InLoop, InExit, Closing, InClosing, Releasing, Ending,
              InEnding
<1>3. \A x \in Labels :
        frames \in {Push(InLoop("WM_SIZE"), x), Push(Closing("WM_DESTROY"), x),
                   Push(InClosing("ReleaseWindow"), x)} => Top = x
  BY <1>1
<1>4. Starting \/ Opening \/ Emptied \/ Closed
        => \/ child = "null" /\ Top = "WM_SIZE"
           \/ Top \notin {"WM_SIZE", "WM_ACTIVATE", "WM_FONTCHANGE", "Exit"}
  BY <1>2, <1>3 DEF Starting, Opening, Emptied, Closed
<1>5. Destructing \/ Halving \/ Leaving \/ Released \/ Notified \/ Ended \/ Gone
        => Top \notin {"WM_SIZE", "WM_ACTIVATE", "WM_FONTCHANGE", "Exit"}
  BY <1>2 DEF Destructing, Halving, Leaving, Released, Notified, Ended, Gone
<1>6. Finished => Top = "Exit"
  BY <1>2 DEF Finished
<1>7. Running \/ Deactivating \/ Unfilling => Filled /\ Top # "Exit"
  <2>1. "Exit" \notin Posted
    BY DEF Posted
  <2>2. \A message \in Posted : message \in Labels
    BY DEF Posted
  <2>3. QED BY <1>2, <1>3, <2>1, <2>2 DEF Running, Deactivating, Unfilling
<1>8. QED BY <1>4, <1>5, <1>6, <1>7 DEF WindowInv

\* The outermost call of what wWinMain does at its end.
LEMMA Outermost ==
  ASSUME NEW x \in Labels
  PROVE  Main(x)[1] = x /\ InExit(x)[1] = "Exit" /\ Releasing(x)[1] = "Exit"
<1> USE LabelFacts, Bases
<1>1. \A y \in Labels : Main(y)[1] = y /\ Len(Main(y)) = 1
  BY AppendProperties DEF Main, Push
<1>2. ASSUME NEW s \in Seq(Labels), NEW y \in Labels, Len(s) > 0
      PROVE  Push(s, y)[1] = s[1] /\ Len(Push(s, y)) > 0
  <2>1. Len(s) \in Nat /\ 1 \in 1 .. Len(s)
    BY <1>2, LenProperties
  <2>2. Push(s, y) = Append(s, y)
    BY DEF Push
  <2> HIDE DEF Labels
  <2>3. Len(Append(s, y)) = Len(s) + 1 /\ \A i \in 1 .. Len(s) : Append(s, y)[i] = s[i]
    BY AppendProperties
  <2>4. QED BY <2>1, <2>2, <2>3
<1>3. ASSUME NEW y \in Labels
      PROVE  InExit(y)[1] = "Exit" /\ Len(InExit(y)) > 0
  <2>1. Main("Exit") \in Seq(Labels) /\ Len(Main("Exit")) > 0 /\ Main("Exit")[1] = "Exit"
    BY <1>1
  <2>2. QED BY <1>2, <2>1 DEF InExit
<1>4. Releasing(x)[1] = "Exit"
  <2>1. InExit("ForgetWindow") \in Seq(Labels) /\ Len(InExit("ForgetWindow")) > 0
        /\ InExit("ForgetWindow")[1] = "Exit"
    BY <1>3
  <2>2. QED BY <1>2, <2>1 DEF Releasing
<1>5. QED BY <1>1, <1>3, <1>4

\* In every phase the handlers find what they use, the handle is that of the window, and
\* nothing is left at the end.
LEMMA WindowSafe ==
  ASSUME WindowInv
  PROVE  HandlersFindTheirTargets /\ HandleIsTheWindow /\ ExitsClean
<1>1. HandleIsTheWindow
  <2>1. CASE window = "refused" /\ window_handle
    <3>1. Destructing \/ Halving \/ Leaving \/ Released \/ Gone
      BY <2>1 DEF WindowInv, Starting, Opening, Running, Deactivating, Unfilling, Emptied, Closed,
                  Notified, Ended, Finished
    <3>2. frames[1] \in {"~FlutterWindow", "~Win32Window", "Exit"}
      BY <3>1, Outermost, LabelFacts DEF Destructing, Halving, Leaving, Released, Gone
    <3>3. QED BY <2>1, <3>2 DEF HandleIsTheWindow
  <2>2. CASE ~(window = "refused" /\ window_handle)
    BY <2>2 DEF WindowInv, Starting, Opening, Running, Deactivating, Unfilling, Emptied,
         Closed, Destructing, Halving, Leaving, Released, Notified, Ended, Gone, Finished,
         Unshown, HandleIsTheWindow, Exists
  <2>3. QED BY <2>1, <2>2
<1>2. ExitsClean
  <2>1. SUFFICES ASSUME At("Exit") PROVE Finished
    BY DEF Finished, Halved, ExitsClean, Exists
  <2>2. QED BY <2>1, Tops DEF At
<1>3. HandlersFindTheirTargets
  BY Tops DEF Filled, HandlersFindTheirTargets
<1>4. QED BY <1>1, <1>2, <1>3

\* The window is constructed in its first phase, and waits there for the arguments.
LEMMA MainWindow == MainInit => WindowInv
<1>1. Main("Create") = <<"Create">>
  BY DEF Main, Push
<1>2. QED BY <1>1 DEF MainInit, Init, WindowInv, Starting, Whole

LEMMA MainWindowStep == WindowInv /\ [MainNext]_mainVars => WindowInv'
<1> SUFFICES ASSUME WindowInv, [MainNext]_mainVars PROVE WindowInv'
  OBVIOUS
<1>1. CASE Window(Next)
  BY <1>1, WindowStep DEF Window
<1>2. CASE UNCHANGED vars
  BY <1>2, PhasesKept
<1>3. QED BY <1>1, <1>2 DEF MainNext, mainVars, ConvertArguments, SetEntrypointArguments,
                            Terminated

\* No handler uses a view that is gone, although Destroy takes it down inside the handler of a
\* window that the system is destroying, and handlers are called again inside Destroy.
THEOREM TargetsFound == MainSpec => []HandlersFindTheirTargets
BY MainWindow, MainWindowStep, WindowSafe, PTL DEF MainSpec

\* The handle is forgotten before the window it names is gone, on the user's way and on the
\* destructor's.
THEOREM HandleCurrent == MainSpec => []HandleIsTheWindow
BY MainWindow, MainWindowStep, WindowSafe, PTL DEF MainSpec

\* However wWinMain ends, no window, no controller and no window class is left: the class whose
\* unregistration fails inside the inner Destroy is unregistered by the outer one.
THEOREM CleanExit == MainSpec => []ExitsClean
BY MainWindow, MainWindowStep, WindowSafe, PTL DEF MainSpec

=============================================================================
