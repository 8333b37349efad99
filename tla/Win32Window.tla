---------------------------- MODULE Win32Window ----------------------------
(***************************************************************************)
(* The window of the Windows runner (windows/runner): the FlutterWindow    *)
(* that wWinMain constructs, its base Win32Window, the registration of the *)
(* window class and the message loop, from the constructor to the end of   *)
(* the destructor.                                                         *)
(*                                                                         *)
(* There is one thread, but the functions call each other again through    *)
(* Windows: DestroyWindow sends messages to the window it destroys, so     *)
(* Destroy runs inside a handler that runs inside Destroy.  frames holds   *)
(* the active calls, the innermost last; a frame is named for what it does *)
(* next.                                                                   *)
(***************************************************************************)
EXTENDS Naturals, Sequences

VARIABLES
  frames,            \* the active calls
  queue,             \* the messages posted to the window (external)
  object,            \* the class whose virtual functions the object has now
  count,             \* g_active_window_count
  window,            \* the window of the operating system (external)
  window_handle,     \* is window_handle_ set
  shown,             \* has Show been called
  controller,        \* flutter_controller_
  child,             \* child_content_ and what it refers to
  class_registered,  \* class_registered_ of the registrar
  os_class,          \* is the class registered with the system (external)
  quit_on_close,     \* quit_on_close_
  quit               \* has WM_QUIT been posted

objectVars == <<object, count>>
windowVars == <<window, window_handle, shown>>
viewVars   == <<controller, child>>
classVars  == <<class_registered, os_class>>
quitVars   == <<quit_on_close, quit>>

vars == <<frames, queue, objectVars, windowVars, viewVars, classVars, quitVars>>

-----------------------------------------------------------------------------
(* Calls. *)

Top == frames[Len(frames)]

Below == SubSeq(frames, 1, Len(frames) - 1)

\* The innermost call goes on at label next, or returns, or first calls others:
\* calls is the sequence of the calls it makes, the first one last.
Goto(next)         == frames' = Append(Below, next)
Return             == frames' = Below
Call(next, calls)  == frames' = Append(Below, next) \o calls
ReturnInto(calls)  == frames' = Below \o calls

\* The messages whose handlers differ.  The rest goes to DefWindowProc.
Messages == {"WM_DESTROY", "WM_CLOSE", "WM_SIZE", "WM_DPICHANGED", "WM_ACTIVATE",
             "WM_FONTCHANGE", "WM_PARENTNOTIFY"}

At(label) == frames # <<>> /\ Top = label

-----------------------------------------------------------------------------
(* wWinMain. *)

\* FlutterWindow window(project): the constructors have run.
Init ==
  /\ frames = <<"Create">>
  /\ queue = {}
  /\ object = "FlutterWindow"
  /\ window = "none"
  /\ window_handle = FALSE
  /\ controller = "null"
  /\ child = "null"
  /\ class_registered = FALSE
  /\ os_class = FALSE
  /\ count = 1
  /\ quit_on_close = FALSE
  /\ quit = FALSE
  /\ shown = FALSE

\* Faulty variant of EnterLoop: SetQuitOnClose is not called.
EnterLoopNoQuit ==
  /\ At("EnterLoop")
  /\ Goto("GetMessage")
  /\ UNCHANGED <<queue, objectVars, windowVars, viewVars, classVars, quitVars>>

\* Create returned true.
EnterLoop ==
  /\ At("EnterLoop")
  /\ quit_on_close' = TRUE
  /\ Goto("GetMessage")
  /\ UNCHANGED <<queue, objectVars, windowVars, viewVars, classVars, quit>>

\* The system and the user post messages at any time; only a window that is shown
\* can be closed.  WM_FONTCHANGE and other messages are sent by other programs, and wait
\* for the thread to retrieve messages, which it does in GetMessage only: the engine is
\* taken to retrieve none while it is constructed or destructed.
Post(message) ==
  /\ window = "alive"
  /\ message \in {"WM_SIZE", "WM_DPICHANGED", "WM_ACTIVATE", "WM_FONTCHANGE"}
       \cup (IF shown THEN {"WM_CLOSE"} ELSE {})
  /\ message \notin queue
  /\ queue' = queue \cup {message}
  /\ UNCHANGED <<frames, objectVars, windowVars, viewVars, classVars, quitVars>>

\* GetMessage returns a message, which DispatchMessage sends to the window.
Dispatch(message) ==
  /\ At("GetMessage")
  /\ message \in queue
  /\ queue' = queue \ {message}
  /\ Call("GetMessage", <<message>>)
  /\ UNCHANGED <<objectVars, windowVars, viewVars, classVars, quitVars>>

\* The engine has drawn the frame that OnCreate asked for and runs its callback.
FirstFrame ==
  /\ At("GetMessage")
  /\ controller = "live"
  /\ ~shown
  /\ shown' = TRUE
  /\ Call("GetMessage", <<"WM_SIZE", "WM_ACTIVATE">>)
  /\ UNCHANGED <<queue, objectVars, window, window_handle, viewVars, classVars, quitVars>>

\* WM_QUIT comes after all messages.  GetMessage returns zero: the loop ends and
\* wWinMain destructs the window.
Quit ==
  /\ At("GetMessage")
  /\ quit
  /\ queue = {}
  /\ Goto("~FlutterWindow")
  /\ UNCHANGED <<queue, objectVars, windowVars, viewVars, classVars, quitVars>>

-----------------------------------------------------------------------------
(* Win32Window::Create and FlutterWindow::OnCreate. *)

\* Create first destroys what an earlier call may have left.
Create ==
  /\ At("Create")
  /\ Call("CreateWindow", <<"Destroy">>)
  /\ UNCHANGED <<queue, objectVars, windowVars, viewVars, classVars, quitVars>>

\* The class is registered unless it is already; nobody looks whether RegisterClass failed.
GetWindowClass ==
  /\ class_registered' = TRUE
  /\ os_class' \in {os_class, os_class \/ ~class_registered}

\* CreateWindow makes the window, and WndProc stores its handle on WM_NCCREATE; or it
\* fails before that, as it must without the class; or Windows breaks it off behind
\* WM_NCCREATE, without a WM_DESTROY, and the handle stays.  UpdateTheme changes nothing.
CreateWindow ==
  /\ At("CreateWindow")
  /\ GetWindowClass
  /\ \/ /\ os_class'
        /\ window' = "alive"
        /\ window_handle' = TRUE
        /\ Call("OnCreate", <<"WM_SIZE">>)
     \/ /\ os_class'
        /\ window' = "refused"
        /\ window_handle' = TRUE
        /\ Goto("~FlutterWindow")
     \/ /\ Goto("~FlutterWindow")
        /\ UNCHANGED <<window, window_handle>>
  /\ UNCHANGED <<queue, objectVars, shown, viewVars, quitVars>>

\* The controller is constructed; if its engine or its view is missing wWinMain
\* returns EXIT_FAILURE, otherwise the view becomes the child of the window.
OnCreate ==
  /\ At("OnCreate")
  /\ \/ /\ controller' = "live"
        /\ child' = "live"
        /\ Goto("EnterLoop")
     \/ /\ controller' = "broken"
        /\ Goto("~FlutterWindow")
        /\ UNCHANGED child
  /\ UNCHANGED <<queue, objectVars, windowVars, classVars, quitVars>>

-----------------------------------------------------------------------------
(* Messages: WndProc calls the handler of the object's class. *)

\* HandleTopLevelWindowProc: the engine and its plugins may take a message.
Taken(message) ==
  object = "FlutterWindow" /\ controller # "null" /\ message # "WM_DESTROY"

\* Faulty variant of Handle: the controller is reset as soon as the user closes.
HandleAndReset(message) ==
  /\ At(message)
  /\ message # "WM_DESTROY"
  /\ IF message = "WM_CLOSE"
       THEN ReturnInto(<<"DestroyWindow">>) /\ controller' = "null" /\ child' = "stale"
       ELSE Return /\ UNCHANGED viewVars
  /\ UNCHANGED <<queue, objectVars, windowVars, classVars, quitVars>>

\* A handler that leaves everything to Windows or only moves the child.  DefWindowProc
\* destroys the window on WM_CLOSE, SetWindowPos sends WM_SIZE.
Handle(message) ==
  /\ At(message)
  /\ message # "WM_DESTROY"
  /\ \/ Taken(message) /\ Return
     \/ message = "WM_CLOSE" /\ ReturnInto(<<"DestroyWindow">>)
     \/ message = "WM_DPICHANGED" /\ ReturnInto(<<"WM_SIZE">>)
     \/ message \notin {"WM_CLOSE", "WM_DPICHANGED"} /\ Return
  /\ UNCHANGED <<queue, objectVars, windowVars, viewVars, classVars, quitVars>>

\* Faulty variant of HandleDestroy: only the loop is told.
HandleDestroyOnlyQuits ==
  /\ At("WM_DESTROY")
  /\ Goto("PostQuit")
  /\ UNCHANGED <<queue, objectVars, windowVars, viewVars, classVars, quitVars>>

\* WM_DESTROY, first half: the handle is forgotten and Destroy is called.
HandleDestroy ==
  /\ At("WM_DESTROY")
  /\ window_handle' = FALSE
  /\ Call("PostQuit", <<"Destroy">>)
  /\ UNCHANGED <<queue, objectVars, window, shown, viewVars, classVars, quitVars>>

\* WM_DESTROY, second half.
PostQuit ==
  /\ At("PostQuit")
  /\ quit' = (quit \/ quit_on_close)
  /\ Return
  /\ UNCHANGED <<queue, objectVars, windowVars, viewVars, classVars, quit_on_close>>

-----------------------------------------------------------------------------
(* Destroy, and DestroyWindow of the system (external). *)

\* OnDestroy: FlutterWindow's resets the controller, which takes its view and so the
\* child with it, and Windows notifies the parent; Win32Window's does nothing.
Destroy ==
  /\ At("Destroy")
  /\ IF object = "FlutterWindow" /\ controller # "null"
       THEN /\ controller' = "null"
            /\ child' = IF child = "live" THEN "stale" ELSE child
            /\ Call("ReleaseWindow",
                    IF child = "live" THEN <<"WM_PARENTNOTIFY">> ELSE <<>>)
       ELSE /\ Goto("ReleaseWindow")
            /\ UNCHANGED viewVars
  /\ UNCHANGED <<queue, objectVars, windowVars, classVars, quitVars>>

\* if (window_handle_) DestroyWindow(window_handle_).
ReleaseWindow ==
  /\ At("ReleaseWindow")
  /\ IF window_handle THEN Call("ForgetWindow", <<"DestroyWindow">>) ELSE Goto("ReleaseClass")
  /\ UNCHANGED <<queue, objectVars, windowVars, viewVars, classVars, quitVars>>

ForgetWindow ==
  /\ At("ForgetWindow")
  /\ window_handle' = FALSE
  /\ Goto("ReleaseClass")
  /\ UNCHANGED <<queue, objectVars, window, shown, viewVars, classVars, quitVars>>

\* Faulty variant of ReleaseClass: the class is never unregistered twice.
ReleaseClassOnce ==
  /\ At("ReleaseClass")
  /\ IF count = 0 /\ class_registered
       THEN /\ class_registered' = FALSE
            /\ os_class' = (os_class /\ window \in {"alive", "destroying"})
       ELSE UNCHANGED classVars
  /\ Return
  /\ UNCHANGED <<queue, objectVars, windowVars, viewVars, quitVars>>

\* With no Win32Window left the class is unregistered, which fails in Windows while
\* a window of the class exists; the registrar does not look at the result.
ReleaseClass ==
  /\ At("ReleaseClass")
  /\ IF count = 0
       THEN /\ class_registered' = FALSE
            /\ os_class' = (os_class /\ window \in {"alive", "destroying"})
       ELSE UNCHANGED classVars
  /\ Return
  /\ UNCHANGED <<queue, objectVars, windowVars, viewVars, quitVars>>

\* DestroyWindow deactivates the window, then sends WM_DESTROY, then destroys it and
\* discards the messages posted to it; it fails on the handle of a window never made.
DestroyWindow ==
  /\ At("DestroyWindow")
  /\ IF window = "refused"
       THEN Return /\ UNCHANGED window
       ELSE /\ window' = "destroying"
            /\ Call("NcDestroy",
                    <<"WM_DESTROY">> \o (IF shown THEN <<"WM_ACTIVATE">> ELSE <<>>))
  /\ UNCHANGED <<queue, objectVars, window_handle, shown, viewVars, classVars, quitVars>>

NcDestroy ==
  /\ At("NcDestroy")
  /\ window' = "destroyed"
  /\ queue' = {}
  /\ child' = IF child = "live" THEN "stale" ELSE child
  /\ Return
  /\ UNCHANGED <<objectVars, window_handle, shown, controller, classVars, quitVars>>

-----------------------------------------------------------------------------
(* The destructors. *)

\* ~FlutterWindow destructs the member flutter_controller_.
DestructFlutterWindow ==
  /\ At("~FlutterWindow")
  /\ controller' = "null"
  /\ child' = IF child = "live" THEN "stale" ELSE child
  /\ Goto("~Win32Window")
  /\ UNCHANGED <<queue, objectVars, windowVars, classVars, quitVars>>

\* From here on virtual calls, from handlers too, are those of Win32Window.
DestructWin32Window ==
  /\ At("~Win32Window")
  /\ object' = "Win32Window"
  /\ count' = count - 1
  /\ Call("Exit", <<"Destroy">>)
  /\ UNCHANGED <<queue, windowVars, viewVars, classVars, quitVars>>

\* wWinMain waits in GetMessage, or has returned.
Idle == (At("GetMessage") \/ At("Exit")) /\ UNCHANGED vars

Step ==
  \/ EnterLoop \/ FirstFrame \/ Quit \/ Create \/ CreateWindow \/ OnCreate
  \/ HandleDestroy \/ PostQuit \/ Destroy \/ ReleaseWindow \/ ForgetWindow \/ ReleaseClass
  \/ DestroyWindow \/ NcDestroy \/ DestructFlutterWindow \/ DestructWin32Window
  \/ \E message \in Messages : Handle(message) \/ Dispatch(message)

Next == Step \/ (\E message \in Messages : Post(message)) \/ Idle

-----------------------------------------------------------------------------
(* Properties. *)

Exists == window \in {"alive", "destroying"}

\* No handler uses what is gone, although handlers run inside the functions that
\* create and destroy: WM_FONTCHANGE, which dereferences flutter_controller_ without
\* a test, always finds a working one, and the child that WM_SIZE and WM_ACTIVATE
\* move or focus still exists (child_content_ is never reset).
HandlersFindTheirTargets ==
  frames # <<>> =>
    /\ (Top = "WM_FONTCHANGE" /\ object = "FlutterWindow") => controller = "live"
    /\ Top \in {"WM_SIZE", "WM_ACTIVATE"} => child # "stale"

\* GetHandle never returns a window that has been destroyed, whichever of the user,
\* Destroy and the destructor destroyed it.  Only the handle of a window that Windows broke
\* off making is there without it, and only the destructors see that.
HandleIsTheWindow ==
  window_handle =>
    \/ Exists
    \/ window = "refused" /\ frames[1] \in {"~FlutterWindow", "~Win32Window", "Exit"}

\* Whichever way wWinMain ends, after a failure of RegisterClass, of CreateWindow, of
\* the engine, or in good order, nothing is left: no window, no controller, no registered class.
ExitsClean ==
  At("Exit") => ~Exists /\ controller = "null" /\ ~os_class /\ ~class_registered

\* Closing the window ends the program.
CloseEndsProgram == window = "destroyed" ~> At("Exit")

=============================================================================
