------------------------------ MODULE Startup ------------------------------
(***************************************************************************)
(* From main() to the main page (lib/main.dart, lib/pages/splash_page.dart *)
(* and what the controller needs to exist): the splash page waits, reads   *)
(* the configuration, registers the two services in GetIt and hands over;  *)
(* the first frame of the main page looks up what was registered.          *)
(***************************************************************************)

CONSTANT Keys  \* the keys that _setup reads from the configuration

VARIABLES
  config,    \* assets/config/main.json (external, any content)
  pc,        \* how far the chain begun by initState is
  services,  \* the types registered in GetIt
  scope,     \* is the widget tree wrapped in a ProviderScope
  screen     \* what the user sees

vars == <<config, pc, services, scope, screen>>

-----------------------------------------------------------------------------
(* The configuration (external). *)

\* A value as `as String?` sees it: a string, null or absent, or another type.
Objects == [kind : {"object"}, at : [Keys -> {"string", "null", "other"}]]

\* The asset may be missing, no JSON, or JSON that cannot be indexed by a key.
Configs ==
  Objects \cup [kind : {"missing", "notJson", "notIndexable"}, at : {[k \in Keys |-> "null"]}]

\* loadString and jsonDecode return, no cast throws and no value is null.
Valid(c) == c.kind = "object" /\ \A k \in Keys : c.at[k] = "string"

-----------------------------------------------------------------------------

\* main() shows the splash page, whose initState starts the delay.
Init ==
  /\ config \in Configs
  /\ services = {}
  /\ scope = FALSE
  /\ screen = "splash"
  /\ pc = "delay"

\* Faulty variant of DelayEnds: the hand-over does not wait for _setup.
DelayEndsAndLaunches ==
  /\ pc = "delay"
  /\ pc' = "loading"
  /\ scope' = TRUE
  /\ screen' = "launching"
  /\ UNCHANGED <<config, services>>

\* Future.delayed completes: _setup runs up to its await of loadString.
DelayEnds ==
  /\ pc = "delay"
  /\ pc' = "loading"
  /\ UNCHANGED <<config, services, scope, screen>>

\* What the two calls of registerSingleton leave, HttpService first: each constructs
\* its service, and that of MovieService finds HttpService.
Registered == services \cup {"HttpService", "MovieService"}

\* Faulty variant of Setup: the exception is not caught, so then() is not run.
SetupUncaught ==
  /\ pc = "loading"
  /\ IF Valid(config)
       THEN services' = Registered /\ pc' = "initialized"
       ELSE pc' = "done" /\ UNCHANGED services
  /\ UNCHANGED <<config, scope, screen>>

\* loadString completes: the rest of _setup, in one step.  Whatever is wrong with
\* the configuration throws before anything is registered, and is only logged.
Setup ==
  /\ pc = "loading"
  /\ services' = IF Valid(config) THEN Registered ELSE services
  /\ pc' = "initialized"
  /\ UNCHANGED <<config, scope, screen>>

\* onInitializationComplete is _launchApp: runApp replaces the splash page.
LaunchApp ==
  /\ pc = "initialized"
  /\ pc' = "done"
  /\ scope' = TRUE
  /\ screen' = "launching"
  /\ UNCHANGED <<config, services>>

\* The first frame: MainPageState.build watches the provider, which constructs the
\* controller, which looks up MovieService.  Without a scope or without the
\* service the build throws, and the framework shows its error widget instead.
FirstFrame ==
  /\ screen = "launching"
  /\ screen' = IF scope /\ "MovieService" \in services THEN "mainPage" ELSE "errorWidget"
  /\ UNCHANGED <<config, pc, services, scope>>

Started == screen \in {"mainPage", "errorWidget"}

\* The chain has ended and no frame is due: nothing more happens here.
Done == pc = "done" /\ screen # "launching" /\ UNCHANGED vars

Step == DelayEnds \/ Setup \/ LaunchApp \/ FirstFrame

Next == Step \/ Done

-----------------------------------------------------------------------------
(* Properties. *)

\* The app fails to show its main page only when the configuration is at fault: the first frame never looks for the services before _setup, which
\* runs after a delay and an await, has registered them.
ErrorOnlyForBadConfig ==
  screen = "errorWidget" => ~Valid(config)

\* The app never keeps its splash page: whatever is in the configuration, the chain
\* begun by initState reaches _launchApp and a first frame is drawn.
LeavesSplash == <>[]Started

=============================================================================
