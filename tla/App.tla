-------------------------------- MODULE App --------------------------------
(***************************************************************************)
(* The app from main() to the tiles of its first results: Startup, and     *)
(* once the main page has been built over the registered services, a call  *)
(* of MovieService.  The calls that the page makes, and in which order, is *)
(* the subject of MainPage; here any method may be called.                 *)
(***************************************************************************)
EXTENDS MovieService

CONSTANT Keys  \* the keys that _setup reads from the configuration

ASSUME KeysAssumption == Keys # {}

VARIABLES config, chain, services, scope, screen  \* those of Startup

startVars == <<config, chain, services, scope, screen>>
appVars   == <<vars, startVars>>

Start == INSTANCE Startup WITH pc <- chain

AppInit == Init /\ Start!Init

\* The widgets of the main page exist, and with them the controller that calls.
Service ==
  /\ screen = "mainPage"
  /\ Next
  /\ UNCHANGED startVars

AppNext ==
  \/ Start!Next /\ UNCHANGED vars
  \/ Service

\* Timers fire, awaited futures complete and scheduled frames are drawn; of requests,
\* which have no timeout, nothing is assumed.
AppSpec == AppInit /\ [][AppNext]_appVars /\ WF_appVars(Start!Step /\ UNCHANGED vars)

-----------------------------------------------------------------------------
(* Properties. *)

\* The app fails to show its main page only when the configuration is at fault, as
\* Startup states it.
ErrorOnlyForBadConfig == Start!ErrorOnlyForBadConfig

\* Whatever is in the configuration the splash page goes, as Startup states it.
LeavesSplash == Start!LeavesSplash

=============================================================================
