----------------------------- MODULE WebServer -----------------------------
(* The settings API and the sessions in one server process: a restart, which  *)
(* HandleResetConfig asks for and a crash brings, ends both at once; the file *)
(* and the browsers outlive it.                                               *)
EXTENDS EnvFile, Sessions

ASSUME WebServerAssumption == SessionsConstants

serverVars == <<vars, sessionVars>>

ServerInit == Init /\ SessionInit

ServerRestart == Restart /\ Lost

ServerNext == \/ Serve /\ UNCHANGED sessionVars
              \/ ServeCall /\ UNCHANGED vars
              \/ ServerRestart

ServerSpec == ServerInit /\ [][ServerNext]_serverVars
=============================================================================
