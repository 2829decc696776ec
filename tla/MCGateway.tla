----------------------------- MODULE MCGateway -----------------------------
(***************************************************************************)
(* Instances of GatewayController for TLC: who calls what.  "ui" is the    *)
(* Qt main thread, "drain" the fatal-error thread of a pipeline.           *)
(***************************************************************************)
EXTENDS GatewayController, TLC

CONSTANTS w1, w2

\* One thread opens, toggles and records; another closes at any moment.
OneOpener == "ui" :> {"open", "start", "stop_detection", "record", "stop_recording"}
             @@ "drain" :> {"fatal", "close"}

\* The desktop application without recording: the Qt thread initializes,
\* selects devices, toggles and quits; the drain thread reports a fatal error.
Desktop == "ui" :> {"initialize", "select", "stop", "start", "stop_detection"}
           @@ "drain" :> {"fatal", "wait"}
=============================================================================
