-------------------------------- MODULE Page --------------------------------
(***************************************************************************)
(* What common.js gives both pages: the websocket, the peer connection and *)
(* the handler of its ICE state.  JavaScript runs one event handler at a   *)
(* time, so each handler is one step.                                      *)
(***************************************************************************)
VARIABLES
    ws,       \* readyState of window.ws
    ice,      \* iceConnectionState of window.pc ("new" includes "checking")
    iceTimer  \* the timer of a "disconnected" is running

connVars == <<ws, ice, iceTimer>>

ConnTypeOK ==
    /\ ws \in {"connecting", "open", "closed"}
    /\ ice \in {"new", "connected", "disconnected", "closed"}
    /\ iceTimer \in BOOLEAN

ConnInit == ws = "connecting" /\ ice = "new" /\ iceTimer = FALSE

\* initializeCommon: run by a page that loads, or starts over.
InitializeCommon == ws' = "connecting" /\ ice' = "new" /\ iceTimer' = FALSE

\* The handler of "connected" and "completed".
IceConnected ==
    /\ ice \in {"new", "disconnected"}
    /\ ice' = "connected"
    /\ iceTimer' = FALSE

\* The handler of "disconnected", which mobile networks often recover from.
IceDisconnected ==
    /\ ice = "connected"
    /\ ice' = "disconnected"
    /\ iceTimer' = TRUE

\* "failed", on which the handler reloads the page.
IceFailed == ice \in {"new", "disconnected"}

\* Slip: the timer reloads only a connection that has failed by then.
TimerReloadsFailed == FALSE

\* The timer fires 5 s after a "disconnected": whether it reloads the page.
TimerReloads == ice = "disconnected"
=============================================================================
