-------------------------------- MODULE WsClient --------------------------------
(***************************************************************************)
(* A WebSocket client of the bot: the connection, the interval that looks  *)
(* for silence, the reconnection timer and its growing delay.  The account *)
(* client and the trade client are the same but for their stale window and *)
(* how often they look, and for what they do with a message.               *)
(*                                                                         *)
(* Time advances in ticks; a timer that is due fires before the next one.  *)
(* Pings are left out: nothing listens for the answer to one.              *)
(***************************************************************************)
EXTENDS Integers

CONSTANTS
  Base,        \* RECONNECT_BASE_MS
  MaxDelay,    \* RECONNECT_MAX_MS
  StaleAfter,  \* stale window: max(wsStaleTimeoutSecs, 5 min), or as configured
  CheckEvery   \* period of the stale check: a minute, or half the window

ASSUME WsConstants ==
  /\ Base \in Nat \ {0} /\ MaxDelay \in Nat /\ Base <= MaxDelay
  /\ StaleAfter \in Nat \ {0} /\ CheckEvery \in Nat \ {0}

VARIABLES
  conn,     \* "new", "connecting", "open", "closing" behind terminate(), "none"
  stopped,  \* stop() has been called
  delay,    \* reconnectDelay
  wait,     \* ticks until reconnectTimer fires
  check,    \* ticks until staleTimer fires
  silence,  \* ticks since lastMessageAt
  alive,    \* the exchange still serves the open connection
  rested,   \* history: ticks since the last attempt, up to Base
  age       \* history: ticks since the connection opened, up to StaleAfter + 1

wsVars == <<conn, stopped, delay, wait, check, silence, alive, rested, age>>
history == <<rested, age>>

Off == -1  \* of a timer that is not set
Lower(m, n) == IF m <= n THEN m ELSE n

Due == wait = 0 \/ check = 0

\* Mutant of ScheduleReconnect: the first attempt is made at once.
RetriesAtOnce == wait' = IF delay = Base THEN 0 ELSE delay

\* _scheduleReconnect; the caller has looked at stopped.
ScheduleReconnect == wait' = delay

\* connect(), once, by main().
Connect ==
  /\ conn = "new"
  /\ conn' = "connecting" /\ rested' = 0
  /\ UNCHANGED <<stopped, delay, wait, check, silence, alive, age>>

\* Mutant of Opened: the time of the last message is not touched.
KeepsSilence ==
  /\ conn = "connecting"
  /\ conn' = "open" /\ alive' = TRUE
  /\ delay' = Base /\ silence' = silence /\ check' = CheckEvery
  /\ age' = 0
  /\ UNCHANGED <<stopped, wait, rested>>

\* 'open': subscribe, reset the delay, start the stale check.
Opened ==
  /\ conn = "connecting"
  /\ conn' = "open" /\ alive' = TRUE
  /\ delay' = Base /\ silence' = 0 /\ check' = CheckEvery
  /\ age' = 0
  /\ UNCHANGED <<stopped, wait, rested>>

Message ==
  /\ conn = "open" /\ alive
  /\ silence' = 0
  /\ UNCHANGED <<conn, stopped, delay, wait, check, alive, history>>

\* Mutant of Closed: a connection that never opened is not tried again.
GivesUp ==
  /\ conn \in {"connecting", "open", "closing"}
  /\ conn' = "none" /\ alive' = FALSE
  /\ check' = Off
  /\ IF conn = "connecting" THEN wait' = Off ELSE ScheduleReconnect
  /\ UNCHANGED <<stopped, delay, silence, history>>

\* 'close', however it came to it: the attempt failed, either side closed the
\* connection, or it was terminated.  stop() leaves no connection behind.
Closed ==
  /\ conn \in {"connecting", "open", "closing"}
  /\ conn' = "none" /\ alive' = FALSE
  /\ check' = Off
  /\ ScheduleReconnect
  /\ UNCHANGED <<stopped, delay, silence, history>>

\* Mutant of StaleCheck: it looks once, as with setTimeout.
ChecksOnce ==
  /\ check = 0
  /\ check' = Off
  /\ conn' = IF silence > StaleAfter THEN "closing" ELSE conn
  /\ alive' = (alive /\ silence <= StaleAfter)
  /\ UNCHANGED <<stopped, delay, wait, silence, history>>

\* The interval: a connection silent for longer than the window is terminated.
StaleCheck ==
  /\ check = 0
  /\ check' = CheckEvery
  /\ conn' = IF silence > StaleAfter THEN "closing" ELSE conn
  /\ alive' = (alive /\ silence <= StaleAfter)
  /\ UNCHANGED <<stopped, delay, wait, silence, history>>

\* Mutant of Reconnect: the delay grows without limit.
DoublesForEver ==
  /\ wait = 0
  /\ wait' = Off
  /\ delay' = 2 * delay
  /\ conn' = "connecting" /\ rested' = 0
  /\ UNCHANGED <<stopped, check, silence, alive, age>>

\* The timer: the delay doubles for the next time.
Reconnect ==
  /\ wait = 0
  /\ wait' = Off
  /\ delay' = Lower(2 * delay, MaxDelay)
  /\ conn' = "connecting" /\ rested' = 0
  /\ UNCHANGED <<stopped, check, silence, alive, age>>

\* Mutant of Stop: the timers are left to themselves.
StopKeepsTimers ==
  /\ ~stopped
  /\ stopped' = TRUE /\ conn' = "none" /\ alive' = FALSE
  /\ UNCHANGED <<delay, silence, wait, check, history>>

\* stop(): at the end of the process, which does not wait for 'close'.
Stop ==
  /\ ~stopped
  /\ stopped' = TRUE /\ conn' = "none" /\ alive' = FALSE
  /\ wait' = Off /\ check' = Off
  /\ UNCHANGED <<delay, silence, history>>

\* The exchange's end of the connection is gone and nobody says so.
Dies ==
  /\ conn = "open" /\ alive
  /\ alive' = FALSE
  /\ UNCHANGED <<conn, stopped, delay, wait, check, silence, history>>

Elapse(t) == IF t = Off THEN Off ELSE t - 1

Tick ==
  /\ ~Due /\ ~stopped
  /\ wait' = Elapse(wait) /\ check' = Elapse(check)
  /\ silence' = IF conn = "open" THEN silence + 1 ELSE silence
  /\ rested' = Lower(rested + 1, Base)
  /\ age' = Lower(age + 1, StaleAfter + 1)
  /\ UNCHANGED <<conn, stopped, delay, alive>>

WsInit ==
  /\ conn = "new" /\ stopped = FALSE
  /\ delay = Base /\ wait = Off /\ check = Off
  /\ silence = 0 /\ alive = FALSE
  /\ rested = Base /\ age = 0

Client == Opened \/ Message \/ Closed \/ StaleCheck \/ Reconnect \/ Stop
WsNext == Connect \/ Client \/ Dies \/ Tick

WsSpec == WsInit /\ [][WsNext]_wsVars

\* Time passes, timers fire, and the 'close' of a terminated socket is emitted.
\* Nothing is assumed of an attempt: the code sets no limit to a handshake.
WsFairness ==
  /\ WF_wsVars(Connect) /\ WF_wsVars(Tick)
  /\ WF_wsVars(StaleCheck) /\ WF_wsVars(Reconnect)
  /\ WF_wsVars(conn = "closing" /\ Closed)

WsFairSpec == WsSpec /\ WsFairness

WsFlagsOK == stopped \in BOOLEAN /\ alive \in BOOLEAN
TimesOK ==
  /\ delay \in Base..MaxDelay /\ wait \in Off..MaxDelay /\ check \in Off..CheckEvery
  /\ silence \in Nat /\ rested \in 0..Base /\ age \in 0..(StaleAfter + 1)

WsTypeOK ==
  /\ conn \in {"new", "connecting", "open", "closing", "none"}
  /\ WsFlagsOK /\ TimesOK

-----------------------------------------------------------------------------
(* Properties.                                                             *)

\* Until it is stopped a client has either a socket or a reconnection timer, so
\* that it neither gives up nor holds two connections that each deliver the
\* same fill; stopped it has neither.  It looks for silence exactly while a
\* socket is open.
SocketOrTimer ==
  /\ wait # Off <=> conn = "none" /\ ~stopped
  /\ stopped => conn = "none"
  /\ check # Off <=> conn \in {"open", "closing"}

\* A connection that delivers nothing is found out within the window and one
\* period of the check, at whatever moment it fell silent.
SilenceBounded ==
  conn = "open" => silence <= StaleAfter + CheckEvery

\* Only silence of the present connection counts: none is terminated before it
\* has been open for longer than the window.
NewConnectionSpared ==
  conn = "closing" => age > StaleAfter

\* However connections open and break, attempts are Base or more apart.
AttemptsSpaced ==
  [][conn' = "connecting" /\ conn # "connecting" => rested >= Base]_wsVars

\* A connection whose other end is gone is replaced by a new attempt, and so is
\* one that closed.
DeadIsReplaced ==
  (conn = "open" /\ ~alive) \/ conn = "none" ~> conn = "connecting" \/ stopped

=============================================================================
