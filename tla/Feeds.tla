------------------------------- MODULE Feeds -------------------------------
(***************************************************************************)
(* One websocket feed (BaseFeed, src/data/base_feed.py) and what the       *)
(* health monitor of the orchestrator (src/main.py) learns of it.          *)
(*                                                                         *)
(* The feed puts its one FeedHealth object into health_queue again and     *)
(* again: what travels is a reference, so the queue is a number of         *)
(* wake-ups and the monitor reads the status the feed has by then.         *)
(*                                                                         *)
(* Time is counted in seconds, the period of the watchdog and of the       *)
(* monitor's poll.  The socket is external: it opens, fails, delivers and  *)
(* closes when it likes.                                                   *)
(***************************************************************************)
EXTENDS Integers

CONSTANTS
  StaleAfter,  \* STALE_FEED_TIMEOUT_S
  KillAfter,   \* FEED_DOWN_KILL_THRESHOLD_S
  BaseDelay,   \* RECONNECT_BASE_DELAY_S, rounded up to the clock
  MaxDelay,    \* RECONNECT_MAX_DELAY_S
  MaxTime      \* Bound on the clock; not in the code.

ASSUME StaleAfterAssumption == StaleAfter \in Nat \ {0}
ASSUME KillAfterAssumption == KillAfter \in Nat \ {0}
ASSUME BaseDelayAssumption == BaseDelay \in Nat \ {0}
ASSUME MaxDelayAssumption == MaxDelay \in Nat /\ MaxDelay >= BaseDelay
ASSUME MaxTimeAssumption == MaxTime \in Nat

VARIABLES
  now,        \* time.monotonic()
  phase,      \* Where BaseFeed.run is.
  status,     \* FeedHealth.status
  lastMsg,    \* FeedHealth.last_msg_ts, Never before the first message.
  delay,      \* Length of the next reconnect delay.
  wakeAt,     \* End of the reconnect delay being slept.
  queued,     \* References to the FeedHealth object in health_queue.
  seen,       \* The monitor holds the object in _feed_health.
  downSince,  \* down_since of the feed, Never when it has no entry.
  polled,     \* The monitor went round its loop this second.
  killed,     \* kill_event.is_set(), set by the monitor.
  downFrom,   \* History: when the status left CONNECTED, Never while it is.
  openFrom    \* History: when the connection of now was opened.

connectionVars == <<phase, status, lastMsg, delay, wakeAt, downFrom, openFrom>>
monitorVars == <<seen, downSince, polled, killed>>
allFeedVars == <<now, connectionVars, queued, monitorVars>>

Never == 0
Phases == {"starting", "connecting", "streaming", "ended", "backoff"}
Open == phase \in {"streaming", "ended"}

Least(a, b) == IF a <= b THEN a ELSE b

-----------------------------------------------------------------------------
(* BaseFeed.                                                               *)

\* status = CONNECTING, then _emit_health.
Start ==
  /\ phase = "starting"
  /\ phase' = "connecting"
  /\ status' = "connecting"
  /\ queued' = queued + 1
  /\ UNCHANGED <<now, lastMsg, delay, wakeAt, downFrom, openFrom, monitorVars>>

\* The socket opened: status = CONNECTED, and nothing is emitted.  last_msg_ts
\* stays what the connection before left.
Opened ==
  /\ phase = "connecting"
  /\ phase' = "streaming"
  /\ status' = "connected"
  /\ downFrom' = Never
  /\ openFrom' = now
  /\ UNCHANGED <<now, lastMsg, delay, wakeAt, queued, monitorVars>>

Message ==
  /\ phase = "streaming"
  /\ lastMsg' = now
  /\ UNCHANGED <<now, phase, status, delay, wakeAt, queued, downFrom, openFrom, monitorVars>>

\* The peer closes normally: the consumer returns, and gather still waits for
\* the watchdog.
Closed ==
  /\ phase = "streaming"
  /\ phase' = "ended"
  /\ UNCHANGED <<now, status, lastMsg, delay, wakeAt, queued, downFrom, openFrom, monitorVars>>

\* Mutant: the delay grows without a limit.
NextDelay_Unlimited == 2 * delay

NextDelay == Least(2 * delay, MaxDelay)

\* An exception reaches run: DISCONNECTED is emitted, then the delay is slept
\* and doubled.  It is never set back: _connect_and_consume returns without
\* an exception only after shutdown().
Fail ==
  /\ phase' = "backoff"
  /\ status' = "disconnected"
  /\ queued' = queued + 1
  /\ wakeAt' = now + delay
  /\ delay' = NextDelay
  /\ downFrom' = IF downFrom = Never THEN now ELSE downFrom
  /\ UNCHANGED <<now, lastMsg, openFrom, monitorVars>>

\* The connection is refused or lost, or a sequence number is missing.
ConnectionBreaks == phase \in {"connecting", "streaming"} /\ Fail

\* Mutant: the watchdog ends with the consumer.
Stale_StreamingOnly == phase = "streaming" /\ lastMsg # Never /\ now - lastMsg > StaleAfter

Stale == Open /\ lastMsg # Never /\ now - lastMsg > StaleAfter

\* _watchdog raises.
WatchdogRaises == Stale /\ Fail

Wakes ==
  /\ phase = "backoff" /\ wakeAt <= now
  /\ phase' = "starting"
  /\ UNCHANGED <<now, status, lastMsg, delay, wakeAt, queued, downFrom, openFrom, monitorVars>>

-----------------------------------------------------------------------------
(* _health_monitor.                                                        *)

\* Mutant: every report of a feed that is down restarts the clock.
DownAfterRead_Restarted ==
  CASE status # "connected" -> now
    [] status = "connected" /\ ~seen -> Never
    [] OTHER -> downSince

\* What a read makes of down_since.  prev and health are one object, so a
\* status "changes" on the first read only; that read may clear the entry,
\* any read of a feed that is not connected may make it.
DownAfterRead ==
  CASE status # "connected" -> (IF downSince = Never THEN now ELSE downSince)
    [] status = "connected" /\ ~seen -> Never
    [] OTHER -> downSince

DownTooLong(since) == since # Never /\ now - since > KillAfter

\* One round of the loop with a report: read it, then look at the downtimes.
MonitorReads ==
  /\ ~killed /\ queued > 0
  /\ queued' = queued - 1
  /\ seen' = TRUE
  /\ downSince' = DownAfterRead
  /\ killed' = DownTooLong(DownAfterRead)
  /\ polled' = TRUE
  /\ UNCHANGED <<now, connectionVars>>

\* One round without: the get times out after a second.
MonitorPolls ==
  /\ ~killed /\ queued = 0 /\ ~polled
  /\ killed' = DownTooLong(downSince)
  /\ polled' = TRUE
  /\ UNCHANGED <<now, connectionVars, queued, seen, downSince>>

-----------------------------------------------------------------------------
\* A second passes.  Every task that is due runs before the next one is over.
Tick ==
  /\ now < MaxTime
  /\ phase # "starting"
  /\ ~(phase = "backoff" /\ wakeAt <= now)
  /\ ~Stale
  /\ killed \/ (polled /\ queued = 0)
  /\ now' = now + 1
  /\ polled' = FALSE
  /\ UNCHANGED <<connectionVars, queued, seen, downSince, killed>>

FeedInit ==
  /\ now = 1
  /\ phase = "starting"
  /\ status = "disconnected"
  /\ lastMsg = Never
  /\ delay = BaseDelay
  /\ wakeAt = Never
  /\ queued = 0
  /\ seen = FALSE
  /\ downSince = Never
  /\ polled = FALSE
  /\ killed = FALSE
  /\ downFrom = 1
  /\ openFrom = Never

FeedNext ==
  \/ Start \/ Opened \/ Message \/ Closed \/ ConnectionBreaks \/ WatchdogRaises \/ Wakes
  \/ MonitorReads \/ MonitorPolls
  \/ Tick

FeedSpec == FeedInit /\ [][FeedNext]_allFeedVars

-----------------------------------------------------------------------------
(* What should hold.                                                       *)

\* The shapes of the state.
FeedTypeOK ==
  /\ {now, lastMsg, wakeAt, queued, downSince, downFrom, openFrom} \subseteq Nat
  /\ phase \in Phases
  /\ status \in {"disconnected", "connecting", "connected"}
  /\ delay \in BaseDelay..MaxDelay
  /\ {seen, polled, killed} \subseteq BOOLEAN

\* A feed that stays down past the threshold trips the kill switch, however
\* often it reports CONNECTING and DISCONNECTED again meanwhile, and although
\* the monitor reads a status later than the one reported.
DownFeedKills ==
  downFrom # Never /\ now - downFrom > KillAfter + 1 => killed

\* A connection on which messages stopped is given up, also when the peer
\* closed it without an error and only the watchdog is left.
QuietConnectionEnds ==
  Open /\ lastMsg >= openFrom => now - lastMsg <= StaleAfter + 1

-----------------------------------------------------------------------------
(* What the documentation says and the code does not do.                   *)

\* "if a feed stays down past FEED_DOWN_KILL_THRESHOLD_S, trip the kill
\* switch" (main.py:736): the monitor kills for such a feed only.
OnlyDownFeedKills ==
  [][killed' /\ ~killed => downFrom # Never /\ now - downFrom > KillAfter]_allFeedVars

=============================================================================
