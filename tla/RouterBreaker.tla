----------------------------- MODULE RouterBreaker -----------------------------
(***************************************************************************)
(* The client side of router.go: the circuit breaker, and the two          *)
(* operations that share it.  GetRouterUptime fetches the uptime page      *)
(* once, at start (DetectPowerLoss) and in each handler before the         *)
(* restart; restartRouterHTTP logs in, fetches a CSRF token and sends the  *)
(* command, the first two with retries.  restartRouterSSH goes round the   *)
(* breaker.  Handlers exclude each other, so there is one of these at a    *)
(* time.                                                                   *)
(*                                                                         *)
(* The router is the set of its pages that do not answer as expected; it   *)
(* may change at any time.  The login of the uptime check is left out: its *)
(* failure is ignored.  Time is the age of the last state change, in ticks *)
(* as far as the code compares it.                                         *)
(***************************************************************************)
EXTENDS Naturals, FiniteSets

CONSTANTS MaxFailures,        \* maxFailures
          ResetTimeout,       \* resetTimeout, in ticks
          HalfOpenSuccesses,  \* halfOpenSuccesses
          LoginTries,         \* attempts of loginRouterHTTPWithRetry
          TokenTries          \* attempts of getCSRFTokenWithRetry

ASSUME BreakerAssumption ==
  /\ MaxFailures \in Nat \ {0} /\ ResetTimeout \in Nat /\ HalfOpenSuccesses \in Nat \ {0}
  /\ LoginTries \in Nat \ {0} /\ TokenTries \in Nat \ {0}

\* "uptime" is broken when the page cannot be fetched, "parse" when no uptime
\* is found in it.
Pages == {"login", "token", "command", "uptime", "parse"}

VARIABLES
  config,    \* Type, UptimeCheckEnabled and CSRFEnabled
  breaker,   \* routerCircuitBreaker
  pc,        \* where the one operation is; "session" is an SSH connection
  restart,   \* whether a restart follows the uptime check
  tries,     \* attempts made of the current step
  broken,    \* the pages of the router that do not work
  good, bad  \* history: operations that succeeded, or failed, in a row

vars == <<config, breaker, pc, restart, tries, broken, good, bad>>

Configs == [type : {"generic_http", "ssh", "telnet"}, uptime : BOOLEAN, csrf : BOOLEAN]

TypeOK ==
  /\ config \in Configs
  /\ breaker \in [state : {"closed", "open", "half-open"}, failures : 0..MaxFailures,
                  successes : 0..HalfOpenSuccesses, since : 0..(ResetTimeout + 1)]
  /\ pc \in {"idle", "uptime", "fetch", "restart", "login", "token", "command", "session"}
  /\ restart \in BOOLEAN
  /\ tries \in 0..(LoginTries + TokenTries)
  /\ broken \subseteq Pages
  /\ good \in 0..HalfOpenSuccesses /\ bad \in 0..MaxFailures

\* The process starts; DetectPowerLoss may look at the uptime.
Init ==
  /\ config \in Configs
  /\ breaker = [state |-> "closed", failures |-> 0, successes |-> 0, since |-> ResetTimeout + 1]
  /\ pc \in (IF config.uptime THEN {"idle", "uptime"} ELSE {"idle"})
  /\ restart = FALSE
  /\ tries = 0
  /\ broken \in SUBSET Pages
  /\ good = 0 /\ bad = 0

-----------------------------------------------------------------------------
(* CircuitBreaker.  The failure counter is compared in the closed state     *)
(* only, and is counted up to its limit.                                    *)

Capped(n, max) == IF n < max THEN n + 1 ELSE max


CanExecute(b) == b.state # "open" \/ b.since > ResetTimeout

\* Faulty variant: successes of an earlier half-open phase still count.
Admitted_KeepSuccesses(b) ==
  IF b.state = "open" THEN [b EXCEPT !.state = "half-open", !.since = 0] ELSE b

\* What CanExecute makes of the breaker when it says yes.
Admitted(b) ==
  IF b.state = "open" THEN [b EXCEPT !.state = "half-open", !.successes = 0, !.since = 0] ELSE b

\* RecordSuccess
Succeeded(b) ==
  CASE b.state = "half-open" ->
         IF b.successes + 1 >= HalfOpenSuccesses
           THEN [b EXCEPT !.state = "closed", !.successes = @ + 1, !.failures = 0, !.since = 0]
           ELSE [b EXCEPT !.successes = @ + 1]
    [] b.state = "closed" -> [b EXCEPT !.failures = 0]
    [] OTHER -> b

\* Faulty variant: the counter is compared before the failure is counted.
Failed_LateLook(b) ==
  LET counted == [b EXCEPT !.failures = Capped(@, MaxFailures)]
  IN  IF \/ b.state = "closed" /\ b.failures >= MaxFailures
         \/ b.state = "half-open"
        THEN [counted EXCEPT !.state = "open", !.since = 0]
        ELSE counted

\* RecordFailure
Failed(b) ==
  LET counted == [b EXCEPT !.failures = Capped(@, MaxFailures)]
  IN  IF \/ b.state = "closed" /\ counted.failures >= MaxFailures
         \/ b.state = "half-open"
        THEN [counted EXCEPT !.state = "open", !.since = 0]
        ELSE counted

RecordSuccess == breaker' = Succeeded(breaker) /\ good' = Capped(good, HalfOpenSuccesses) /\ bad' = 0
RecordFailure == breaker' = Failed(breaker) /\ good' = 0 /\ bad' = Capped(bad, MaxFailures)
RecordNothing == UNCHANGED <<breaker, good, bad>>

Enter(place) == pc' = place /\ tries' = 0

-----------------------------------------------------------------------------
(* The handler and GetRouterUptime                                          *)

\* handleConnectivityFailure, past the limits and the cluster lock
StartRestart ==
  /\ pc = "idle"
  /\ Enter(IF config.uptime THEN "uptime" ELSE "restart")
  /\ restart' = TRUE
  /\ RecordNothing /\ UNCHANGED <<config, broken>>

\* After the uptime check a restart follows, if this is a handler.
AfterUptime == Enter(IF restart THEN "restart" ELSE "idle")

CheckUptime ==
  /\ pc = "uptime"
  /\ \/ CanExecute(breaker) /\ Enter("fetch") /\ breaker' = Admitted(breaker)
     \/ ~CanExecute(breaker) /\ AfterUptime /\ UNCHANGED breaker
  /\ UNCHANGED <<config, restart, broken, good, bad>>

FetchFails ==
  /\ pc = "fetch" /\ "uptime" \in broken
  /\ AfterUptime /\ RecordFailure
  /\ UNCHANGED <<config, restart, broken>>

\* A page without an uptime counts neither way.
NoUptime ==
  /\ pc = "fetch" /\ "uptime" \notin broken /\ "parse" \in broken
  /\ AfterUptime /\ RecordNothing
  /\ UNCHANGED <<config, restart, broken>>

\* Less than ten minutes: after the power-loss delay connectivity may be back.
UptimeKnown ==
  /\ pc = "fetch" /\ broken \cap {"uptime", "parse"} = {}
  /\ AfterUptime \/ Enter("idle")
  /\ RecordSuccess
  /\ UNCHANGED <<config, restart, broken>>

-----------------------------------------------------------------------------
(* RestartRouter                                                            *)

\* restartRouterTelnet fails at once.  restartRouterSSH may fail to read the host
\* key file or to open the TCP connection, for which it has a timeout; on that
\* connection the handshake, the session and the command follow.
RestartOtherwise ==
  /\ pc = "restart" /\ config.type # "generic_http"
  /\ Enter("idle") \/ (config.type = "ssh" /\ Enter("session"))
  /\ RecordNothing /\ UNCHANGED <<config, restart, broken>>

\* The handshake or NewSession fails, session.Run returns, or the router hangs up
\* on it, which counts as success.
SessionEnds ==
  /\ pc = "session"
  /\ Enter("idle")
  /\ RecordNothing /\ UNCHANGED <<config, restart, broken>>

\* restartRouterHTTP
RestartRouter ==
  /\ pc = "restart" /\ config.type = "generic_http"
  /\ \/ CanExecute(breaker) /\ Enter("login") /\ breaker' = Admitted(breaker)
     \/ ~CanExecute(breaker) /\ Enter("idle") /\ UNCHANGED breaker
  /\ UNCHANGED <<config, restart, broken, good, bad>>

LoggedIn ==
  /\ pc = "login" /\ "login" \notin broken
  /\ Enter(IF config.csrf THEN "token" ELSE "command")
  /\ RecordNothing /\ UNCHANGED <<config, restart, broken>>

TokenObtained ==
  /\ pc = "token" /\ "token" \notin broken
  /\ Enter("command")
  /\ RecordNothing /\ UNCHANGED <<config, restart, broken>>

Tries == IF pc = "login" THEN LoginTries ELSE TokenTries

\* Faulty variant: each failed attempt counts as a failed operation.
TryAgain_Counted ==
  /\ pc \in {"login", "token"} /\ pc \in broken
  /\ tries + 1 < Tries
  /\ tries' = tries + 1
  /\ RecordFailure
  /\ UNCHANGED <<config, pc, restart, broken>>

TryAgain ==
  /\ pc \in {"login", "token"} /\ pc \in broken
  /\ tries + 1 < Tries
  /\ tries' = tries + 1
  /\ RecordNothing /\ UNCHANGED <<config, pc, restart, broken>>

\* Login or token fail for the last time.
GiveUp ==
  /\ pc \in {"login", "token"} /\ pc \in broken
  /\ tries + 1 >= Tries
  /\ Enter("idle") /\ RecordFailure
  /\ UNCHANGED <<config, restart, broken>>

\* sendRestartCommandHTTP is not repeated.
CommandFails ==
  /\ pc = "command" /\ "command" \in broken
  /\ Enter("idle") /\ RecordFailure
  /\ UNCHANGED <<config, restart, broken>>

CommandSent ==
  /\ pc = "command" /\ "command" \notin broken
  /\ Enter("idle") /\ RecordSuccess
  /\ UNCHANGED <<config, restart, broken>>

-----------------------------------------------------------------------------
\* Faulty variant: the age is counted past what it is compared with.
Tick_Uncapped ==
  /\ breaker' = [breaker EXCEPT !.since = IF @ < ResetTimeout + 2 THEN @ + 1 ELSE @]
  /\ UNCHANGED <<config, pc, restart, tries, broken, good, bad>>

Tick ==
  /\ breaker' = [breaker EXCEPT !.since = Capped(@, ResetTimeout + 1)]
  /\ UNCHANGED <<config, pc, restart, tries, broken, good, bad>>

RouterChanges ==
  /\ \E p \in Pages : broken' = IF p \in broken THEN broken \ {p} ELSE broken \cup {p}
  /\ UNCHANGED <<config, breaker, pc, restart, tries, good, bad>>

Operation ==
  \/ StartRestart \/ CheckUptime \/ FetchFails \/ NoUptime \/ UptimeKnown
  \/ RestartOtherwise \/ RestartRouter \/ LoggedIn \/ TokenObtained \/ TryAgain \/ GiveUp
  \/ CommandFails \/ CommandSent

Next == Operation \/ SessionEnds \/ Tick \/ RouterChanges

Spec == Init /\ [][Next]_vars

\* Time passes, every HTTP request and the TCP connection for SSH have a timeout,
\* and outages keep coming.  The SSH handshake, NewSession and the session have
\* none: nothing makes them end.
FairSpec == Spec /\ WF_vars(Tick) /\ WF_vars(Operation)

-----------------------------------------------------------------------------
(* Properties.                                                              *)

\* No request goes to the router while the breaker is open: the one question
\* asked at the start of an operation holds for all its requests and retries,
\* however long they take (router.go:163, 684).
OpenIsSilent == pc \in {"fetch", "login", "token", "command"} => breaker.state # "open"

\* The breaker changes sides only on what it has seen in a row: it closes
\* after HalfOpenSuccesses operations without a failure in between, it opens
\* from closed after MaxFailures without a success in between; uptime checks
\* and restarts count alike and their retries do not count (router.go:68, 88).
BreakerEarned ==
  [][/\ breaker.state # "closed" /\ breaker'.state = "closed" => good' >= HalfOpenSuccesses
     /\ breaker.state = "closed" /\ breaker'.state = "open" => bad' >= MaxFailures]_vars

\* ... and it changes sides as soon as it has seen them: a closed breaker has
\* never let MaxFailures operations in a row fail, and a half-open one is not
\* kept half-open by successes of which some were left uncounted, whichever
\* operations and phases they came from (router.go:66, 86).
BreakerPrompt ==
  /\ breaker.state = "closed" => bad < MaxFailures
  /\ breaker.state = "half-open" => good < HalfOpenSuccesses


=============================================================================
