------------------------------- MODULE RPCDial -------------------------------
(***************************************************************************)
(* Fetcher.Connect and NewEthereumClient,                                  *)
(* src/pkg/chains/evm/ethereum_client.go: an HTTP client that is created   *)
(* without a handshake, a WebSocket client that is dialled with the API    *)
(* key, without it, or not at all, and a caller's context that may be      *)
(* cancelled or run out at any moment.                                     *)
(*                                                                         *)
(* A deadline passes in two steps: first the wall clock, which a socket    *)
(* deadline notices at once, then the runtime timer, which ctx.Err() waits *)
(* for.  The dial and the classification of its error are two steps, for   *)
(* time passes between them.                                               *)
(***************************************************************************)
EXTENDS Naturals

VARIABLES
  cfg,      \* which of http, ws, key, timeout are configured, and whether ctx has a deadline
  ctx,      \* the caller's context: "live", "lapsed" (wall clock only) or "done"
  expired,  \* the WebSocket phase's own budget has run out
  pc,
  err,      \* how the last WebSocket dial ended: "nil", "context" or "other"
  died,     \* it ended in a context error after the caller's context had failed
  httpClient, wsClient,
  ret       \* what the constructor returned: "none" so far, "client" or the error

clients == <<httpClient, wsClient>>
vars == <<cfg, ctx, expired, pc, err, died, clients, ret>>

Init ==
  /\ cfg \in [http : BOOLEAN, ws : BOOLEAN, key : BOOLEAN, timeout : BOOLEAN, deadline : BOOLEAN]
  /\ ctx = "live" /\ expired = FALSE /\ pc = "start" /\ err = "nil" /\ died = FALSE
  /\ httpClient = FALSE /\ wsClient = FALSE /\ ret = "none"

-----------------------------------------------------------------------------
\* Time and the caller.
Cancel ==
  /\ ctx # "done" /\ ctx' = "done"
  /\ UNCHANGED <<cfg, expired, pc, err, died, clients, ret>>

Lapse ==
  /\ cfg.deadline /\ ctx = "live" /\ ctx' = "lapsed"
  /\ UNCHANGED <<cfg, expired, pc, err, died, clients, ret>>

\* Mutant: the budget covers the dial with the API key only.
BudgetedMutant == {"keyed"}

\* The dials that share one budget derived from the caller's context.
Budgeted == {"keyed", "plain"}

Expire ==
  /\ cfg.timeout /\ ~expired /\ pc \in Budgeted /\ expired' = TRUE
  /\ UNCHANGED <<cfg, ctx, pc, err, died, clients, ret>>

-----------------------------------------------------------------------------
\* Mutant: only the runtime's view of the context counts.
CallerContextFailedMutant == ctx = "done"

CallerContextFailed == ctx \in {"lapsed", "done"}

Goto(p) == pc' = p /\ UNCHANGED <<cfg, ctx, expired, err, died, clients, ret>>
Return(r) == pc' = "returned" /\ ret' = r /\ UNCHANGED <<cfg, ctx, expired, err, died, clients>>

\* A context that is dead before connecting.
Enter == pc = "start" /\ (IF ctx = "done" THEN Return("context") ELSE Goto("http"))

\* The HTTP client: no handshake, so only a malformed endpoint fails it.
DialHTTP ==
  /\ pc = "http"
  /\ \/ ~cfg.http /\ Goto("ws")
     \/ cfg.http /\ Return("failed")
     \/ /\ cfg.http /\ httpClient' = TRUE /\ pc' = "ws"
        /\ UNCHANGED <<cfg, ctx, expired, err, died, wsClient, ret>>

ConnectWebSocket ==
  pc = "ws" /\ Goto(IF ~cfg.ws THEN "check" ELSE IF cfg.key THEN "keyed" ELSE "plain")

\* The phase's context is derived from the caller's.
PhaseOver == ctx # "live" \/ (expired /\ pc \in Budgeted)

Resolving == [keyed |-> "keyedFailed", plain |-> "plainFailed"]

DialConnects ==
  /\ pc \in {"keyed", "plain"} /\ wsClient' = TRUE /\ pc' = "check"
  /\ UNCHANGED <<cfg, ctx, expired, err, died, httpClient, ret>>

DialFails(class) ==
  /\ err' = class /\ pc' = Resolving[pc] /\ died' = (class = "context" /\ ctx # "live")
  /\ UNCHANGED <<cfg, ctx, expired, clients, ret>>

DialRefused == pc \in {"keyed", "plain"} /\ DialFails("other")
DialTimesOut == pc \in {"keyed", "plain"} /\ PhaseOver /\ DialFails("context")

\* A context-class error ends the construction, unless the caller is alive and HTTP serves.
Aborts == err = "context" /\ (CallerContextFailed \/ ~httpClient)

\* connectWebSocketWithAPIKey: any other error falls back to a dial without the key.
ResolveKeyed ==
  /\ pc = "keyedFailed"
  /\ CASE Aborts -> Return("aborted")
       [] err = "context" /\ ~Aborts -> Goto("check")
       [] err = "other" -> Goto("plain")

\* The dial without the key, as the only one or as the fallback.
ResolvePlain ==
  /\ pc = "plainFailed"
  /\ CASE Aborts -> Return("aborted")
       [] ~Aborts /\ httpClient -> Goto("check")
       [] ~Aborts /\ ~httpClient -> Return("failed")

HasTransport == httpClient \/ wsClient

\* The last checks of the constructor.
Check ==
  /\ pc = "check"
  /\ Return(IF CallerContextFailed THEN "context" ELSE IF HasTransport THEN "client" ELSE "failed")

Returned == pc = "returned" /\ UNCHANGED vars

Constructor == Enter \/ DialHTTP \/ ConnectWebSocket \/ ResolveKeyed \/ ResolvePlain \/ Check
Dial == DialConnects \/ DialRefused \/ DialTimesOut

Next == Constructor \/ Dial \/ Cancel \/ Lapse \/ Expire \/ Returned

\* A dial ends by itself only when its context does: an endpoint may never answer.
Spec == Init /\ [][Next]_vars /\ WF_vars(Constructor) /\ WF_vars(DialTimesOut) /\ WF_vars(Expire)

-----------------------------------------------------------------------------
\* Type invariant: a returned client has a transport, and none it was not configured for.
TypeOK ==
  /\ ctx \in {"live", "lapsed", "done"} /\ expired \in BOOLEAN /\ died \in BOOLEAN
  /\ err \in {"nil", "context", "other"}
  /\ ret \in {"none", "client", "aborted", "context", "failed"} /\ (ret # "none" <=> pc = "returned")
  /\ (httpClient => cfg.http) /\ (wsClient => cfg.ws)
  /\ ret = "client" => httpClient \/ wsClient

\* "a racy ctx.Err() read would lose the abort sentinel and degrade instead"
\* (ethereum_client.go:197-198): a WebSocket dial ended by the caller's context
\* makes the constructor return the abort error, whatever the runtime timer
\* says at that moment and whether or not HTTP is there to degrade to.
AbortIsReported == died /\ pc = "returned" => ret = "aborted"

\* "When dialTimeout is positive, it bounds the WebSocket dial phase"
\* (ethereum_client.go:60-61): the constructor returns even if the endpoint
\* accepts connections and never answers, on the fallback dial too.
DialIsBounded == cfg.timeout ~> pc = "returned"

\* "errWSDialAborted reports that a WebSocket dial ended because the caller's
\* context died mid-dial: construction was aborted by shutdown, not by an
\* unreachable endpoint" (ethereum_client.go:34-36).
AbortMeansCaller == ret = "aborted" => ctx # "live"
=============================================================================
