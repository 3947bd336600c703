--------------------------- MODULE StreamControls ---------------------------
(***************************************************************************)
(* The controls that end a lifecycle case, streaming/lifecycle_controls.py, *)
(* with the server they run against, streaming/lifecycle_server.py, and the *)
(* client streams between the two.  A control opens one stream per token,   *)
(* which the server holds after its headers (body-wait) or after its first  *)
(* chunk (held-tail), leaves or cancels those streams, releases them at the *)
(* server, waits until both sides are quiet and opens a round of normal      *)
(* streams to show that the client has recovered.                           *)
(*                                                                          *)
(* Every round uses new tokens, so the variables of the streams start anew   *)
(* with it.  Time limits may pass at any moment the code looks at them.      *)
(***************************************************************************)
EXTENDS Naturals, Sequences

CONSTANTS
  Stream,   \* the tokens of a round: config.concurrency of them
  Controls  \* the controls run one after another

Kinds == {"held-tail", "body-wait", "slow-consumer"}

ASSUME ControlsAssumption == Controls \in Seq(Kinds) /\ Controls # <<>>

VARIABLES
  number,      \* which of the controls is under way
  kind,        \* the control parameter of the round's URLs
  pc,          \* where the coroutine running it is
  failing,     \* an exception is on its way through a finally clause
  outcome,     \* how the controls have ended
  checked,     \* the tokens whose server state has been read and found right
  client,      \* the consumer of each stream
  got,         \* the streams whose consumer has received bytes
  ready,       \* the streams whose ready event is set
  server,      \* the server's handler of each stream
  headers,     \* state.headers_sent, as the set of the tokens that have it
  written,     \* state.first_written
  eof,         \* state.eof_sent
  disconnected,\* state.disconnected
  released,    \* state.release is set
  late         \* streams of the round before this one that are still active

controlVars == <<number, kind, pc, failing, outcome, checked>>
clientVars == <<client, got, ready>>
stateVars == <<headers, written, eof, disconnected>>
serverVars == <<server, stateVars, released, late>>
vars == <<controlVars, clientVars, serverVars>>

\* Consumers that have left the context of their stream: after the first chunk,
\* at the end of the body, with an error or cancelled.
Left == {"chunk", "read", "error", "cancelled"}

Control == Controls[number]
Cancels == Control # "held-tail"

\* New tokens; a handler that has sent its whole body may still be finishing.
NewRound ==
  /\ late' = late \cup {t \in Stream : server[t] = "sent"}
  /\ checked' = {} /\ got' = {} /\ ready' = {} /\ headers' = {} /\ written' = {}
  /\ eof' = {} /\ disconnected' = {} /\ released' = {}
  /\ client' = [t \in Stream |-> "start"]
  /\ server' = [t \in Stream |-> "none"]

FirstStep(control) == IF control = "held-tail" THEN "round" ELSE "ready"

\* The control parameter of the URLs.
KindOf(control) == IF control = "body-wait" THEN "body-wait" ELSE "held-tail"

Init ==
  /\ number = 1
  /\ kind = KindOf(Controls[1])
  /\ pc = FirstStep(Controls[1])
  /\ failing = FALSE
  /\ outcome = "none"
  /\ checked = {} /\ got = {} /\ ready = {} /\ headers = {} /\ written = {}
  /\ eof = {} /\ disconnected = {} /\ released = {} /\ late = {}
  /\ client = [t \in Stream |-> "start"]
  /\ server = [t \in Stream |-> "none"]

(***************************************************************************)
(* The server's handler of a stream.                                        *)
(***************************************************************************)
Gone(t) == client[t] \in Left

\* The request of a consumer that has gone meanwhile may still arrive.
Register(t) ==
  /\ server[t] = "none"
  /\ server' = [server EXCEPT ![t] = "started"]
  /\ UNCHANGED <<controlVars, clientVars, stateVars, released, late>>

\* ConnectionError: a write to a consumer that has gone with bytes unread.
Disconnect(t) ==
  /\ Gone(t)
  /\ server[t] \in {"started", "body", "sent"} /\ client[t] # "read"
  /\ disconnected' = disconnected \cup {t}
  /\ server' = [server EXCEPT ![t] = "ended"]
  /\ UNCHANGED <<controlVars, clientVars, headers, written, eof, released, late>>

SendHeaders(t) ==
  /\ server[t] = "started"
  /\ headers' = headers \cup {t}
  /\ server' = [server EXCEPT ![t] = IF kind = "body-wait" THEN "held" ELSE "body"]
  /\ UNCHANGED <<controlVars, clientVars, written, eof, disconnected, released, late>>

SendFirst(t) ==
  /\ server[t] = "body" /\ t \notin written
  /\ written' = written \cup {t}
  /\ server' = [server EXCEPT ![t] = IF kind = "held-tail" THEN "held" ELSE "body"]
  /\ UNCHANGED <<controlVars, clientVars, headers, eof, disconnected, released, late>>

\* The remaining chunks; a consumer that does not read may stop them for good.
SendRest(t) ==
  /\ server[t] = "body" /\ t \in written
  /\ server' = [server EXCEPT ![t] = "sent"]
  /\ UNCHANGED <<controlVars, clientVars, stateVars, released, late>>

\* The last drain has returned.
FinishBody(t) ==
  /\ server[t] = "sent"
  /\ eof' = eof \cup {t}
  /\ server' = [server EXCEPT ![t] = "ended"]
  /\ UNCHANGED <<controlVars, clientVars, headers, written, disconnected, released, late>>

FinishLate(t) ==
  /\ t \in late
  /\ late' = late \ {t}
  /\ UNCHANGED <<controlVars, clientVars, server, stateVars, released>>

\* _wait_release: the consumer's leaving is noted, the release still awaited.
NoticeDisconnect(t) ==
  /\ server[t] = "held" /\ Gone(t) /\ t \notin disconnected
  /\ disconnected' = disconnected \cup {t}
  /\ UNCHANGED <<controlVars, clientVars, server, headers, written, eof, released, late>>

\* Faulty variant: a consumer that has left never gets past the wait.
LeaveWaitConnected(t) ==
  /\ server[t] = "held" /\ t \in released /\ t \notin disconnected
  /\ server' = [server EXCEPT ![t] = "body"]
  /\ UNCHANGED <<controlVars, clientVars, headers, written, eof, disconnected, released, late>>

\* Faulty variant: a disconnect is as good as a release.
LeaveWaitOnDisconnect(t) ==
  /\ server[t] = "held" /\ (t \in released \/ t \in disconnected)
  /\ server' = [server EXCEPT ![t] = IF t \in disconnected THEN "ended" ELSE "body"]
  /\ UNCHANGED <<controlVars, clientVars, headers, written, eof, disconnected, released, late>>

\* Released: the body goes on unless the consumer is known to have left.
LeaveWait(t) ==
  /\ server[t] = "held" /\ t \in released
  /\ \/ /\ Gone(t)
        /\ disconnected' = disconnected \cup {t}
        /\ server' = [server EXCEPT ![t] = "ended"]
     \/ /\ t \notin disconnected
        /\ server' = [server EXCEPT ![t] = "body"]
        /\ UNCHANGED disconnected
  /\ UNCHANGED <<controlVars, clientVars, headers, written, eof, released, late>>

\* What a handler does by itself once its request is there.
Serve(t) ==
  \/ Disconnect(t) \/ SendHeaders(t) \/ SendFirst(t) \/ SendRest(t) \/ FinishBody(t)
  \/ NoticeDisconnect(t) \/ LeaveWait(t) \/ FinishLate(t)

(***************************************************************************)
(* The consumers: consume_sync_stream, consume_async_stream and             *)
(* _cancellable_stream.                                                     *)
(***************************************************************************)
\* The response is there; a body-wait consumer is ready as soon as it is.
Open(t) ==
  /\ client[t] = "start" /\ t \in headers
  /\ client' = [client EXCEPT ![t] = "open"]
  /\ ready' = IF kind = "body-wait" THEN ready \cup {t} ELSE ready
  /\ UNCHANGED <<controlVars, got, serverVars>>

\* The first chunk: a held-tail consumer leaves, a slow one pauses.
ReadChunk(t) ==
  /\ client[t] = "open" /\ t \in written /\ t \notin got
  /\ got' = got \cup {t}
  /\ IF kind # "held-tail" THEN UNCHANGED <<client, ready>>
     ELSE IF Control = "held-tail"
     THEN client' = [client EXCEPT ![t] = "chunk"] /\ UNCHANGED ready
     ELSE client' = [client EXCEPT ![t] = "paused"] /\ ready' = ready \cup {t}
  /\ UNCHANGED <<controlVars, serverVars>>

\* The end of the body, complete and with the expected digest.
ReadEof(t) ==
  /\ client[t] = "open" /\ t \in got /\ (server[t] = "sent" \/ t \in eof)
  /\ client' = [client EXCEPT ![t] = "read"]
  /\ UNCHANGED <<controlVars, got, ready, serverVars>>

\* A time limit of the client, a lost connection or an invalid response.
Fail(t) ==
  /\ client[t] \in {"start", "open"}
  /\ client' = [client EXCEPT ![t] = "error"]
  /\ UNCHANGED <<controlVars, got, ready, serverVars>>

\* A cancelled consumer leaves its context: as cancelled, or with an error.
LeaveCancelled(t) ==
  /\ pc = "settle" /\ client[t] \notin Left
  /\ \E how \in {"cancelled", "error"} : client' = [client EXCEPT ![t] = how]
  /\ UNCHANGED <<controlVars, got, ready, serverVars>>

Consume(t) == Open(t) \/ ReadChunk(t) \/ ReadEof(t) \/ Fail(t)

(***************************************************************************)
(* The coroutine (or, for a sync case, the worker's main thread).           *)
(***************************************************************************)
End(how) ==
  /\ pc' = "ended"
  /\ outcome' = how

\* _async_round has gathered every consumer, or wait every future.
FinishRound ==
  /\ pc = "round"
  /\ \A t \in Stream : Gone(t)
  /\ failing' = (\E t \in Stream : client[t] = "error")
  /\ pc' = IF failing' THEN "release" ELSE "evidence"
  /\ UNCHANGED <<number, kind, outcome, checked, clientVars, serverVars>>

\* Every ready event is set, or the settle timeout passes.
AwaitReady ==
  /\ pc = "ready"
  /\ \/ ready = Stream /\ pc' = "evidence" /\ UNCHANGED failing
     \/ failing' = TRUE /\ pc' = "settle"
  /\ UNCHANGED <<number, kind, outcome, checked, clientVars, serverVars>>

Leaving == IF Cancels THEN "settle" ELSE "release"

\* What the state of a stream must show before the control goes on.
Proper(t) ==
  /\ t \in headers /\ t \notin released /\ t \notin eof
  /\ Control = "held-tail" => t \in written

\* One /state request; it may fail, and so may the control on its answer.
ReadState ==
  /\ pc = "evidence"
  /\ \/ /\ \E t \in Stream \ checked : Proper(t) /\ checked' = checked \cup {t}
        /\ UNCHANGED <<pc, failing>>
     \/ /\ checked # Stream
        /\ failing' = TRUE /\ pc' = Leaving
        /\ UNCHANGED checked
  /\ UNCHANGED <<number, kind, outcome, clientVars, serverVars>>

\* What the consumers have received is checked last.
CheckBytes ==
  /\ pc = "evidence" /\ checked = Stream
  /\ failing' = (got # (IF Control = "body-wait" THEN {} ELSE Stream))
  /\ pc' = Leaving
  /\ UNCHANGED <<number, kind, outcome, checked, clientVars, serverVars>>

\* Faulty variant: the consumers that have not settled are left alone.
SettleSome ==
  /\ pc = "settle"
  /\ pc' = "release"
  /\ UNCHANGED <<number, kind, failing, outcome, checked, clientVars, serverVars>>

\* Faulty variant: the wait for the consumers has no limit.
SettleAll ==
  /\ pc = "settle"
  /\ \A t \in Stream : Gone(t)
  /\ IF \A t \in Stream : client[t] = "cancelled"
     THEN pc' = "release" /\ UNCHANGED outcome ELSE End("failed")
  /\ UNCHANGED <<number, kind, failing, checked, clientVars, serverVars>>

\* _cancel_and_settle; what it raises skips the release.
Settle ==
  /\ pc = "settle"
  /\ IF \A t \in Stream : Gone(t)
     THEN IF \A t \in Stream : client[t] = "cancelled"
          THEN pc' = "release" /\ UNCHANGED outcome ELSE End("failed")
     ELSE End("unsettled")
  /\ UNCHANGED <<number, kind, failing, checked, clientVars, serverVars>>

\* One /release request: an unknown token, or a request that fails, ends the
\* control with the remaining tokens unreleased.
Release ==
  /\ pc = "release"
  /\ \/ /\ \E t \in Stream \ released : server[t] # "none" /\ released' = released \cup {t}
        /\ UNCHANGED <<pc, outcome>>
     \/ /\ released # Stream
        /\ End("failed")
        /\ UNCHANGED released
  /\ UNCHANGED <<number, kind, failing, checked, clientVars, server, stateVars, late>>

\* The release is complete: an exception in flight goes on.
FinishRelease ==
  /\ pc = "release" /\ released = Stream
  /\ IF failing THEN End("failed") ELSE pc' = "quiet" /\ UNCHANGED outcome
  /\ UNCHANGED <<number, kind, failing, checked, clientVars, serverVars>>

\* summary's active_requests, and the client's own counters.
Active == late \cup {t \in Stream : server[t] \notin {"none", "ended"}}
InUse == {t \in Stream : ~ Gone(t)}

\* Faulty variant: only streams that are being written count as active.
QuietWhileHeld ==
  /\ pc = "quiet"
  /\ \/ /\ \A t \in Active : server[t] = "held"
        /\ InUse = {}
        /\ pc' = "recovery" /\ kind' = "normal"
        /\ NewRound
        /\ UNCHANGED outcome
     \/ /\ End("failed")
        /\ UNCHANGED <<kind, checked, clientVars, serverVars>>
  /\ UNCHANGED <<number, failing>>

\* wait_quiet returns, or its time is over.
WaitQuiet ==
  /\ pc = "quiet"
  /\ \/ /\ Active = {} /\ InUse = {}
        /\ pc' = "recovery" /\ kind' = "normal"
        /\ NewRound
        /\ UNCHANGED outcome
     \/ /\ End("failed")
        /\ UNCHANGED <<kind, checked, clientVars, serverVars>>
  /\ UNCHANGED <<number, failing>>

\* The recovery round: every normal stream must have been read to its end.
Recover ==
  /\ pc = "recovery"
  /\ \A t \in Stream : Gone(t)
  /\ IF \E t \in Stream : client[t] = "error"
     THEN End("failed") /\ UNCHANGED <<number, kind, checked, clientVars, serverVars>>
     ELSE IF number = Len(Controls)
     THEN End("ok") /\ UNCHANGED <<number, kind, checked, clientVars, serverVars>>
     ELSE /\ number' = number + 1
          /\ kind' = KindOf(Controls[number + 1])
          /\ pc' = FirstStep(Controls[number + 1])
          /\ NewRound
          /\ UNCHANGED outcome
  /\ UNCHANGED failing

Run ==
  \/ FinishRound \/ AwaitReady \/ ReadState \/ CheckBytes \/ Settle \/ Release
  \/ FinishRelease \/ WaitQuiet \/ Recover

Ended ==
  /\ pc = "ended"
  /\ UNCHANGED vars

Next ==
  \/ Run
  \/ \E t \in Stream : Register(t) \/ Serve(t) \/ Consume(t) \/ LeaveCancelled(t)
  \/ Ended

Spec == Init /\ [][Next]_vars

\* The worker and the server keep running; a consumer makes progress or meets one
\* of its time limits.  Nothing makes a cancelled consumer leave its context.
FairSpec ==
  /\ Spec
  /\ WF_vars(Run)
  /\ \A t \in Stream : WF_vars(Serve(t)) /\ WF_vars(Consume(t))

(***************************************************************************)
(* Properties.                                                              *)
(***************************************************************************)
\* The release of a stream is the only way past its barrier, and it comes after
\* every consumer of the control has left its context (lifecycle_server.py,
\* _wait_release, and the contexts_closed_before_release of the evidence).
ReleaseAfterClose ==
  [][\A t \in released' \ released : \A u \in Stream : Gone(u)]_vars

\* The evidence, read stream by stream and before the consumers are cancelled, is
\* still right when a control that does not fail comes to release them: the
\* server holds every stream, none has sent its end.
EvidenceHolds ==
  pc = "release" /\ ~ failing =>
     \A t \in Stream \ released : server[t] = "held" /\ t \notin eof

\* When a control goes on to its recovery, every one of its streams has reached
\* the server, was released there and has ended on both sides: no request of the
\* control is still to come.
QuietForGood ==
  [][pc = "quiet" /\ pc' = "recovery" =>
        /\ late = {}
        /\ \A t \in Stream : server[t] = "ended" /\ t \in released /\ Gone(t)]_vars

\* The controls end, well or not, even if a cancelled consumer never settles.
ControlsEnd == <>(pc = "ended")

\* A stream that is released does not stay active at the server.
ReleasedEnds == \A t \in Stream : t \in released ~> server[t] = "ended" \/ t \notin released

=============================================================================
