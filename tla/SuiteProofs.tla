---------------------------- MODULE SuiteProofs -----------------------------
(***************************************************************************)
(* Proofs about the suites: what a result of SuiteCases says of its case,    *)
(* for every plan, every number of requests and workers, and whatever        *)
(* raises, and that ProxyTunnel delivers what is sent and releases its       *)
(* connections, for any number of chunks and any buffer size.                *)
(***************************************************************************)
EXTENDS SuiteCases, ProxyTunnel, Integers, FiniteSetTheorems, TLAPS

(***************************************************************************)
(* THE TUNNEL                                                               *)
(***************************************************************************)

(***************************************************************************)
(* The inductive invariant, in named parts.                                 *)
(***************************************************************************)
\* The types of everything that is not counted.
TunnelKinds ==
  /\ handler \in {"read", "open", "error", "relay", "answered", "failed", "released", "dropped",
             "confirm", "tunnel", "close", "closing", "end"}
  /\ kind \in {"http", "connect"} /\ keep \in BOOLEAN
  /\ pipe \in [Side -> {"idle", "read", "drain", "close", "wait", "done"}]
  /\ conn \in [Side -> {"none", "open", "closing", "lost"}]
  /\ broken \in [Side -> BOOLEAN] /\ eof \in [Side -> BOOLEAN]
  /\ peer \in [Side -> {"open", "half", "closed"}]

Counts == \A f \in {sent, wire, buffer, out, got, counted} : f \in [Side -> Nat]

\* No chunk is invented on its way, and none is lost unless the connection it is
\* on was, or its receiver has closed.
Conserved ==
  \A s \in Side :
    /\ sent[s] <= Chunks
    /\ wire[s] + buffer[s] + counted[s] <= sent[s]
    /\ out[Other(s)] + got[Other(s)] <= counted[s]
    /\ ~broken[s] => wire[s] + buffer[s] + counted[s] = sent[s]
    /\ peer[Other(s)] # "closed" => out[Other(s)] + got[Other(s)] = counted[s]

\* Nothing has been sent when a connection to an origin is opened.
Before == {"read", "open", "error", "relay", "answered", "failed", "released", "dropped"}
After == {"close", "closing", "end"}
Unsent == handler \in Before => \A s \in Side : sent[s] = 0

\* Where the pipes are, by the place of the handler.
Pipes ==
  /\ handler \in Before \cup {"confirm"} => \A s \in Side : pipe[s] = "idle"
  /\ handler = "tunnel" => \A s \in Side : pipe[s] # "idle"
  /\ handler \in After => \/ \A s \in Side : pipe[s] = "idle"
                     \/ \A s \in Side : pipe[s] = "done"

\* What a connection that is not open any more says.
Connections ==
  /\ conn["client"] # "none"
  /\ handler \in {"confirm", "tunnel"} => conn["origin"] # "none"
  /\ \A s \in Side : broken[s] => peer[s] = "closed" /\ conn[s] = "lost"
  /\ \A s \in Side : conn[s] = "lost" => out[s] = 0
  /\ \A s \in Side : eof[s] => wire[s] = 0 /\ peer[s] # "open"
  /\ handler = "end" => conn["client"] = "lost"

\* Who closes a connection: the pipe that writes to it, or the handler.
Closers ==
  /\ conn["client"] \in {"closing", "lost"} /\ ~broken["client"] =>
       handler \in {"closing", "end"} \/ pipe["origin"] \in {"wait", "done"}
  /\ handler \in {"confirm", "tunnel"} /\ conn["origin"] \in {"closing", "lost"} /\ ~broken["origin"] =>
       pipe["client"] \in {"wait", "done"}
  /\ \A s \in Side : pipe[s] = "done" => conn[Other(s)] = "lost"

\* A pipe whose receiver stays ends at the end of what was sent, and the other
\* pipe does not end before it.
Finishing ==
  \A s \in Side : peer[Other(s)] = "open" /\ ~broken[s] =>
    /\ pipe[s] \in {"read", "drain"} => pipe[Other(s)] \in {"read", "drain"}
    /\ pipe[s] \in {"close", "wait", "done"} => eof[s] /\ buffer[s] = 0

\* Who owns the connection to the origin.
Owned ==
  /\ handler = "confirm" => kind = "connect"
  /\ conn["origin"] \in {"open", "closing"} =>
       \/ handler \in {"relay", "answered", "failed", "released", "dropped", "confirm", "tunnel"}
       \/ /\ handler \in After /\ kind = "connect" /\ broken["client"]
          /\ \A s \in Side : pipe[s] = "idle"

TunnelInv == /\ TunnelKinds /\ Counts /\ Conserved /\ Unsent /\ Pipes /\ Connections /\ Closers
       /\ Finishing /\ Owned

\* Names of steps, places and sets that every proof below may expand.
USE DEF Before, After, Goto, streamVars, handlerVars, peerVars, readVars, writeVars, Side, Other,
        Closing, ClosedByPipe, DrainRaises, DrainReturns, ReaderEnded, Joined

(***************************************************************************)
(* Every part is preserved by every step.                                   *)
(***************************************************************************)
\* A step of the handler, a peer, a stream or a pipe, or a stutter.
LEMMA TunnelStepCases ==
  ASSUME [TunnelNext]_tunnelVars
  PROVE  \/ ReadRequest \/ Handler \/ UNCHANGED tunnelVars
         \/ \E s \in Side : PeerSends(s) \/ PeerCloses(s) \/ ConnectionReset(s)
         \/ \E s \in Side : DataReceived(s) \/ EofReceived(s) \/ Flush(s) \/ ConnectionClosed(s)
         \/ \E s \in Side : PipeRead(s) \/ PipeReadEnds(s) \/ PipeDrain(s) \/ PipeClose(s) \/ PipeEnds(s)
  BY DEF TunnelNext, Stream, Pipe

\* Handler, peers, streams and pipes keep to the types of what they assign.
LEMMA KindsStep == ASSUME TunnelInv, [TunnelNext]_tunnelVars PROVE TunnelKinds'
<1>1. CASE ReadRequest \/ Handler
  <2>1. CASE ReadRequest
    BY <2>1 DEF TunnelInv, TunnelKinds, ReadRequest
  <2>2. CASE ReadNothing
    BY <2>2 DEF TunnelInv, TunnelKinds, ReadNothing
  <2>3. CASE OpenOrigin
    BY <2>3 DEF TunnelInv, TunnelKinds, OpenOrigin
  <2>4. CASE OpenFails
    BY <2>4 DEF TunnelInv, TunnelKinds, OpenFails
  <2>5. CASE WriteError
    BY <2>5 DEF TunnelInv, TunnelKinds, WriteError
  <2>6. CASE Relay
    BY <2>6 DEF TunnelInv, TunnelKinds, Relay
  <2>7. CASE ReleaseOrigin
    BY <2>7 DEF TunnelInv, TunnelKinds, ReleaseOrigin
  <2>8. CASE OriginReleased
    BY <2>8 DEF TunnelInv, TunnelKinds, OriginReleased
  <2>9. CASE Confirm
    BY <2>9 DEF TunnelInv, TunnelKinds, Confirm
  <2>10. CASE LeaveTunnel
    BY <2>10 DEF TunnelInv, TunnelKinds, LeaveTunnel
  <2>11. CASE CloseConnection
    BY <2>11 DEF TunnelInv, TunnelKinds, CloseConnection
  <2>12. CASE EndHandler
    BY <2>12 DEF TunnelInv, TunnelKinds, EndHandler
  <2> QED
    BY <1>1, <2>1, <2>2, <2>3, <2>4, <2>5, <2>6, <2>7, <2>8, <2>9, <2>10, <2>11, <2>12
       DEF Handler
<1>2. ASSUME NEW s \in Side, PeerSends(s) \/ PeerCloses(s) \/ ConnectionReset(s) PROVE TunnelKinds'
  <2>1. CASE PeerSends(s)
    BY <2>1 DEF TunnelInv, TunnelKinds, PeerSends
  <2>2. CASE PeerCloses(s)
    BY <2>2 DEF TunnelInv, TunnelKinds, PeerCloses
  <2>3. CASE ConnectionReset(s)
    BY <2>3 DEF TunnelInv, TunnelKinds, ConnectionReset
  <2> QED
    BY <1>2, <2>1, <2>2, <2>3
<1>3. ASSUME NEW s \in Side, DataReceived(s) \/ EofReceived(s) \/ Flush(s) \/ ConnectionClosed(s)
      PROVE  TunnelKinds'
  <2>1. CASE DataReceived(s)
    BY <2>1 DEF TunnelInv, TunnelKinds, DataReceived
  <2>2. CASE EofReceived(s)
    BY <2>2 DEF TunnelInv, TunnelKinds, EofReceived
  <2>3. CASE Flush(s)
    BY <2>3 DEF TunnelInv, TunnelKinds, Flush
  <2>4. CASE ConnectionClosed(s)
    BY <2>4 DEF TunnelInv, TunnelKinds, ConnectionClosed
  <2> QED
    BY <1>3, <2>1, <2>2, <2>3, <2>4
<1>4. ASSUME NEW s \in Side,
             PipeRead(s) \/ PipeReadEnds(s) \/ PipeDrain(s) \/ PipeClose(s) \/ PipeEnds(s)
      PROVE  TunnelKinds'
  <2>1. CASE PipeRead(s)
    BY <2>1 DEF TunnelInv, TunnelKinds, PipeRead
  <2>2. CASE PipeReadEnds(s)
    BY <2>2 DEF TunnelInv, TunnelKinds, PipeReadEnds
  <2>3. CASE PipeDrain(s)
    BY <2>3 DEF TunnelInv, TunnelKinds, PipeDrain
  <2>4. CASE PipeClose(s)
    BY <2>4 DEF TunnelInv, TunnelKinds, PipeClose
  <2>5. CASE PipeEnds(s)
    BY <2>5 DEF TunnelInv, TunnelKinds, PipeEnds
  <2> QED
    BY <1>4, <2>1, <2>2, <2>3, <2>4, <2>5
<1> QED
  BY <1>1, <1>2, <1>3, <1>4, TunnelStepCases DEF TunnelInv, TunnelKinds, tunnelVars

\* Every count stays a natural number: a chunk is taken only from where there is one.
LEMMA CountsStep == ASSUME TunnelInv, [TunnelNext]_tunnelVars PROVE Counts'
<1>1. CASE ReadRequest \/ Handler
  BY <1>1 DEF TunnelInv, Counts, Handler, ReadRequest, ReadNothing, OpenOrigin, OpenFails,
     WriteError, Relay, ReleaseOrigin, OriginReleased, Confirm, LeaveTunnel, CloseConnection,
     EndHandler
<1>2. ASSUME NEW s \in Side, PeerSends(s) \/ PeerCloses(s) \/ ConnectionReset(s) PROVE Counts'
  BY <1>2 DEF TunnelInv, Counts, PeerSends, PeerCloses, ConnectionReset
<1>3. ASSUME NEW s \in Side, DataReceived(s) \/ EofReceived(s) \/ Flush(s) \/ ConnectionClosed(s)
      PROVE  Counts'
  BY <1>3 DEF TunnelInv, Counts, DataReceived, EofReceived, Flush, ConnectionClosed
<1>4. ASSUME NEW s \in Side,
             PipeRead(s) \/ PipeReadEnds(s) \/ PipeDrain(s) \/ PipeClose(s) \/ PipeEnds(s)
      PROVE  Counts'
  BY <1>4 DEF TunnelInv, Counts, PipeRead, PipeReadEnds, PipeDrain, PipeClose, PipeEnds
<1> QED
  BY <1>1, <1>2, <1>3, <1>4, TunnelStepCases DEF TunnelInv, Counts, tunnelVars

\* A chunk moves from the wire to the reader, from there, counted by pipe, to the
\* other transport, and on to the peer. It is lost only by a reset, or by a receiver
\* that has closed.
LEMMA ConservedStep == ASSUME TunnelInv, [TunnelNext]_tunnelVars PROVE Conserved'
<1>1. CASE ReadRequest \/ Handler
  <2>1. CASE OpenOrigin
    <3>1. \A t \in Side : sent[t] = 0
      BY <2>1 DEF TunnelInv, Unsent, OpenOrigin
    <3>2. ASSUME NEW t \in Side PROVE wire[t] = 0 /\ buffer[t] = 0 /\ counted[t] = 0
      <4>1. wire[t] \in Nat /\ buffer[t] \in Nat /\ counted[t] \in Nat
        BY DEF TunnelInv, Counts
      <4>2. wire[t] + buffer[t] + counted[t] <= 0
        BY <3>1 DEF TunnelInv, Conserved
      <4> QED
        BY <4>1, <4>2
    <3>3. \A t \in Side : out[t] = 0 /\ got[t] = 0
      BY <3>2 DEF TunnelInv, Counts, Conserved
    <3>4. UNCHANGED <<sent, wire, buffer, out, got, counted>>
      BY <2>1 DEF OpenOrigin
    <3> QED
      BY <3>1, <3>2, <3>3, <3>4, TunnelAssumption DEF Conserved, TunnelAssumption
  <2>2. CASE ~OpenOrigin
    <3>1. UNCHANGED <<broken, peerVars, readVars, writeVars, counted>>
      BY <1>1, <2>2 DEF Handler, ReadRequest, ReadNothing, OpenFails, WriteError,
         Relay, ReleaseOrigin, OriginReleased, Confirm, LeaveTunnel, CloseConnection,
         EndHandler
    <3> QED
      BY <3>1 DEF TunnelInv, Conserved
  <2> QED
    BY <2>1, <2>2
<1>2. ASSUME NEW s \in Side,
             PeerSends(s) \/ PeerCloses(s) \/ ConnectionReset(s)
      PROVE  Conserved'
  <2>1. CASE PeerSends(s)
    <3>1. /\ sent' = [sent EXCEPT ![s] = @ + 1] /\ wire' = [wire EXCEPT ![s] = @ + 1]
          /\ sent[s] < Chunks /\ ~broken[s]
          /\ UNCHANGED <<broken, peer, buffer, out, got, counted>>
      BY <2>1 DEF PeerSends, TunnelInv, Connections
    <3>2. /\ sent'[s] = sent[s] + 1 /\ sent'[Other(s)] = sent[Other(s)]
          /\ wire'[s] = wire[s] + 1 /\ wire'[Other(s)] = wire[Other(s)]
      BY <3>1 DEF TunnelInv, Counts
    <3> QED
      BY <3>1, <3>2, TunnelAssumption DEF TunnelInv, Conserved, Counts, TunnelAssumption
  <2>2. CASE PeerCloses(s)
    BY <2>2 DEF TunnelInv, Conserved, TunnelKinds, Counts, Unsent, Pipes, Connections, Closers,
       PeerCloses
  <2>3. CASE ConnectionReset(s)
    BY <2>3 DEF TunnelInv, Conserved, TunnelKinds, Counts, Unsent, Pipes, Connections, Closers,
       ConnectionReset
  <2> QED
    BY <1>2, <2>1, <2>2, <2>3
<1>3. ASSUME NEW s \in Side,
             DataReceived(s) \/ EofReceived(s) \/ Flush(s) \/ ConnectionClosed(s)
      PROVE  Conserved'
  <2>1. CASE DataReceived(s)
    BY <2>1 DEF TunnelInv, Conserved, TunnelKinds, Counts, Unsent, Pipes, Connections, Closers,
       DataReceived
  <2>2. CASE EofReceived(s)
    BY <2>2 DEF TunnelInv, Conserved, TunnelKinds, Counts, Unsent, Pipes, Connections, Closers,
       EofReceived
  <2>3. CASE Flush(s)
    BY <2>3 DEF TunnelInv, Conserved, TunnelKinds, Counts, Unsent, Pipes, Connections, Closers,
       Flush
  <2>4. CASE ConnectionClosed(s)
    BY <2>4 DEF TunnelInv, Conserved, TunnelKinds, Counts, Unsent, Pipes, Connections, Closers,
       ConnectionClosed
  <2> QED
    BY <1>3, <2>1, <2>2, <2>3, <2>4
<1>4. ASSUME NEW s \in Side,
             PipeRead(s) \/ PipeReadEnds(s) \/ PipeDrain(s) \/ PipeClose(s) \/ PipeEnds(s)
      PROVE  Conserved'
  <2>1. CASE PipeRead(s)
    BY <2>1 DEF TunnelInv, Conserved, TunnelKinds, Counts, Unsent, Pipes, Connections, Closers,
       PipeRead
  <2>2. CASE PipeReadEnds(s)
    BY <2>2 DEF TunnelInv, Conserved, TunnelKinds, Counts, Unsent, Pipes, Connections, Closers,
       PipeReadEnds
  <2>3. CASE PipeDrain(s)
    BY <2>3 DEF TunnelInv, Conserved, TunnelKinds, Counts, Unsent, Pipes, Connections, Closers,
       PipeDrain
  <2>4. CASE PipeClose(s)
    BY <2>4 DEF TunnelInv, Conserved, TunnelKinds, Counts, Unsent, Pipes, Connections, Closers,
       PipeClose
  <2>5. CASE PipeEnds(s)
    BY <2>5 DEF TunnelInv, Conserved, TunnelKinds, Counts, Unsent, Pipes, Connections, Closers,
       PipeEnds
  <2> QED
    BY <1>4, <2>1, <2>2, <2>3, <2>4, <2>5
<1> QED
  BY <1>1, <1>2, <1>3, <1>4, TunnelStepCases DEF TunnelInv, Conserved, tunnelVars

\* Nothing is sent before the proxy has a connection to each side (open_connection).
LEMMA UnsentStep == ASSUME TunnelInv, [TunnelNext]_tunnelVars PROVE Unsent'
<1>1. CASE ReadRequest \/ Handler
  BY <1>1 DEF TunnelInv, Unsent, TunnelKinds, Counts, Handler, ReadRequest, ReadNothing, OpenOrigin,
     OpenFails, WriteError, Relay, ReleaseOrigin, OriginReleased, Confirm, LeaveTunnel,
     CloseConnection, EndHandler
<1>2. ASSUME NEW s \in Side,
             PeerSends(s) \/ PeerCloses(s) \/ ConnectionReset(s)
      PROVE  Unsent'
  <2>1. CASE PeerSends(s)
    BY <2>1 DEF TunnelInv, Unsent, TunnelKinds, Counts, PeerSends
  <2>2. CASE PeerCloses(s)
    BY <2>2 DEF TunnelInv, Unsent, TunnelKinds, Counts, PeerCloses
  <2>3. CASE ConnectionReset(s)
    BY <2>3 DEF TunnelInv, Unsent, TunnelKinds, Counts, ConnectionReset
  <2> QED
    BY <1>2, <2>1, <2>2, <2>3
<1>3. ASSUME NEW s \in Side,
             DataReceived(s) \/ EofReceived(s) \/ Flush(s) \/ ConnectionClosed(s)
      PROVE  Unsent'
  <2>1. CASE DataReceived(s)
    BY <2>1 DEF TunnelInv, Unsent, TunnelKinds, Counts, DataReceived
  <2>2. CASE EofReceived(s)
    BY <2>2 DEF TunnelInv, Unsent, TunnelKinds, Counts, EofReceived
  <2>3. CASE Flush(s)
    BY <2>3 DEF TunnelInv, Unsent, TunnelKinds, Counts, Flush
  <2>4. CASE ConnectionClosed(s)
    BY <2>4 DEF TunnelInv, Unsent, TunnelKinds, Counts, ConnectionClosed
  <2> QED
    BY <1>3, <2>1, <2>2, <2>3, <2>4
<1>4. ASSUME NEW s \in Side,
             PipeRead(s) \/ PipeReadEnds(s) \/ PipeDrain(s) \/ PipeClose(s) \/ PipeEnds(s)
      PROVE  Unsent'
  <2>1. CASE PipeRead(s)
    BY <2>1 DEF TunnelInv, Unsent, TunnelKinds, Counts, PipeRead
  <2>2. CASE PipeReadEnds(s)
    BY <2>2 DEF TunnelInv, Unsent, TunnelKinds, Counts, PipeReadEnds
  <2>3. CASE PipeDrain(s)
    BY <2>3 DEF TunnelInv, Unsent, TunnelKinds, Counts, PipeDrain
  <2>4. CASE PipeClose(s)
    BY <2>4 DEF TunnelInv, Unsent, TunnelKinds, Counts, PipeClose
  <2>5. CASE PipeEnds(s)
    BY <2>5 DEF TunnelInv, Unsent, TunnelKinds, Counts, PipeEnds
  <2> QED
    BY <1>4, <2>1, <2>2, <2>3, <2>4, <2>5
<1> QED
  BY <1>1, <1>2, <1>3, <1>4, TunnelStepCases DEF TunnelInv, Unsent, tunnelVars

\* Both pipes start when the tunnel is confirmed, and the handler goes on when both
\* have ended (asyncio.gather).
LEMMA PipesStep == ASSUME TunnelInv, [TunnelNext]_tunnelVars PROVE Pipes'
<1>1. CASE ReadRequest \/ Handler
  BY <1>1 DEF TunnelInv, Pipes, TunnelKinds, Handler, ReadRequest, ReadNothing, OpenOrigin, OpenFails,
     WriteError, Relay, ReleaseOrigin, OriginReleased, Confirm, LeaveTunnel, CloseConnection,
     EndHandler
<1>2. ASSUME NEW s \in Side,
             PeerSends(s) \/ PeerCloses(s) \/ ConnectionReset(s)
      PROVE  Pipes'
  <2>1. CASE PeerSends(s)
    BY <2>1 DEF TunnelInv, Pipes, TunnelKinds, PeerSends
  <2>2. CASE PeerCloses(s)
    BY <2>2 DEF TunnelInv, Pipes, TunnelKinds, PeerCloses
  <2>3. CASE ConnectionReset(s)
    BY <2>3 DEF TunnelInv, Pipes, TunnelKinds, ConnectionReset
  <2> QED
    BY <1>2, <2>1, <2>2, <2>3
<1>3. ASSUME NEW s \in Side,
             DataReceived(s) \/ EofReceived(s) \/ Flush(s) \/ ConnectionClosed(s)
      PROVE  Pipes'
  <2>1. CASE DataReceived(s)
    BY <2>1 DEF TunnelInv, Pipes, TunnelKinds, DataReceived
  <2>2. CASE EofReceived(s)
    BY <2>2 DEF TunnelInv, Pipes, TunnelKinds, EofReceived
  <2>3. CASE Flush(s)
    BY <2>3 DEF TunnelInv, Pipes, TunnelKinds, Flush
  <2>4. CASE ConnectionClosed(s)
    BY <2>4 DEF TunnelInv, Pipes, TunnelKinds, ConnectionClosed
  <2> QED
    BY <1>3, <2>1, <2>2, <2>3, <2>4
<1>4. ASSUME NEW s \in Side,
             PipeRead(s) \/ PipeReadEnds(s) \/ PipeDrain(s) \/ PipeClose(s) \/ PipeEnds(s)
      PROVE  Pipes'
  <2>1. CASE PipeRead(s)
    BY <2>1 DEF TunnelInv, Pipes, TunnelKinds, PipeRead
  <2>2. CASE PipeReadEnds(s)
    BY <2>2 DEF TunnelInv, Pipes, TunnelKinds, PipeReadEnds
  <2>3. CASE PipeDrain(s)
    BY <2>3 DEF TunnelInv, Pipes, TunnelKinds, PipeDrain
  <2>4. CASE PipeClose(s)
    BY <2>4 DEF TunnelInv, Pipes, TunnelKinds, PipeClose
  <2>5. CASE PipeEnds(s)
    BY <2>5 DEF TunnelInv, Pipes, TunnelKinds, PipeEnds
  <2> QED
    BY <1>4, <2>1, <2>2, <2>3, <2>4, <2>5
<1> QED
  BY <1>1, <1>2, <1>3, <1>4, TunnelStepCases DEF TunnelInv, Pipes, tunnelVars

\* A lost connection has nothing left to write, and a reader at its end nothing left
\* to receive.
LEMMA ConnectionsStep == ASSUME TunnelInv, [TunnelNext]_tunnelVars PROVE Connections'
<1>1. CASE ReadRequest \/ Handler
  BY <1>1 DEF TunnelInv, Connections, TunnelKinds, Counts, Pipes, Handler, ReadRequest, ReadNothing,
     OpenOrigin, OpenFails, WriteError, Relay, ReleaseOrigin, OriginReleased, Confirm,
     LeaveTunnel, CloseConnection, EndHandler
<1>2. ASSUME NEW s \in Side,
             PeerSends(s) \/ PeerCloses(s) \/ ConnectionReset(s)
      PROVE  Connections'
  <2>1. CASE PeerSends(s)
    BY <2>1 DEF TunnelInv, Connections, TunnelKinds, Counts, Pipes, PeerSends
  <2>2. CASE PeerCloses(s)
    BY <2>2 DEF TunnelInv, Connections, TunnelKinds, Counts, Pipes, PeerCloses
  <2>3. CASE ConnectionReset(s)
    BY <2>3 DEF TunnelInv, Connections, TunnelKinds, Counts, Pipes, ConnectionReset
  <2> QED
    BY <1>2, <2>1, <2>2, <2>3
<1>3. ASSUME NEW s \in Side,
             DataReceived(s) \/ EofReceived(s) \/ Flush(s) \/ ConnectionClosed(s)
      PROVE  Connections'
  <2>1. CASE DataReceived(s)
    BY <2>1 DEF TunnelInv, Connections, TunnelKinds, Counts, Pipes, DataReceived
  <2>2. CASE EofReceived(s)
    BY <2>2 DEF TunnelInv, Connections, TunnelKinds, Counts, Pipes, EofReceived
  <2>3. CASE Flush(s)
    BY <2>3 DEF TunnelInv, Connections, TunnelKinds, Counts, Pipes, Flush
  <2>4. CASE ConnectionClosed(s)
    BY <2>4 DEF TunnelInv, Connections, TunnelKinds, Counts, Pipes, ConnectionClosed
  <2> QED
    BY <1>3, <2>1, <2>2, <2>3, <2>4
<1>4. ASSUME NEW s \in Side,
             PipeRead(s) \/ PipeReadEnds(s) \/ PipeDrain(s) \/ PipeClose(s) \/ PipeEnds(s)
      PROVE  Connections'
  <2>1. CASE PipeRead(s)
    BY <2>1 DEF TunnelInv, Connections, TunnelKinds, Counts, Pipes, PipeRead
  <2>2. CASE PipeReadEnds(s)
    BY <2>2 DEF TunnelInv, Connections, TunnelKinds, Counts, Pipes, PipeReadEnds
  <2>3. CASE PipeDrain(s)
    BY <2>3 DEF TunnelInv, Connections, TunnelKinds, Counts, Pipes, PipeDrain
  <2>4. CASE PipeClose(s)
    BY <2>4 DEF TunnelInv, Connections, TunnelKinds, Counts, Pipes, PipeClose
  <2>5. CASE PipeEnds(s)
    BY <2>5 DEF TunnelInv, Connections, TunnelKinds, Counts, Pipes, PipeEnds
  <2> QED
    BY <1>4, <2>1, <2>2, <2>3, <2>4, <2>5
<1> QED
  BY <1>1, <1>2, <1>3, <1>4, TunnelStepCases DEF TunnelInv, Connections, tunnelVars

\* A connection is closed by the pipe that writes to it, or by the handler at its
\* end; a pipe ends once that connection is gone (close_writer).
LEMMA ClosersStep == ASSUME TunnelInv, [TunnelNext]_tunnelVars PROVE Closers'
<1>1. CASE ReadRequest \/ Handler
  BY <1>1 DEF TunnelInv, Closers, TunnelKinds, Pipes, Connections, Handler, ReadRequest, ReadNothing,
     OpenOrigin, OpenFails, WriteError, Relay, ReleaseOrigin, OriginReleased, Confirm,
     LeaveTunnel, CloseConnection, EndHandler
<1>2. ASSUME NEW s \in Side,
             PeerSends(s) \/ PeerCloses(s) \/ ConnectionReset(s)
      PROVE  Closers'
  <2>1. CASE PeerSends(s)
    BY <2>1 DEF TunnelInv, Closers, TunnelKinds, Pipes, Connections, PeerSends
  <2>2. CASE PeerCloses(s)
    BY <2>2 DEF TunnelInv, Closers, TunnelKinds, Pipes, Connections, PeerCloses
  <2>3. CASE ConnectionReset(s)
    BY <2>3 DEF TunnelInv, Closers, TunnelKinds, Pipes, Connections, ConnectionReset
  <2> QED
    BY <1>2, <2>1, <2>2, <2>3
<1>3. ASSUME NEW s \in Side,
             DataReceived(s) \/ EofReceived(s) \/ Flush(s) \/ ConnectionClosed(s)
      PROVE  Closers'
  <2>1. CASE DataReceived(s)
    BY <2>1 DEF TunnelInv, Closers, TunnelKinds, Pipes, Connections, DataReceived
  <2>2. CASE EofReceived(s)
    BY <2>2 DEF TunnelInv, Closers, TunnelKinds, Pipes, Connections, EofReceived
  <2>3. CASE Flush(s)
    BY <2>3 DEF TunnelInv, Closers, TunnelKinds, Pipes, Connections, Flush
  <2>4. CASE ConnectionClosed(s)
    BY <2>4 DEF TunnelInv, Closers, TunnelKinds, Pipes, Connections, ConnectionClosed
  <2> QED
    BY <1>3, <2>1, <2>2, <2>3, <2>4
<1>4. ASSUME NEW s \in Side,
             PipeRead(s) \/ PipeReadEnds(s) \/ PipeDrain(s) \/ PipeClose(s) \/ PipeEnds(s)
      PROVE  Closers'
  <2>1. CASE PipeRead(s)
    BY <2>1 DEF TunnelInv, Closers, TunnelKinds, Pipes, Connections, PipeRead
  <2>2. CASE PipeReadEnds(s)
    BY <2>2 DEF TunnelInv, Closers, TunnelKinds, Pipes, Connections, PipeReadEnds
  <2>3. CASE PipeDrain(s)
    BY <2>3 DEF TunnelInv, Closers, TunnelKinds, Pipes, Connections, PipeDrain
  <2>4. CASE PipeClose(s)
    BY <2>4 DEF TunnelInv, Closers, TunnelKinds, Pipes, Connections, PipeClose
  <2>5. CASE PipeEnds(s)
    BY <2>5 DEF TunnelInv, Closers, TunnelKinds, Pipes, Connections, PipeEnds
  <2> QED
    BY <1>4, <2>1, <2>2, <2>3, <2>4, <2>5
<1> QED
  BY <1>1, <1>2, <1>3, <1>4, TunnelStepCases DEF TunnelInv, Closers, tunnelVars

\* As long as the receiver stays and the sender does not reset, a pipe gets to its end
\* only by the end of what was sent, and the other pipe does not end before it.
LEMMA FinishingStep == ASSUME TunnelInv, [TunnelNext]_tunnelVars PROVE Finishing'
<1>1. CASE ReadRequest \/ Handler
  BY <1>1 DEF TunnelInv, Finishing, TunnelKinds, Counts, Pipes, Connections, Closers, Handler,
     ReadRequest, ReadNothing, OpenOrigin, OpenFails, WriteError, Relay, ReleaseOrigin,
     OriginReleased, Confirm, LeaveTunnel, CloseConnection, EndHandler
<1>2. ASSUME NEW s \in Side,
             PeerSends(s) \/ PeerCloses(s) \/ ConnectionReset(s)
      PROVE  Finishing'
  <2>1. CASE PeerSends(s)
    BY <2>1 DEF TunnelInv, Finishing, TunnelKinds, Counts, Pipes, Connections, Closers, PeerSends
  <2>2. CASE PeerCloses(s)
    BY <2>2 DEF TunnelInv, Finishing, TunnelKinds, Counts, Pipes, Connections, Closers, PeerCloses
  <2>3. CASE ConnectionReset(s)
    BY <2>3 DEF TunnelInv, Finishing, TunnelKinds, Counts, Pipes, Connections, Closers,
       ConnectionReset
  <2> QED
    BY <1>2, <2>1, <2>2, <2>3
<1>3. ASSUME NEW s \in Side,
             DataReceived(s) \/ EofReceived(s) \/ Flush(s) \/ ConnectionClosed(s)
      PROVE  Finishing'
  <2>1. CASE DataReceived(s)
    BY <2>1 DEF TunnelInv, Finishing, TunnelKinds, Counts, Pipes, Connections, Closers, DataReceived
  <2>2. CASE EofReceived(s)
    BY <2>2 DEF TunnelInv, Finishing, TunnelKinds, Counts, Pipes, Connections, Closers, EofReceived
  <2>3. CASE Flush(s)
    BY <2>3 DEF TunnelInv, Finishing, TunnelKinds, Counts, Pipes, Connections, Closers, Flush
  <2>4. CASE ConnectionClosed(s)
    BY <2>4 DEF TunnelInv, Finishing, TunnelKinds, Counts, Pipes, Connections, Closers,
       ConnectionClosed
  <2> QED
    BY <1>3, <2>1, <2>2, <2>3, <2>4
<1>4. ASSUME NEW s \in Side,
             PipeRead(s) \/ PipeReadEnds(s) \/ PipeDrain(s) \/ PipeClose(s) \/ PipeEnds(s)
      PROVE  Finishing'
  <2>1. CASE PipeRead(s)
    BY <2>1 DEF TunnelInv, Finishing, TunnelKinds, Counts, Pipes, Connections, Closers, PipeRead
  <2>2. CASE PipeReadEnds(s)
    BY <2>2 DEF TunnelInv, Finishing, TunnelKinds, Counts, Pipes, Connections, Closers, PipeReadEnds
  <2>3. CASE PipeDrain(s)
    BY <2>3 DEF TunnelInv, Finishing, TunnelKinds, Counts, Pipes, Connections, Closers, PipeDrain
  <2>4. CASE PipeClose(s)
    BY <2>4 DEF TunnelInv, Finishing, TunnelKinds, Counts, Pipes, Connections, Closers, PipeClose
  <2>5. CASE PipeEnds(s)
    BY <2>5 DEF TunnelInv, Finishing, TunnelKinds, Counts, Pipes, Connections, Closers, PipeEnds
  <2> QED
    BY <1>4, <2>1, <2>2, <2>3, <2>4, <2>5
<1> QED
  BY <1>1, <1>2, <1>3, <1>4, TunnelStepCases DEF TunnelInv, Finishing, tunnelVars

\* A connection to the origin has the handler or a pipe to close it, unless the client
\* was lost before the pipes started (handle_connect_request).
LEMMA OwnedStep == ASSUME TunnelInv, [TunnelNext]_tunnelVars PROVE Owned'
<1>1. CASE ReadRequest \/ Handler
  BY <1>1 DEF TunnelInv, Owned, TunnelKinds, Pipes, Connections, Closers, Handler, ReadRequest,
     ReadNothing, OpenOrigin, OpenFails, WriteError, Relay, ReleaseOrigin, OriginReleased,
     Confirm, LeaveTunnel, CloseConnection, EndHandler
<1>2. ASSUME NEW s \in Side,
             PeerSends(s) \/ PeerCloses(s) \/ ConnectionReset(s)
      PROVE  Owned'
  <2>1. CASE PeerSends(s)
    BY <2>1 DEF TunnelInv, Owned, TunnelKinds, Pipes, Connections, Closers, PeerSends
  <2>2. CASE PeerCloses(s)
    BY <2>2 DEF TunnelInv, Owned, TunnelKinds, Pipes, Connections, Closers, PeerCloses
  <2>3. CASE ConnectionReset(s)
    BY <2>3 DEF TunnelInv, Owned, TunnelKinds, Pipes, Connections, Closers, ConnectionReset
  <2> QED
    BY <1>2, <2>1, <2>2, <2>3
<1>3. ASSUME NEW s \in Side,
             DataReceived(s) \/ EofReceived(s) \/ Flush(s) \/ ConnectionClosed(s)
      PROVE  Owned'
  <2>1. CASE DataReceived(s)
    BY <2>1 DEF TunnelInv, Owned, TunnelKinds, Pipes, Connections, Closers, DataReceived
  <2>2. CASE EofReceived(s)
    BY <2>2 DEF TunnelInv, Owned, TunnelKinds, Pipes, Connections, Closers, EofReceived
  <2>3. CASE Flush(s)
    BY <2>3 DEF TunnelInv, Owned, TunnelKinds, Pipes, Connections, Closers, Flush
  <2>4. CASE ConnectionClosed(s)
    BY <2>4 DEF TunnelInv, Owned, TunnelKinds, Pipes, Connections, Closers, ConnectionClosed
  <2> QED
    BY <1>3, <2>1, <2>2, <2>3, <2>4
<1>4. ASSUME NEW s \in Side,
             PipeRead(s) \/ PipeReadEnds(s) \/ PipeDrain(s) \/ PipeClose(s) \/ PipeEnds(s)
      PROVE  Owned'
  <2>1. CASE PipeRead(s)
    BY <2>1 DEF TunnelInv, Owned, TunnelKinds, Pipes, Connections, Closers, PipeRead
  <2>2. CASE PipeReadEnds(s)
    BY <2>2 DEF TunnelInv, Owned, TunnelKinds, Pipes, Connections, Closers, PipeReadEnds
  <2>3. CASE PipeDrain(s)
    BY <2>3 DEF TunnelInv, Owned, TunnelKinds, Pipes, Connections, Closers, PipeDrain
  <2>4. CASE PipeClose(s)
    BY <2>4 DEF TunnelInv, Owned, TunnelKinds, Pipes, Connections, Closers, PipeClose
  <2>5. CASE PipeEnds(s)
    BY <2>5 DEF TunnelInv, Owned, TunnelKinds, Pipes, Connections, Closers, PipeEnds
  <2> QED
    BY <1>4, <2>1, <2>2, <2>3, <2>4, <2>5
<1> QED
  BY <1>1, <1>2, <1>3, <1>4, TunnelStepCases DEF TunnelInv, Owned, tunnelVars

\* TunnelInv is inductive.
THEOREM TunnelInvariance == TunnelSpec => []TunnelInv
<1>1. TunnelInit => TunnelInv
  <2>1. ASSUME TunnelInit PROVE TunnelKinds /\ Counts
    BY <2>1 DEF TunnelInit, TunnelKinds, Counts
  <2>2. ASSUME TunnelInit
        PROVE  Conserved /\ Unsent /\ Pipes /\ Connections /\ Closers /\ Finishing /\ Owned
    BY <2>2, TunnelAssumption DEF TunnelInit, Conserved, Unsent, Pipes, Connections, Closers,
       Finishing, Owned, TunnelAssumption
  <2> QED
    BY <2>1, <2>2 DEF TunnelInv
<1>2. TunnelInv /\ [TunnelNext]_tunnelVars => TunnelInv'
  BY KindsStep, CountsStep, ConservedStep, UnsentStep, PipesStep, ConnectionsStep,
     ClosersStep, FinishingStep, OwnedStep DEF TunnelInv
<1> QED
  BY <1>1, <1>2, PTL DEF TunnelSpec

(***************************************************************************)
(* The properties.                                                          *)
(***************************************************************************)
\* Every variable keeps its type, and no count exceeds what a peer sends through a
\* tunnel.
THEOREM TunnelTypeCorrect == TunnelSpec => []TunnelTypeOK
<1>1. ASSUME TunnelInv, NEW s \in Side
      PROVE  /\ sent[s] \in 0 .. Chunks /\ wire[s] \in 0 .. Chunks /\ buffer[s] \in 0 .. Chunks
             /\ counted[s] \in 0 .. Chunks
             /\ out[Other(s)] \in 0 .. Chunks /\ got[Other(s)] \in 0 .. Chunks
  BY <1>1, TunnelAssumption DEF TunnelInv, Counts, Conserved, TunnelAssumption
<1>2. TunnelInv => TunnelTypeOK
  BY <1>1 DEF TunnelInv, TunnelKinds, Counts, TunnelTypeOK
<1> QED
  BY <1>2, TunnelInvariance, PTL

\* A tunnel delivers all that was sent to a side that stays, by a side that does
\* not reset, whatever the other direction does (tunnel_streams, pipe).
THEOREM TunnelsAreWhole == TunnelSpec => []TunnelIsWhole
<1>1. ASSUME TunnelInv, NEW s \in Side,
             handler = "end", pipe[s] # "idle", peer[Other(s)] = "open", ~broken[s]
      PROVE  got[Other(s)] = sent[s] /\ counted[s] = sent[s]
  <2>1. pipe[s] = "done"
    BY <1>1 DEF TunnelInv, Pipes
  <2>2. eof[s] /\ buffer[s] = 0 /\ wire[s] = 0
    BY <1>1, <2>1 DEF TunnelInv, Finishing, Connections
  <2>3. out[Other(s)] = 0
    BY <1>1, <2>1 DEF TunnelInv, Closers, Connections
  <2> QED
    BY <1>1, <2>2, <2>3 DEF TunnelInv, Counts, Conserved
<1>2. TunnelInv => TunnelIsWhole
  BY <1>1 DEF TunnelIsWhole
<1> QED
  BY <1>2, TunnelInvariance, PTL

\* Between requests and at the end no connection to an origin is left, but for a
\* client lost while its tunnel is confirmed (handle_http_proxy_request,
\* handle_connect_request).
THEOREM OriginsAreReleased == TunnelSpec => []OriginNotLeaked
<1>1. TunnelInv => OriginNotLeaked
  BY DEF TunnelInv, Owned, OriginNotLeaked
<1> QED
  BY <1>1, TunnelInvariance, PTL

HIDE DEF Before, After, Goto, streamVars, handlerVars, peerVars, readVars, writeVars, Side, Other,
         Closing, ClosedByPipe, DrainRaises, DrainReturns, ReaderEnded, Joined

(***************************************************************************)
(* THE SUITES                                                               *)
(*                                                                         *)
(* The invariant says where in its program a case may be, step numbers       *)
(* taken from the programs, and what has been counted until then.            *)
(***************************************************************************)

SuiteNames == {"streaming", "one-upstream", "proxy", "resource", "builder", "creation"}
Counters == [http : Nat, connect : Nat]

PlanType == suite \in SuiteNames /\ item \in Cases /\ route \in {"direct", "proxy"}
StepType == pc \in Nat /\ raises \in Nat /\ reported \in Nat /\ open \in Nat /\ env \in {"initial", "proxy"}
FlagType == raised \in BOOLEAN /\ recovered \in BOOLEAN /\ running \in BOOLEAN /\ tunnel \in BOOLEAN
LoadType == left \in Nat /\ busy \in Nat /\ stage \in {"make", "use", "close"}
TallyType == tally \in [errors : Nat, verified : Nat, begun : Nat, whole : Nat, intact : Nat]
CounterType == seen \in Counters /\ late \in Counters /\ charged \in Counters
SnapshotType == snapshots \in Seq([at : SnapshotSteps, seen : Counters])
TypeOK ==
  PlanType /\ StepType /\ FlagType /\ LoadType /\ TallyType /\ CounterType /\ SnapshotType

\* The steps of a program that are loads, and its end.
Loads == IF suite = "creation" THEN {1} ELSE IF suite = "proxy" THEN {4, 6} ELSE {2, 3}
End == CASE suite = "streaming" -> 7
         [] suite = "one-upstream" -> 8
         [] suite = "resource" -> 8
         [] suite = "builder" -> 6
         [] suite = "creation" -> 3
         [] suite = "proxy" -> 13

\* Requests are in flight only in a load, a creation operation raises nothing,
\* and a case has a result only when it has been reported.
Flow ==
  /\ pc <= End
  /\ running => pc \in Loads /\ ~raised
  /\ ~running => left = 0 /\ busy = 0
  /\ ~(running /\ suite = "creation") => stage = "make"
  /\ pc = 1 => ~raised
  /\ suite = "creation" => ~raised /\ busy <= open
  /\ result # Unreported =>
       IF suite = "one-upstream" THEN pc \in {7, 8} ELSE pc = End /\ ~raised

\* What the result was computed from has not changed since.
Kept == result # Unreported => result = Result

\* The process has the variables of its case between setting and restoring them.
Environment ==
  IF suite # "proxy" THEN env = "initial"
  ELSE /\ IF pc \in 2 .. 11 THEN (env = "proxy") = (item.config = "trust-env") ELSE env = "initial"
       /\ pc \notin 3 .. 9 => open = 0

\* The errors an operation has counted, and can still count, by its stage.
Operation ==
  CASE item.kind = "create-close" ->
         /\ stage \in {"make", "use"} => tally.errors + left <= Requests
         /\ stage = "close" => tally.errors + left + busy <= Requests + 1
         /\ stage = "make" => busy = 0
         /\ stage = "use" => busy = 1 /\ left > 0
         /\ stage = "close" => busy <= 1 /\ left > 0
    [] item.kind = "create-first-request" ->
         /\ stage \in {"make", "use"} => tally.errors + 3 * left <= 3 * Requests
         /\ stage = "close" => tally.errors + 3 * left + busy <= 3 * Requests + 3
         /\ stage = "make" => busy = 0
         /\ stage = "use" => busy = 1 /\ left > 0
         /\ stage = "close" => busy <= 1 /\ left > 0
    [] item.kind = "reused-request" ->
         /\ stage = "make" => /\ busy = 0
                              /\ left > 0 => left = Requests /\ tally.errors = 0
                              /\ tally.errors <= Requests + 2
         /\ stage = "use" => busy = 1 /\ tally.errors + left <= Requests
         /\ stage = "close" => busy <= 1 /\ tally.errors + busy <= Requests + 2
    [] OTHER ->
         /\ stage = "make" => /\ left > 0 => left = Concurrency /\ tally.errors = 0 /\ busy < left
                              /\ left = 0 => busy = 0
                              /\ tally.errors <= Concurrency + 1
         /\ stage = "use" => tally.errors = 0 /\ busy <= Concurrency
         /\ stage = "close" => tally.errors + busy <= Concurrency + 1

\* A client that is open is counted as being used, or as an error.
Creation ==
  suite = "creation" /\ pc > 0 =>
    /\ open <= tally.errors + busy
    /\ running => Operation
    /\ ~running => tally.errors <= OperationErrorLimit
    /\ pc = 1 /\ ~running => tally.errors = 0

\* The requests of the measured load that have ended well so far.
Good == Requests - left - busy - tally.errors

\* The bytes verified are those of the streams that ended well, whose bodies came
\* as far as this way of reading can tell.
Verified ==
  /\ tally.verified = Size * Good
  /\ item.read = "bytes" => Good <= tally.intact
  /\ item.read = "text" => Good <= tally.whole
  /\ item.read = "lines" => Good <= tally.begun

Bodies ==
  suite = "streaming" /\ ~raised /\ (pc \in 4 .. 7 \/ (pc = 3 /\ running)) /\ item.consume = "all" =>
    Verified

\* The snapshots a case has taken when it comes to its step n.
Taken(n) == IF n <= 3 THEN 0 ELSE IF n <= 5 THEN 1 ELSE IF n <= 7 THEN 2 ELSE IF n <= 10 THEN 3 ELSE 4

InProxyCase == suite = "proxy" /\ ~raised /\ pc > 0

Snapshots ==
  InProxyCase =>
    /\ Len(snapshots) = Taken(pc)
    /\ Len(snapshots) >= 1 => snapshots[1].at = "start"
    /\ Len(snapshots) >= 2 => snapshots[2].at = "measured-start"
    /\ Len(snapshots) >= 3 => snapshots[3].at = "measured-end"
    /\ Len(snapshots) >= 4 => snapshots[4].at = "total-end"

\* The proxy's counters, now or when the snapshot i was taken.
Counter(i, k) == IF Len(snapshots) >= i THEN snapshots[i].seen[k] ELSE seen[k]

Kinds == {"http", "connect"}

Growing ==
  InProxyCase =>
    \A k \in Kinds : /\ Counter(1, k) <= Counter(2, k) /\ Counter(2, k) <= Counter(3, k)
                     /\ Counter(3, k) <= Counter(4, k)

\* A case whose client does not use the proxy is charged with all it has seen
\* since the first snapshot.
Charged ==
  InProxyCase =>
    /\ Len(snapshots) = 0 => \A k \in Kinds : charged[k] = 0
    /\ route = "direct" => \A k \in Kinds : Counter(4, k) = Counter(1, k) + charged[k]

\* A tunnel, and a request that has ended well without having made one, have
\* been connected within the case.
Tunnelled ==
  InProxyCase =>
    /\ tunnel => pc \in 4 .. 9 /\ route = "proxy" /\ Counter(1, "connect") < seen["connect"]
    /\ route = "proxy" /\ item.scheme = "https" /\ (pc > 6 \/ (pc = 6 /\ running)) /\ Good > 0 =>
         Counter(1, "connect") < Counter(4, "connect")

\* A request that has ended well by way of the proxy was read by it in the
\* measured load.
Seen ==
  InProxyCase /\ route = "proxy" /\ item.scheme = "http" /\ (pc > 6 \/ (pc = 6 /\ running)) =>
    Counter(2, "http") + Good <= Counter(3, "http")

Window == Snapshots /\ Growing /\ Charged /\ Tunnelled /\ Seen

Inv == TypeOK /\ Flow /\ Kept /\ Environment /\ Creation /\ Bodies /\ Window

\* The constants have the types the proofs need.
LEMMA ConstantFact ==
  /\ Suites \subseteq SuiteNames /\ Requests \in Nat \ {0} /\ Concurrency \in Nat \ {0}
  /\ Size \in Nat \ {0} /\ Length \in Nat /\ Warmup \in Nat /\ MaxLate \in Nat /\ MaxRaises \in Nat
  /\ \A lines \in LineStarts : lines \subseteq 0 .. Size - 1
  BY SuiteAssumption DEF SuiteAssumption, SuiteNames

(***************************************************************************)
(* Where in its program a case is.                                          *)
(***************************************************************************)
\* The steps of the programs, by their numbers.
LEMMA StreamingSteps ==
  ASSUME suite = "streaming"
  PROVE  /\ Len(Program) = 6
         /\ Program[1] = "create"
         /\ Program[2] = "warmup"
         /\ Program[3] = "measure"
         /\ Program[4] = "stats"
         /\ Program[5] = "close"
         /\ Program[6] = "report"
  BY DEF Program, StreamingCase

\* The steps of a case with one upstream.
LEMMA OneUpstreamSteps ==
  ASSUME suite = "one-upstream"
  PROVE  /\ Len(Program) = 7
         /\ Program[1] = "create"
         /\ Program[2] = "warmup"
         /\ Program[3] = "measure"
         /\ Program[4] = "stats"
         /\ Program[5] = "close"
         /\ Program[6] = "report"
         /\ Program[7] = "settle"
  BY DEF Program, OneUpstreamCase, StreamingCase

\* The steps of a resource case.
LEMMA ResourceSteps ==
  ASSUME suite = "resource"
  PROVE  /\ Len(Program) = 7
         /\ Program[1] = "create"
         /\ Program[2] = "warmup"
         /\ Program[3] = "measure"
         /\ Program[4] = "stats"
         /\ Program[5] = "recover"
         /\ Program[6] = "close"
         /\ Program[7] = "report"
  BY DEF Program, ResourceCase

\* The steps of a request builder case.
LEMMA BuilderSteps ==
  ASSUME suite = "builder"
  PROVE  /\ Len(Program) = 5
         /\ Program[1] = "create"
         /\ Program[2] = "warmup"
         /\ Program[3] = "measure"
         /\ Program[4] = "close"
         /\ Program[5] = "report"
  BY DEF Program, BuilderCase

\* The steps of a client creation case.
LEMMA CreationSteps ==
  ASSUME suite = "creation"
  PROVE  /\ Len(Program) = 2
         /\ Program[1] = "operation"
         /\ Program[2] = "report"
  BY DEF Program, CreationCase

\* The steps of a proxy case.
LEMMA ProxySteps ==
  ASSUME suite = "proxy"
  PROVE  /\ Len(Program) = 12
         /\ Program[1] = "environment"
         /\ Program[2] = "create"
         /\ Program[3] = "start"
         /\ Program[4] = "warmup"
         /\ Program[5] = "measured-start"
         /\ Program[6] = "measure"
         /\ Program[7] = "measured-end"
         /\ Program[8] = "stats"
         /\ Program[9] = "close"
         /\ Program[10] = "total-end"
         /\ Program[11] = "restore"
         /\ Program[12] = "report"
  BY DEF Program, ProxyCase

\* The step a case of the streaming suite is at.
LEMMA StreamingPlaces ==
  ASSUME suite = "streaming", pc \in Nat
  PROVE  /\ Len(Program) = 6 /\ End = 7
         /\ Loads = {2, 3}
         /\ At("environment") <=> FALSE
         /\ At("create") <=> pc = 1
         /\ At("start") <=> FALSE
         /\ At("warmup") <=> pc = 2
         /\ At("measured-start") <=> FALSE
         /\ At("measure") <=> pc = 3
         /\ At("measured-end") <=> FALSE
         /\ At("operation") <=> FALSE
         /\ At("stats") <=> pc = 4
         /\ At("recover") <=> FALSE
         /\ At("close") <=> pc = 5
         /\ At("total-end") <=> FALSE
         /\ At("settle") <=> FALSE
         /\ At("restore") <=> FALSE
         /\ At("report") <=> pc = 6
<1>1. Len(Program) = 6
  BY StreamingSteps
<1>2. pc \in 1 .. Len(Program) <=> pc = 1 \/ pc = 2 \/ pc = 3 \/ pc = 4 \/ pc = 5 \/ pc = 6
  BY <1>1
<1> QED
  BY <1>1, <1>2, StreamingSteps DEF At, End, Loads

\* The step a case of the one-upstream suite is at.
LEMMA OneUpstreamPlaces ==
  ASSUME suite = "one-upstream", pc \in Nat
  PROVE  /\ Len(Program) = 7 /\ End = 8
         /\ Loads = {2, 3}
         /\ At("environment") <=> FALSE
         /\ At("create") <=> pc = 1
         /\ At("start") <=> FALSE
         /\ At("warmup") <=> pc = 2
         /\ At("measured-start") <=> FALSE
         /\ At("measure") <=> pc = 3
         /\ At("measured-end") <=> FALSE
         /\ At("operation") <=> FALSE
         /\ At("stats") <=> pc = 4
         /\ At("recover") <=> FALSE
         /\ At("close") <=> pc = 5
         /\ At("total-end") <=> FALSE
         /\ At("settle") <=> pc = 7
         /\ At("restore") <=> FALSE
         /\ At("report") <=> pc = 6
<1>1. Len(Program) = 7
  BY OneUpstreamSteps
<1>2. pc \in 1 .. Len(Program) <=> pc = 1 \/ pc = 2 \/ pc = 3 \/ pc = 4 \/ pc = 5 \/ pc = 6 \/ pc = 7
  BY <1>1
<1> QED
  BY <1>1, <1>2, OneUpstreamSteps DEF At, End, Loads

\* The step a case of the resource suite is at.
LEMMA ResourcePlaces ==
  ASSUME suite = "resource", pc \in Nat
  PROVE  /\ Len(Program) = 7 /\ End = 8
         /\ Loads = {2, 3}
         /\ At("environment") <=> FALSE
         /\ At("create") <=> pc = 1
         /\ At("start") <=> FALSE
         /\ At("warmup") <=> pc = 2
         /\ At("measured-start") <=> FALSE
         /\ At("measure") <=> pc = 3
         /\ At("measured-end") <=> FALSE
         /\ At("operation") <=> FALSE
         /\ At("stats") <=> pc = 4
         /\ At("recover") <=> pc = 5
         /\ At("close") <=> pc = 6
         /\ At("total-end") <=> FALSE
         /\ At("settle") <=> FALSE
         /\ At("restore") <=> FALSE
         /\ At("report") <=> pc = 7
<1>1. Len(Program) = 7
  BY ResourceSteps
<1>2. pc \in 1 .. Len(Program) <=> pc = 1 \/ pc = 2 \/ pc = 3 \/ pc = 4 \/ pc = 5 \/ pc = 6 \/ pc = 7
  BY <1>1
<1> QED
  BY <1>1, <1>2, ResourceSteps DEF At, End, Loads

\* The step a case of the builder suite is at.
LEMMA BuilderPlaces ==
  ASSUME suite = "builder", pc \in Nat
  PROVE  /\ Len(Program) = 5 /\ End = 6
         /\ Loads = {2, 3}
         /\ At("environment") <=> FALSE
         /\ At("create") <=> pc = 1
         /\ At("start") <=> FALSE
         /\ At("warmup") <=> pc = 2
         /\ At("measured-start") <=> FALSE
         /\ At("measure") <=> pc = 3
         /\ At("measured-end") <=> FALSE
         /\ At("operation") <=> FALSE
         /\ At("stats") <=> FALSE
         /\ At("recover") <=> FALSE
         /\ At("close") <=> pc = 4
         /\ At("total-end") <=> FALSE
         /\ At("settle") <=> FALSE
         /\ At("restore") <=> FALSE
         /\ At("report") <=> pc = 5
<1>1. Len(Program) = 5
  BY BuilderSteps
<1>2. pc \in 1 .. Len(Program) <=> pc = 1 \/ pc = 2 \/ pc = 3 \/ pc = 4 \/ pc = 5
  BY <1>1
<1> QED
  BY <1>1, <1>2, BuilderSteps DEF At, End, Loads

\* The step a case of the creation suite is at.
LEMMA CreationPlaces ==
  ASSUME suite = "creation", pc \in Nat
  PROVE  /\ Len(Program) = 2 /\ End = 3
         /\ Loads = {1}
         /\ At("environment") <=> FALSE
         /\ At("create") <=> FALSE
         /\ At("start") <=> FALSE
         /\ At("warmup") <=> FALSE
         /\ At("measured-start") <=> FALSE
         /\ At("measure") <=> FALSE
         /\ At("measured-end") <=> FALSE
         /\ At("operation") <=> pc = 1
         /\ At("stats") <=> FALSE
         /\ At("recover") <=> FALSE
         /\ At("close") <=> FALSE
         /\ At("total-end") <=> FALSE
         /\ At("settle") <=> FALSE
         /\ At("restore") <=> FALSE
         /\ At("report") <=> pc = 2
<1>1. Len(Program) = 2
  BY CreationSteps
<1>2. pc \in 1 .. Len(Program) <=> pc = 1 \/ pc = 2
  BY <1>1
<1> QED
  BY <1>1, <1>2, CreationSteps DEF At, End, Loads

\* The step a case of the proxy suite is at.
LEMMA ProxyPlaces ==
  ASSUME suite = "proxy", pc \in Nat
  PROVE  /\ Len(Program) = 12 /\ End = 13
         /\ Loads = {4, 6}
         /\ At("environment") <=> pc = 1
         /\ At("create") <=> pc = 2
         /\ At("start") <=> pc = 3
         /\ At("warmup") <=> pc = 4
         /\ At("measured-start") <=> pc = 5
         /\ At("measure") <=> pc = 6
         /\ At("measured-end") <=> pc = 7
         /\ At("operation") <=> FALSE
         /\ At("stats") <=> pc = 8
         /\ At("recover") <=> FALSE
         /\ At("close") <=> pc = 9
         /\ At("total-end") <=> pc = 10
         /\ At("settle") <=> FALSE
         /\ At("restore") <=> pc = 11
         /\ At("report") <=> pc = 12
<1>1. Len(Program) = 12
  BY ProxySteps
<1>2. pc \in 1 .. Len(Program) <=>
        pc = 1 \/ pc = 2 \/ pc = 3 \/ pc = 4 \/ pc = 5 \/ pc = 6 \/ pc = 7 \/ pc = 8 \/ pc = 9
        \/ pc = 10 \/ pc = 11 \/ pc = 12
  BY <1>1
<1> QED
  BY <1>1, <1>2, ProxySteps DEF At, End, Loads

(***************************************************************************)
(* Every part is preserved by every step.                                   *)
(***************************************************************************)
USE DEF loadVars, proxyVars, resultVars, planVars, Goes, Stays, Onward

\* A step is one of the actions, or a stutter.
LEMMA StepCases ==
  ASSUME [Next]_vars
  PROVE  \/ LeaveOut
         \/ CreateClient
         \/ CloseClient
         \/ OtherStep
         \/ RecoveryCheck
         \/ BeginLoad
         \/ TakeRequest
         \/ EndLoad
         \/ OneUpstreamRequest
         \/ ResourceRequest
         \/ BuilderIteration
         \/ StreamRequest
         \/ ProxyRequest
         \/ MakeClient
         \/ UseClient
         \/ CloseClients
         \/ SetEnvironment
         \/ RestoreEnvironment
         \/ Snapshot
         \/ ReadLate
         \/ Report
         \/ NextCase
         \/ UNCHANGED vars
  BY DEF Next, vars

\* The suite of a behaviour is always the same.
LEMMA SameSuite ==
  ASSUME [Next]_vars
  PROVE  /\ suite' = suite /\ End' = End /\ Loads' = Loads /\ Cases' = Cases /\ Program' = Program
<1>1. suite' = suite
  BY DEF Next, vars, LeaveOut, CreateClient, CloseClient, OtherStep, RecoveryCheck,
     BeginLoad, TakeRequest, EndLoad, OneUpstreamRequest, ResourceRequest,
     BuilderIteration, StreamRequest, ProxyRequest, MakeClient, UseClient, CloseClients,
     SetEnvironment, RestoreEnvironment, Snapshot, ReadLate, Report, NextCase
<1> QED
  BY <1>1 DEF End, Loads, Cases, Program

\* Counters that are counted up or down by one.
LEMMA CounterFact ==
  ASSUME NEW c \in Counters, NEW k \in Kinds
  PROVE  /\ [c EXCEPT ![k] = @ + 1] \in Counters
         /\ [c EXCEPT ![k] = @ + 1][k] = c[k] + 1
         /\ c[k] > 0 => [c EXCEPT ![k] = @ - 1] \in Counters
         /\ \A j \in Kinds : j # k => [c EXCEPT ![k] = @ + 1][j] = c[j]
         /\ c[k] \in Nat
<1>1. CASE k = "http"
  BY <1>1 DEF Counters, Kinds
<1>2. CASE k = "connect"
  BY <1>2 DEF Counters, Kinds
<1> QED
  BY <1>1, <1>2 DEF Kinds

\* The lines of a body are finitely many, and when as many have begun as there
\* are, all have.
LEMMA LinesFact ==
  ASSUME TypeOK, suite = "streaming", NEW arrived \in 0 .. Size
  PROVE  /\ item.read \in {"bytes", "text", "lines"}
         /\ Cardinality(LinesBegun(arrived)) \in Nat
         /\ Cardinality(LinesBegun(arrived)) = Cardinality(item.lines) => LinesBegun(arrived) = item.lines
<1>1. item \in Streaming
  BY DEF TypeOK, PlanType, Cases
<1>2. item.read \in {"bytes", "text", "lines"} /\ (item.lines = {} \/ item.lines \in LineStarts)
  BY <1>1 DEF Streaming
<1>3. Size - 1 \in Int /\ item.lines \subseteq 0 .. Size - 1
  BY <1>2, ConstantFact
<1>4. IsFiniteSet(item.lines)
  <2>1. IsFiniteSet(0 .. Size - 1)
    BY <1>3, FS_Interval
  <2> QED
    BY <1>3, <2>1, FS_Subset
<1>5. LinesBegun(arrived) \subseteq item.lines
  BY DEF LinesBegun
<1>6. IsFiniteSet(LinesBegun(arrived))
  BY <1>4, <1>5, FS_Subset
<1>7. Cardinality(LinesBegun(arrived)) = Cardinality(item.lines) => LinesBegun(arrived) = item.lines
  BY <1>4, <1>5, FS_Subset
<1> QED
  BY <1>2, <1>6, <1>7, FS_CardinalityType

\* What is consumed of a body, and the bytes reported of it.
LEMMA ConsumedFact ==
  ASSUME TypeOK, suite = "streaming", NEW arrived \in 0 .. Size
  PROVE  Consumed(arrived) \in Nat /\ BytesRead(Consumed(arrived)) \in Nat
<1>1. Consumed(arrived) \in Nat
  BY LinesFact, ConstantFact DEF Consumed
<1> QED
  BY <1>1, ConstantFact DEF BytesRead

\* A request of a proxy case is one of a scheme.
LEMMA KindFact == Kind \in Kinds /\ (Kind = "http" <=> item.scheme = "http")
  BY DEF Kind, Kinds

\* Only creation cases have an operation, and they are at it while they run.
LEMMA OperationFact ==
  ASSUME TypeOK, At("operation")
  PROVE  suite = "creation" /\ pc = 1
<1>1. suite \in SuiteNames /\ pc \in Nat
  BY DEF TypeOK, PlanType, StepType
<1> QED
  BY <1>1, StreamingPlaces, OneUpstreamPlaces, ResourcePlaces,  BuilderPlaces,
     CreationPlaces, ProxyPlaces DEF SuiteNames

\* A step has a number below the end; loads are at the numbers of Loads.
LEMMA NumberFact ==
  ASSUME TypeOK
  PROVE  /\ End = Len(Program) + 1 /\ End \in {3, 6, 7, 8, 13}
         /\ pc \in Nat /\ (pc \in 1 .. Len(Program) => pc >= 1 /\ pc < End)
         /\ pc \in Loads <=> At("warmup") \/ At("measure") \/ At("operation")
         /\ pc \in Loads => pc \in 1 .. 6 /\ pc < End
         /\ suite = "one-upstream" => End = 8
<1>1. suite \in SuiteNames /\ pc \in Nat
  BY DEF TypeOK, PlanType, StepType
<1>2. CASE suite = "streaming"
  <2>1. Len(Program) = 6 /\ End = 7
    BY <1>1, <1>2, StreamingPlaces
  <2>2. Loads = {2, 3}
    BY <1>1, <1>2, StreamingPlaces
  <2>3. pc = 2 \/ pc = 3 <=> At("warmup") \/ At("measure") \/ At("operation")
    BY <1>1, <1>2, StreamingPlaces
  <2> QED
    BY <1>1, <1>2, <2>1, <2>2, <2>3
<1>3. CASE suite = "one-upstream"
  <2>1. Len(Program) = 7 /\ End = 8
    BY <1>1, <1>3, OneUpstreamPlaces
  <2>2. Loads = {2, 3}
    BY <1>1, <1>3, OneUpstreamPlaces
  <2>3. pc = 2 \/ pc = 3 <=> At("warmup") \/ At("measure") \/ At("operation")
    BY <1>1, <1>3, OneUpstreamPlaces
  <2> QED
    BY <1>1, <1>3, <2>1, <2>2, <2>3
<1>4. CASE suite = "resource"
  <2>1. Len(Program) = 7 /\ End = 8
    BY <1>1, <1>4, ResourcePlaces
  <2>2. Loads = {2, 3}
    BY <1>1, <1>4, ResourcePlaces
  <2>3. pc = 2 \/ pc = 3 <=> At("warmup") \/ At("measure") \/ At("operation")
    BY <1>1, <1>4, ResourcePlaces
  <2> QED
    BY <1>1, <1>4, <2>1, <2>2, <2>3
<1>5. CASE suite = "builder"
  <2>1. Len(Program) = 5 /\ End = 6
    BY <1>1, <1>5, BuilderPlaces
  <2>2. Loads = {2, 3}
    BY <1>1, <1>5, BuilderPlaces
  <2>3. pc = 2 \/ pc = 3 <=> At("warmup") \/ At("measure") \/ At("operation")
    BY <1>1, <1>5, BuilderPlaces
  <2> QED
    BY <1>1, <1>5, <2>1, <2>2, <2>3
<1>6. CASE suite = "creation"
  <2>1. Len(Program) = 2 /\ End = 3
    BY <1>1, <1>6, CreationPlaces
  <2>2. Loads = {1}
    BY <1>1, <1>6, CreationPlaces
  <2>3. pc = 1 <=> At("warmup") \/ At("measure") \/ At("operation")
    BY <1>1, <1>6, CreationPlaces
  <2> QED
    BY <1>1, <1>6, <2>1, <2>2, <2>3
<1>7. CASE suite = "proxy"
  <2>1. Len(Program) = 12 /\ End = 13
    BY <1>1, <1>7, ProxyPlaces
  <2>2. Loads = {4, 6}
    BY <1>1, <1>7, ProxyPlaces
  <2>3. pc = 4 \/ pc = 6 <=> At("warmup") \/ At("measure") \/ At("operation")
    BY <1>1, <1>7, ProxyPlaces
  <2> QED
    BY <1>1, <1>7, <2>1, <2>2, <2>3
<1> QED
  BY <1>1, <1>2, <1>3, <1>4, <1>5, <1>6, <1>7 DEF SuiteNames

\* Outside of a load nothing is running.
LEMMA StepFact ==
  ASSUME TypeOK, NEW s, At(s)
  PROVE  /\ pc >= 1 /\ pc < End
         /\ s \notin {"warmup", "measure", "operation"} => pc \notin Loads
<1>1. pc \in 1 .. Len(Program) /\ Program[pc] = s
  BY DEF At
<1>2. s \notin {"warmup", "measure", "operation"} => ~(At("warmup") \/ At("measure") \/ At("operation"))
  BY <1>1 DEF At
<1> QED
  BY <1>1, <1>2, NumberFact

\* A step that is done, or left out, is followed by the next one.
LEMMA AdvanceFact ==
  ASSUME TypeOK, Flow, pc \in 1 .. Len(Program), pc' = pc + 1, ~running, suite' = suite,
         End' = End, Loads' = Loads, UNCHANGED <<running, left, busy, stage>>,
         suite = "creation" => ~raised' /\ open' \in Nat,
         result' # Unreported /\ result' # result =>
           IF suite = "one-upstream" THEN pc' \in {7, 8} ELSE pc' = End /\ ~raised'
  PROVE  Flow'
<1>1. pc \in Nat /\ pc >= 1 /\ pc < End /\ End \in Nat /\ (suite = "one-upstream" => End = 8)
  BY NumberFact
<1>2. pc' <= End' /\ pc' # 1
  BY <1>1
<1>3. ~running' /\ left' = 0 /\ busy' = 0 /\ stage' = "make"
  BY DEF Flow
<1>4. suite' = "creation" => ~raised' /\ busy' <= open'
  BY <1>3
<1>5. result' # Unreported =>
        IF suite' = "one-upstream" THEN pc' \in {7, 8} ELSE pc' = End' /\ ~raised'
  BY <1>1 DEF Flow
<1> QED
  BY <1>2, <1>3, <1>4, <1>5 DEF Flow

\* Which steps a creation case has.
LEMMA NoCreation ==
  ASSUME TypeOK, suite = "creation"
  PROVE  /\ ~At("create") /\ ~At("close") /\ ~At("stats") /\ ~At("settle")
         /\ ~At("recover") /\ ~At("environment") /\ ~At("restore")
         /\ \A step \in SnapshotSteps : ~At(step)
  BY CreationPlaces DEF TypeOK, StepType, SnapshotSteps

\* A result is what the counts and the snapshots of its case make of it.
LEMMA ResultFact ==
  ASSUME suite' = suite, UNCHANGED <<item, tally, snapshots>>
  PROVE  Result' = Result
<1>1. ProxyUsageError' = ProxyUsageError
  BY DEF ProxyUsageError, ProxyDelta, SeenAt, UsesProxy
<1> QED
  BY <1>1 DEF Result

\* There is no result yet while a case has steps before its report.
LEMMA UnreportedFact ==
  ASSUME TypeOK, Flow, pc \in Loads \/ (suite = "proxy" /\ pc \in 1 .. Len(Program))
  PROVE  result = Unreported
<1>1. pc \in Nat /\ End \in Nat /\ pc < End
  BY NumberFact
<1>2. suite = "one-upstream" => pc < 7
  BY NumberFact
<1> QED
  BY <1>1, <1>2 DEF Flow

\* Which steps only a proxy case has.
LEMMA OnlyProxy ==
  ASSUME TypeOK
  PROVE  At("environment") \/ At("restore") \/ (\E step \in SnapshotSteps : At(step)) => suite = "proxy"
<1>1. suite \in SuiteNames /\ pc \in Nat
  BY DEF TypeOK, PlanType, StepType
<1> QED
  BY <1>1, StreamingPlaces, OneUpstreamPlaces, ResourcePlaces, BuilderPlaces,
     CreationPlaces DEF SuiteNames, SnapshotSteps

\* The four operations.
LEMMA KindsOfOperations ==
  ASSUME TypeOK, suite = "creation"
  PROVE  item.kind \in {"create-close", "create-first-request", "reused-request", "many-clients"}
  BY DEF TypeOK, PlanType, Cases

\* Whatever an operation is judged by is unchanged.
LEMMA SameOperation ==
  ASSUME UNCHANGED <<suite, item, open, running, tally, busy, left, stage>>
  PROVE  Operation' = Operation /\ OperationErrorLimit' = OperationErrorLimit
  BY DEF Operation, OperationErrorLimit

\* A streaming case that reads all is matched by bodies of the size it expects
\* only, and by those that came as far as it can tell.
LEMMA MatchFact ==
  ASSUME TypeOK, suite = "streaming", NEW arrived \in 0 .. Size, NEW intact \in BOOLEAN,
         OutcomeMatches(Consumed(arrived), intact), item.consume = "all"
  PROVE  /\ BytesRead(Consumed(arrived)) = Size
         /\ item.read = "bytes" => arrived = Size /\ intact
         /\ item.read = "text" => arrived = Size
         /\ item.read = "lines" => LinesBegun(arrived) = item.lines
<1>1. CASE item.read = "lines"
  <2>1. Consumed(arrived) = Cardinality(LinesBegun(arrived))
    BY <1>1 DEF Consumed
  <2> QED
    BY <1>1, <2>1, LinesFact DEF OutcomeMatches, LineOutcomeMatches
<1>2. CASE item.read # "lines"
  <2>1. Consumed(arrived) = arrived
    BY <1>2 DEF Consumed
  <2> QED
    BY <1>2, <2>1 DEF OutcomeMatches, BytesRead
<1> QED
  BY <1>1, <1>2

\* One stream more is as many bytes more as it has.
LEMMA SizeFact == Size * 0 = 0 /\ \A g \in Int : Size * (g + 1) = Size * g + Size
<1>1. Size \in Int
  BY ConstantFact
<1> QED
  BY <1>1

\* The requests that have ended well are a number.
LEMMA GoodFact ==
  ASSUME TypeOK
  PROVE  /\ Good \in Int /\ left \in Nat /\ busy \in Nat /\ tally.errors \in Nat
         /\ TallyType
         /\ Requests \in Nat \ {0}
  BY ConstantFact DEF TypeOK, LoadType, TallyType, Good

\* They are counted from what a load has left and what it has counted.
LEMMA SameGood ==
  ASSUME UNCHANGED <<left, busy, tally>>
  PROVE  Good' = Good
  BY DEF Good

\* Snapshots and counters that are unchanged compare as they did.
LEMMA SameCounter ==
  ASSUME UNCHANGED <<snapshots, seen>>
  PROVE  \A i \in 1 .. 4, k \in Kinds : Counter(i, k)' = Counter(i, k)
  BY DEF Counter

\* A counter is a number, and a snapshot of it as well.
LEMMA CounterNat ==
  ASSUME TypeOK
  PROVE  /\ \A i \in 1 .. 4, k \in Kinds : Counter(i, k) \in Nat
         /\ \A k \in Kinds : seen[k] \in Nat /\ charged[k] \in Nat
         /\ "http" \in Kinds /\ "connect" \in Kinds
         /\ 1 \in 1 .. 4 /\ 2 \in 1 .. 4 /\ 3 \in 1 .. 4 /\ 4 \in 1 .. 4
         /\ Len(snapshots) \in Nat
<1>1. ASSUME NEW c \in Counters, NEW k \in Kinds PROVE c[k] \in Nat
  BY <1>1, CounterFact
<1>2. ASSUME NEW i \in 1 .. 4, i <= Len(snapshots) PROVE snapshots[i].seen \in Counters
  <2> DEFINE S == [at : SnapshotSteps, seen : Counters]
  <2>1. snapshots \in Seq(S)
    BY DEF TypeOK, SnapshotType
  <2> HIDE DEF S
  <2>2. i \in 1 .. Len(snapshots)
    BY <1>2, <2>1
  <2>3. snapshots[i] \in S
    BY <2>1, <2>2
  <2> QED
    BY <2>3 DEF S
<1>3. seen \in Counters /\ charged \in Counters
  BY DEF TypeOK, CounterType
<1>4. ASSUME NEW i \in 1 .. 4, NEW k \in Kinds PROVE Counter(i, k) \in Nat
  <2>1. CASE Len(snapshots) >= i
    <3>1. snapshots[i].seen \in Counters
      BY <1>2, <2>1
    <3> QED
      BY <1>1, <2>1, <3>1 DEF Counter
  <2>2. CASE ~(Len(snapshots) >= i)
    BY <1>1, <1>3, <2>2 DEF Counter
  <2> QED
    BY <2>1, <2>2
<1>5. Len(snapshots) \in Nat
  BY DEF TypeOK, SnapshotType
<1>6. "http" \in Kinds /\ "connect" \in Kinds
  BY DEF Kinds
<1> QED
  BY <1>1, <1>3, <1>4, <1>5, <1>6

\* A snapshot that is taken now is of the counters as they are.
LEMMA TakenCounter ==
  ASSUME TypeOK, NEW step \in SnapshotSteps, UNCHANGED seen,
         snapshots' = Append(snapshots, [at |-> step, seen |-> seen])
  PROVE  \A i \in 1 .. 4, k \in Kinds : Counter(i, k)' = Counter(i, k)
<1> DEFINE new == [at |-> step, seen |-> seen]
<1>1. new \in [at : SnapshotSteps, seen : Counters] /\ new.seen = seen
  BY DEF TypeOK, CounterType
<1>2. snapshots \in Seq([at : SnapshotSteps, seen : Counters])
  BY DEF TypeOK, SnapshotType
<1> HIDE DEF new
<1>3. /\ Len(snapshots') = Len(snapshots) + 1 /\ Len(snapshots) \in Nat
      /\ snapshots'[Len(snapshots) + 1] = new
      /\ \A i \in 1 .. Len(snapshots) : snapshots'[i] = snapshots[i]
  BY <1>1, <1>2 DEF new
<1> SUFFICES ASSUME NEW i \in 1 .. 4, NEW k \in Kinds PROVE Counter(i, k)' = Counter(i, k)
  OBVIOUS
<1>4. CASE i <= Len(snapshots)
  BY <1>3, <1>4 DEF Counter
<1>5. CASE i = Len(snapshots) + 1
  BY <1>1, <1>3, <1>5 DEF Counter
<1>6. CASE i > Len(snapshots) + 1
  BY <1>3, <1>6 DEF Counter
<1> QED
  BY <1>3, <1>4, <1>5, <1>6

\* The proxy reads a request: what is not in a snapshot yet is one more.
LEMMA ReadCounter ==
  ASSUME TypeOK, NEW j \in Kinds, UNCHANGED snapshots, seen' = [seen EXCEPT ![j] = @ + 1]
  PROVE  /\ \A i \in 1 .. 4 : Counter(i, j)' = IF Len(snapshots) < i THEN Counter(i, j) + 1 ELSE Counter(i, j)
         /\ \A i \in 1 .. 4, k \in Kinds : k # j => Counter(i, k)' = Counter(i, k)
         /\ seen'[j] = seen[j] + 1
         /\ \A k \in Kinds : k # j => seen'[k] = seen[k]
<1>1. seen'[j] = seen[j] + 1 /\ \A k \in Kinds : k # j => seen'[k] = seen[k]
  BY CounterFact DEF TypeOK, CounterType
<1>2. Len(snapshots) \in Nat
  BY CounterNat
<1>3. ASSUME NEW i \in 1 .. 4
      PROVE  Counter(i, j)' = IF Len(snapshots) < i THEN Counter(i, j) + 1 ELSE Counter(i, j)
  BY <1>1, <1>2 DEF Counter
<1>4. ASSUME NEW i \in 1 .. 4, NEW k \in Kinds, k # j PROVE Counter(i, k)' = Counter(i, k)
  BY <1>1, <1>2, <1>4 DEF Counter
<1> QED
  BY <1>1, <1>3, <1>4

\* What has been read stays in the order of the snapshots.
LEMMA ReadGrowing ==
  ASSUME TypeOK, Growing, InProxyCase, NEW j \in Kinds, UNCHANGED snapshots,
         seen' = [seen EXCEPT ![j] = @ + 1]
  PROVE  Growing'
<1> SUFFICES ASSUME NEW k \in Kinds
             PROVE  (/\ Counter(1, k) <= Counter(2, k) /\ Counter(2, k) <= Counter(3, k)
                     /\ Counter(3, k) <= Counter(4, k))'
  BY DEF Growing
<1>1. /\ Counter(1, k) <= Counter(2, k) /\ Counter(2, k) <= Counter(3, k)
      /\ Counter(3, k) <= Counter(4, k)
  BY DEF Growing
<1>2. 1 \in 1 .. 4 /\ 2 \in 1 .. 4 /\ 3 \in 1 .. 4 /\ 4 \in 1 .. 4
  OBVIOUS
<1>3. PICK n \in Nat : n = Len(snapshots)
  BY CounterNat
<1>4. CASE k = j
  <2>1. /\ Counter(1, k)' = IF n < 1 THEN Counter(1, k) + 1 ELSE Counter(1, k)
        /\ Counter(2, k)' = IF n < 2 THEN Counter(2, k) + 1 ELSE Counter(2, k)
        /\ Counter(3, k)' = IF n < 3 THEN Counter(3, k) + 1 ELSE Counter(3, k)
        /\ Counter(4, k)' = IF n < 4 THEN Counter(4, k) + 1 ELSE Counter(4, k)
    BY <1>2, <1>3, <1>4, ReadCounter
  <2>2. Counter(1, k) \in Nat /\ Counter(2, k) \in Nat /\ Counter(3, k) \in Nat /\ Counter(4, k) \in Nat
    BY <1>2, CounterNat
  <2>3. CASE n = 0
    BY <1>1, <2>1, <2>2, <2>3
  <2>4. CASE n = 1
    BY <1>1, <2>1, <2>2, <2>4
  <2>5. CASE n = 2
    BY <1>1, <2>1, <2>2, <2>5
  <2>6. CASE n = 3
    BY <1>1, <2>1, <2>2, <2>6
  <2>7. CASE n >= 4
    BY <1>1, <2>1, <2>2, <2>7
  <2> QED
    BY <2>3, <2>4, <2>5, <2>6, <2>7
<1>5. CASE k # j
  <2>1. \A i \in 1 .. 4 : Counter(i, k)' = Counter(i, k)
    BY <1>5, ReadCounter
  <2> QED
    BY <1>1, <1>2, <2>1
<1> QED
  BY <1>4, <1>5

\* A step that reads nothing, and ends no request but in error, keeps the account.
LEMMA QuietStep ==
  ASSUME TypeOK, Flow, Window, suite' = suite, Good' = Good,
         UNCHANGED <<item, route, seen, charged, snapshots>>, tunnel' => tunnel,
         InProxyCase' => /\ InProxyCase
                         /\ \/ pc' = pc /\ running' = running
                            \/ /\ pc' = pc + 1 /\ pc \notin {3, 5, 7, 10} /\ ~running'
                               /\ (pc = 6 => running) /\ (pc = 9 => ~tunnel')
  PROVE  Window'
<1> SUFFICES ASSUME InProxyCase', InProxyCase PROVE Window'
  BY DEF Window, Snapshots, Growing, Charged, Tunnelled, Seen
<1>1. pc \in Nat /\ Taken(pc') = Taken(pc)
  BY DEF Taken, TypeOK, StepType
<1>2. Snapshots'
  BY <1>1 DEF Window, Snapshots, Taken
<1>3. Growing' /\ Charged'
  BY SameCounter DEF Window, Growing, Charged, Kinds
<1>4. pc' > 6 \/ (pc' = 6 /\ running') => pc > 6 \/ (pc = 6 /\ running)
  BY <1>1
<1>5. tunnel' /\ pc \in 4 .. 9 => pc' \in 4 .. 9
  BY <1>1
<1>6. Tunnelled'
  BY <1>4, <1>5, SameCounter DEF Window, Tunnelled, Kinds
<1>7. Seen'
  BY <1>4, SameCounter DEF Window, Seen, Kinds
<1> QED
  BY <1>2, <1>3, <1>6, <1>7 DEF Window

\* Every variable keeps its type.
LEMMA TypeOKStep == ASSUME TypeOK, Flow, Creation, [Next]_vars PROVE TypeOK'
<1>1. CASE LeaveOut
  BY <1>1, SameSuite, ConstantFact DEF TypeOK, PlanType, StepType, FlagType, LoadType,
     TallyType, CounterType, SnapshotType, LeaveOut
<1>2. CASE CreateClient
  <2>1. PlanType' /\ CounterType' /\ SnapshotType'
    BY <1>2, SameSuite, ConstantFact DEF TypeOK, PlanType, CounterType, SnapshotType,
       CreateClient, Doing, Raise
  <2>2. StepType'
    BY <1>2, SameSuite, ConstantFact DEF TypeOK, StepType, CreateClient, Doing, Raise
  <2>3. FlagType'
    BY <1>2, SameSuite, ConstantFact DEF TypeOK, FlagType, CreateClient, Doing, Raise
  <2>4. LoadType' /\ TallyType'
    BY <1>2, SameSuite, ConstantFact DEF TypeOK, LoadType, TallyType, CreateClient,
       Doing, Raise
  <2> QED
    BY <2>1, <2>2, <2>3, <2>4 DEF TypeOK
<1>3. CASE CloseClient
  <2>1. PlanType' /\ CounterType' /\ SnapshotType'
    BY <1>3, SameSuite, ConstantFact DEF TypeOK, PlanType, CounterType, SnapshotType,
       CloseClient, Doing, Raise
  <2>2. StepType'
    BY <1>3, SameSuite, ConstantFact DEF TypeOK, StepType, CloseClient, Doing, Raise
  <2>3. FlagType'
    BY <1>3, SameSuite, ConstantFact DEF TypeOK, FlagType, CloseClient, Doing, Raise
  <2>4. LoadType' /\ TallyType'
    BY <1>3, SameSuite, ConstantFact DEF TypeOK, LoadType, TallyType, CloseClient,
       Doing, Raise
  <2> QED
    BY <2>1, <2>2, <2>3, <2>4 DEF TypeOK
<1>4. CASE OtherStep
  <2>1. PlanType' /\ CounterType' /\ SnapshotType'
    BY <1>4, SameSuite, ConstantFact DEF TypeOK, PlanType, CounterType, SnapshotType,
       OtherStep, Doing, Raise
  <2>2. StepType'
    BY <1>4, SameSuite, ConstantFact DEF TypeOK, StepType, OtherStep, Doing, Raise
  <2>3. FlagType'
    BY <1>4, SameSuite, ConstantFact DEF TypeOK, FlagType, OtherStep, Doing, Raise
  <2>4. LoadType' /\ TallyType'
    BY <1>4, SameSuite, ConstantFact DEF TypeOK, LoadType, TallyType, OtherStep, Doing,
       Raise
  <2> QED
    BY <2>1, <2>2, <2>3, <2>4 DEF TypeOK
<1>5. CASE RecoveryCheck
  BY <1>5, SameSuite, ConstantFact DEF TypeOK, PlanType, StepType, FlagType, LoadType,
     TallyType, CounterType, SnapshotType, RecoveryCheck, Doing
<1>6. CASE BeginLoad
  <2>1. PlanType' /\ CounterType' /\ SnapshotType'
    BY <1>6, SameSuite, ConstantFact DEF TypeOK, PlanType, CounterType, SnapshotType,
       BeginLoad, InLoad
  <2>2. StepType' /\ FlagType'
    BY <1>6, SameSuite, ConstantFact DEF TypeOK, StepType, FlagType, BeginLoad, InLoad
  <2>3. LoadType'
    BY <1>6, SameSuite, ConstantFact DEF TypeOK, LoadType, BeginLoad, InLoad
  <2>4. TallyType'
    BY <1>6 DEF TypeOK, TallyType, BeginLoad, NoTally
  <2> QED
    BY <2>1, <2>2, <2>3, <2>4 DEF TypeOK
<1>7. CASE TakeRequest
  BY <1>7, SameSuite, ConstantFact DEF TypeOK, PlanType, StepType, FlagType, LoadType,
     TallyType, CounterType, SnapshotType, TakeRequest
<1>8. CASE EndLoad
  <2>1. PlanType' /\ CounterType' /\ SnapshotType'
    BY <1>8, SameSuite, ConstantFact DEF TypeOK, PlanType, CounterType, SnapshotType,
       EndLoad, Raise
  <2>2. StepType'
    BY <1>8, SameSuite, ConstantFact DEF TypeOK, StepType, EndLoad, Raise
  <2>3. FlagType'
    BY <1>8, SameSuite, ConstantFact DEF TypeOK, FlagType, EndLoad, Raise
  <2>4. LoadType' /\ TallyType'
    BY <1>8, SameSuite, ConstantFact DEF TypeOK, LoadType, TallyType, EndLoad, Raise
  <2> QED
    BY <2>1, <2>2, <2>3, <2>4 DEF TypeOK
<1>9. CASE OneUpstreamRequest
  <2>1. PlanType' /\ CounterType' /\ SnapshotType'
    BY <1>9, SameSuite, ConstantFact DEF TypeOK, PlanType, CounterType, SnapshotType,
       OneUpstreamRequest, Counted
  <2>2. StepType' /\ FlagType'
    BY <1>9, SameSuite, ConstantFact DEF TypeOK, StepType, FlagType, OneUpstreamRequest,
       Counted
  <2>3. LoadType' /\ TallyType'
    BY <1>9, SameSuite, ConstantFact DEF TypeOK, LoadType, TallyType,
       OneUpstreamRequest, Counted
  <2> QED
    BY <2>1, <2>2, <2>3 DEF TypeOK
<1>10. CASE ResourceRequest
  <2>1. PlanType' /\ CounterType' /\ SnapshotType'
    BY <1>10, SameSuite, ConstantFact DEF TypeOK, PlanType, CounterType, SnapshotType,
       ResourceRequest, Counted
  <2>2. StepType' /\ FlagType'
    BY <1>10, SameSuite, ConstantFact DEF TypeOK, StepType, FlagType, ResourceRequest,
       Counted
  <2>3. LoadType' /\ TallyType'
    BY <1>10, SameSuite, ConstantFact DEF TypeOK, LoadType, TallyType, ResourceRequest,
       Counted
  <2> QED
    BY <2>1, <2>2, <2>3 DEF TypeOK
<1>11. CASE BuilderIteration
  <2>1. PlanType' /\ CounterType' /\ SnapshotType'
    BY <1>11, SameSuite, ConstantFact DEF TypeOK, PlanType, CounterType, SnapshotType,
       BuilderIteration, Counted
  <2>2. StepType' /\ FlagType'
    BY <1>11, SameSuite, ConstantFact DEF TypeOK, StepType, FlagType, BuilderIteration,
       Counted
  <2>3. LoadType' /\ TallyType'
    BY <1>11, SameSuite, ConstantFact DEF TypeOK, LoadType, TallyType, BuilderIteration,
       Counted
  <2> QED
    BY <2>1, <2>2, <2>3 DEF TypeOK
<1>12. CASE StreamRequest
  <2>1. PlanType' /\ CounterType' /\ SnapshotType'
    BY <1>12, SameSuite, ConstantFact DEF TypeOK, PlanType, CounterType, SnapshotType,
       StreamRequest, Counted
  <2>2. StepType' /\ FlagType'
    BY <1>12, SameSuite, ConstantFact DEF TypeOK, StepType, FlagType, StreamRequest,
       Counted
  <2>3. LoadType'
    <3>1. busy > 0 /\ busy' = busy - 1 /\ UNCHANGED <<left, stage>>
      BY <1>12 DEF StreamRequest, Counted
    <3> QED
      BY <3>1 DEF TypeOK, LoadType
  <2>4. TallyType'
    <3>1. CASE Counted(1)
      BY <3>1 DEF Counted, TypeOK, TallyType
    <3>2. ASSUME NEW arrived \in 0 .. Size, NEW intact \in BOOLEAN, CountOutcome(arrived, intact)
          PROVE  TallyType'
      <4> DEFINE v == IF OutcomeMatches(Consumed(arrived), intact) /\ item.consume = "all"
                      THEN BytesRead(Consumed(arrived)) ELSE 0
      <4>1. v \in Nat
        BY <1>12, ConsumedFact DEF StreamRequest
      <4>2. \E e, b, w, i \in {0, 1} :
              tally' = [tally EXCEPT !.errors = @ + e, !.verified = @ + v, !.begun = @ + b,
                                     !.whole = @ + w, !.intact = @ + i]
        BY <3>2 DEF CountOutcome
      <4> HIDE DEF v
      <4>3. PICK e, b, w, i \in {0, 1} :
              tally' = [tally EXCEPT !.errors = @ + e, !.verified = @ + v, !.begun = @ + b,
                                     !.whole = @ + w, !.intact = @ + i]
        BY <4>2
      <4>4. tally' = [errors |-> tally.errors + e, verified |-> tally.verified + v,
                      begun |-> tally.begun + b, whole |-> tally.whole + w,
                      intact |-> tally.intact + i]
        BY <4>3 DEF TypeOK, TallyType
      <4> QED
        BY <4>1, <4>4 DEF TypeOK, TallyType
    <3> QED
      BY <1>12, <3>1, <3>2 DEF StreamRequest
  <2> QED
    BY <2>1, <2>2, <2>3, <2>4 DEF TypeOK
<1>13. CASE ProxyRequest
  <2>1. PlanType' /\ SnapshotType'
    BY <1>13, SameSuite, ConstantFact DEF TypeOK, PlanType, SnapshotType, ProxyRequest,
       Counted, ReadByProxy, GivenUp, NotRead
  <2>2. CounterType'
    <3>1. CASE ReadByProxy
      BY <3>1, KindFact, CounterFact DEF ReadByProxy, TypeOK, CounterType
    <3>2. CASE GivenUp
      BY <3>2, KindFact, CounterFact DEF GivenUp, TypeOK, CounterType
    <3>3. CASE NotRead
      BY <3>3 DEF NotRead, TypeOK, CounterType
    <3> QED
      BY <1>13, <3>1, <3>2, <3>3 DEF ProxyRequest
  <2>3. StepType'
    BY <1>13, SameSuite, ConstantFact DEF TypeOK, StepType, ProxyRequest, Counted,
       ReadByProxy, GivenUp, NotRead
  <2>4. FlagType'
    <3>1. UNCHANGED <<raised, recovered, running>>
      BY <1>13 DEF ProxyRequest, ReadByProxy, GivenUp, NotRead, Counted
    <3>2. tunnel' \in BOOLEAN
      <4>1. tunnel' = tunnel \/ \E ok \in BOOLEAN : tunnel' = ReusableTunnel(ok)
        BY <1>13 DEF ProxyRequest, ReadByProxy, GivenUp, NotRead
      <4> QED
        BY <4>1 DEF ReusableTunnel, TypeOK, FlagType
    <3> QED
      BY <3>1, <3>2 DEF TypeOK, FlagType
  <2>5. LoadType' /\ TallyType'
    BY <1>13, SameSuite, ConstantFact DEF TypeOK, LoadType, TallyType, ProxyRequest,
       Counted, ReadByProxy, GivenUp, NotRead
  <2> QED
    BY <2>1, <2>2, <2>3, <2>4, <2>5 DEF TypeOK
<1>14. CASE MakeClient
  <2>1. PlanType' /\ CounterType' /\ SnapshotType'
    BY <1>14, SameSuite, ConstantFact DEF TypeOK, PlanType, CounterType, SnapshotType,
       MakeClient, Operating, Error, Iterated
  <2>2. StepType' /\ FlagType'
    BY <1>14, SameSuite, ConstantFact DEF TypeOK, StepType, FlagType, MakeClient,
       Operating, Error, Iterated
  <2>3. LoadType' /\ TallyType'
    BY <1>14, SameSuite, ConstantFact DEF TypeOK, LoadType, TallyType, MakeClient,
       Operating, Error, Iterated
  <2> QED
    BY <2>1, <2>2, <2>3 DEF TypeOK
<1>15. CASE UseClient
  <2>1. PlanType' /\ CounterType' /\ SnapshotType'
    BY <1>15, SameSuite, ConstantFact DEF TypeOK, PlanType, CounterType, SnapshotType,
       UseClient, Operating, Error, Iterated, CreateClose, CreateFirstRequest,
       ReusedRequest, ManyClients, ClosesNext
  <2>2. StepType' /\ FlagType'
    BY <1>15, SameSuite, ConstantFact DEF TypeOK, StepType, FlagType, UseClient,
       Operating, Error, Iterated, CreateClose, CreateFirstRequest, ReusedRequest,
       ManyClients, ClosesNext
  <2>3. TallyType'
    BY <1>15, SameSuite, ConstantFact DEF TypeOK, TallyType, UseClient, Operating,
       Error, Iterated, CreateClose, CreateFirstRequest, ReusedRequest, ManyClients,
       ClosesNext
  <2>4. LoadType'
    <3>1. stage' \in {"make", "use", "close"}
      BY <1>15 DEF UseClient, CreateClose, CreateFirstRequest, ReusedRequest,
         ManyClients, ClosesNext, Iterated, TypeOK, LoadType
    <3>2. busy' = busy \/ busy' = 0
      BY <1>15 DEF UseClient, CreateClose, CreateFirstRequest, ReusedRequest,
         ManyClients, ClosesNext
    <3>3. left' \in Nat
      <4>1. CASE CreateClose
        <5>1. left > 0
          BY <1>15, <4>1, OperationFact DEF UseClient, Operating, CreateClose,
             Creation, Operation
        <5> QED
          BY <4>1, <5>1 DEF CreateClose, ClosesNext, Iterated, TypeOK, LoadType
      <4>2. CASE CreateFirstRequest \/ ReusedRequest \/ ManyClients
        BY <4>2 DEF CreateFirstRequest, ReusedRequest, ManyClients, ClosesNext,
           TypeOK, LoadType
      <4> QED
        BY <1>15, <4>1, <4>2 DEF UseClient
    <3> QED
      BY <3>1, <3>2, <3>3 DEF TypeOK, LoadType
  <2> QED
    BY <2>1, <2>2, <2>3, <2>4 DEF TypeOK
<1>16. CASE CloseClients
  <2>1. PlanType' /\ CounterType' /\ SnapshotType'
    BY <1>16, SameSuite, ConstantFact DEF TypeOK, PlanType, CounterType, SnapshotType,
       CloseClients, Operating, Error, Iterated, CloseCounted
  <2>2. FlagType'
    BY <1>16, SameSuite, ConstantFact DEF TypeOK, FlagType, CloseClients, Operating,
       Error, Iterated, CloseCounted
  <2>3. StepType'
    <3>1. open' = open \/ (busy > 0 /\ open' = open - 1)
      BY <1>16 DEF CloseClients, CloseCounted
    <3>2. busy <= open
      BY <1>16, OperationFact DEF CloseClients, Operating, Flow
    <3> QED
      BY <1>16, <3>1, <3>2 DEF CloseClients, TypeOK, StepType, LoadType
  <2>4. TallyType'
    BY <1>16, SameSuite, ConstantFact DEF TypeOK, TallyType, CloseClients, Operating,
       Error, Iterated, CloseCounted
  <2>5. LoadType'
    <3>1. CASE busy > 0
      BY <1>16, <3>1 DEF CloseClients, CloseCounted, TypeOK, LoadType
    <3>2. CASE ~(busy > 0)
      <4>1. Repeated => left > 0
        BY <1>16, OperationFact DEF CloseClients, Operating, Repeated, Creation,
           Operation
      <4> QED
        BY <1>16, <3>2, <4>1 DEF CloseClients, Iterated, TypeOK, LoadType
    <3> QED
      BY <3>1, <3>2
  <2> QED
    BY <2>1, <2>2, <2>3, <2>4, <2>5 DEF TypeOK
<1>17. CASE SetEnvironment
  BY <1>17, SameSuite, ConstantFact DEF TypeOK, PlanType, StepType, FlagType, LoadType,
     TallyType, CounterType, SnapshotType, SetEnvironment, Doing
<1>18. CASE RestoreEnvironment
  BY <1>18, SameSuite, ConstantFact DEF TypeOK, PlanType, StepType, FlagType, LoadType,
     TallyType, CounterType, SnapshotType, RestoreEnvironment, Doing
<1>19. CASE Snapshot
  <2>1. PlanType' /\ CounterType'
    BY <1>19, SameSuite, ConstantFact DEF TypeOK, PlanType, CounterType, Snapshot,
       Doing, SnapshotSteps
  <2>2. SnapshotType'
    <3>1. PICK step \in SnapshotSteps : snapshots' = Append(snapshots, [at |-> step, seen |-> seen])
      BY <1>19 DEF Snapshot
    <3>2. [at |-> step, seen |-> seen] \in [at : SnapshotSteps, seen : Counters]
      BY DEF TypeOK, CounterType
    <3> QED
      BY <3>1, <3>2 DEF TypeOK, SnapshotType
  <2>3. StepType' /\ FlagType'
    BY <1>19, SameSuite, ConstantFact DEF TypeOK, StepType, FlagType, Snapshot, Doing,
       SnapshotSteps
  <2>4. LoadType' /\ TallyType'
    BY <1>19, SameSuite, ConstantFact DEF TypeOK, LoadType, TallyType, Snapshot, Doing,
       SnapshotSteps
  <2> QED
    BY <2>1, <2>2, <2>3, <2>4 DEF TypeOK
<1>20. CASE ReadLate
  <2>1. PlanType' /\ SnapshotType'
    BY <1>20, SameSuite, ConstantFact DEF TypeOK, PlanType, SnapshotType, ReadLate
  <2>2. CounterType'
    <3>1. PICK k \in Kinds :
            /\ late[k] > 0 /\ late' = [late EXCEPT ![k] = @ - 1] /\ seen' = [seen EXCEPT ![k] = @ + 1]
            /\ charged' = IF InWindow THEN [charged EXCEPT ![k] = @ + 1] ELSE charged
      BY <1>20 DEF ReadLate, Kinds
    <3> QED
      BY <3>1, CounterFact DEF TypeOK, CounterType
  <2>3. StepType' /\ FlagType'
    BY <1>20, SameSuite, ConstantFact DEF TypeOK, StepType, FlagType, ReadLate
  <2>4. LoadType' /\ TallyType'
    BY <1>20, SameSuite, ConstantFact DEF TypeOK, LoadType, TallyType, ReadLate
  <2> QED
    BY <2>1, <2>2, <2>3, <2>4 DEF TypeOK
<1>21. CASE Report
  BY <1>21, SameSuite, ConstantFact DEF TypeOK, PlanType, StepType, FlagType, LoadType,
     TallyType, CounterType, SnapshotType, Report, Doing
<1>22. CASE NextCase
  <2>1. PlanType'
    BY <1>22, SameSuite, ConstantFact DEF TypeOK, PlanType, NextCase
  <2>2. CounterType'
    BY <1>22 DEF TypeOK, CounterType, NextCase, Zero, Counters
  <2>3. SnapshotType'
    <3>1. snapshots' = snapshots \/ snapshots' = << >>
      BY <1>22 DEF NextCase
    <3>2. ASSUME NEW S PROVE << >> \in Seq(S)
      OBVIOUS
    <3>3. << >> \in Seq([at : SnapshotSteps, seen : Counters])
      BY <3>2
    <3>4. SnapshotType
      BY DEF TypeOK
    <3> QED
      BY <3>1, <3>3, <3>4 DEF SnapshotType
  <2>4. StepType' /\ FlagType'
    BY <1>22, SameSuite, ConstantFact DEF TypeOK, StepType, FlagType, NextCase
  <2>5. LoadType'
    BY <1>22, SameSuite, ConstantFact DEF TypeOK, LoadType, NextCase
  <2>6. TallyType'
    BY <1>22 DEF TypeOK, TallyType, NextCase, NoTally
  <2> QED
    BY <2>1, <2>2, <2>3, <2>4, <2>5, <2>6 DEF TypeOK
<1>23. CASE UNCHANGED vars
  BY <1>23, SameSuite DEF TypeOK, PlanType, StepType, FlagType, LoadType, TallyType,
     CounterType, SnapshotType, Flow, Creation, vars
<1> QED
  BY <1>1, <1>2, <1>3, <1>4, <1>5, <1>6, <1>7, <1>8, <1>9, <1>10, <1>11, <1>12, <1>13,
     <1>14, <1>15, <1>16, <1>17, <1>18, <1>19, <1>20, <1>21, <1>22, <1>23, StepCases

\* A load is left when all its requests have ended, and a case by its last step.
LEMMA FlowStep == ASSUME Flow, TypeOK, [Next]_vars PROVE Flow'
<1>1. CASE LeaveOut
  <2>1. raised /\ pc \in 1 .. Len(Program) /\ pc' = pc + 1
        /\ UNCHANGED <<running, left, busy, stage, result>>
    BY <1>1 DEF LeaveOut
  <2>2. ~running /\ suite # "creation"
    BY <2>1 DEF Flow
  <2> QED
    BY <2>1, <2>2, SameSuite, AdvanceFact
<1>2. CASE CreateClient
  <2>1. At("create") /\ pc' = pc + 1 /\ UNCHANGED <<running, left, busy, stage, result>>
    BY <1>2 DEF CreateClient, Doing, Raise
  <2>2. ~running /\ pc \in 1 .. Len(Program)
    BY <2>1, StepFact DEF Flow, At
  <2>3. suite # "creation"
    BY <2>1, NoCreation
  <2> QED
    BY <2>1, <2>2, <2>3, SameSuite, AdvanceFact
<1>3. CASE CloseClient
  <2>1. At("close") /\ pc' = pc + 1 /\ UNCHANGED <<running, left, busy, stage, result>>
    BY <1>3 DEF CloseClient, Doing, Raise
  <2>2. ~running /\ pc \in 1 .. Len(Program)
    BY <2>1, StepFact DEF Flow, At
  <2>3. suite # "creation"
    BY <2>1, NoCreation
  <2> QED
    BY <2>1, <2>2, <2>3, SameSuite, AdvanceFact
<1>4. CASE OtherStep
  <2>1. (At("stats") \/ At("settle")) /\ pc' = pc + 1 /\ UNCHANGED <<running, left, busy, stage, result>>
    BY <1>4 DEF OtherStep, Doing, Raise
  <2>2. ~running /\ pc \in 1 .. Len(Program)
    BY <2>1, StepFact DEF Flow, At
  <2>3. suite # "creation"
    BY <2>1, NoCreation
  <2> QED
    BY <2>1, <2>2, <2>3, SameSuite, AdvanceFact
<1>5. CASE RecoveryCheck
  <2>1. At("recover") /\ pc' = pc + 1 /\ UNCHANGED <<running, left, busy, stage, result>>
    BY <1>5 DEF RecoveryCheck, Doing, Raise
  <2>2. ~running /\ pc \in 1 .. Len(Program)
    BY <2>1, StepFact DEF Flow, At
  <2>3. suite # "creation"
    BY <2>1, NoCreation
  <2> QED
    BY <2>1, <2>2, <2>3, SameSuite, AdvanceFact
<1>6. CASE BeginLoad
  <2>1. pc \in Loads /\ ~raised /\ ~running
    BY <1>6, NumberFact DEF BeginLoad, InLoad
  <2>2. running' /\ UNCHANGED <<pc, raised, busy, stage, open, result>>
    BY <1>6 DEF BeginLoad
  <2> QED
    BY <2>1, <2>2, SameSuite DEF Flow
<1>7. CASE TakeRequest
  BY <1>7, SameSuite DEF Flow, TypeOK, PlanType, StepType, FlagType, LoadType, TallyType,
     CounterType, SnapshotType, TakeRequest
<1>8. CASE EndLoad
  <2>1. running /\ ~running' /\ left' = 0 /\ busy' = 0 /\ stage' = "make" /\ pc' = pc + 1
        /\ UNCHANGED <<open, result>>
    BY <1>8 DEF EndLoad, Raise
  <2>2. pc \in Nat /\ pc \in 1 .. 6 /\ pc < End /\ End \in Nat
    BY <2>1, NumberFact DEF Flow
  <2>3. result = Unreported
    BY <2>2 DEF Flow
  <2>4. suite = "creation" => ~raised' /\ open \in Nat
    BY <1>8 DEF EndLoad, Flow, TypeOK, StepType
  <2> QED
    BY <2>1, <2>2, <2>3, <2>4, SameSuite DEF Flow
<1>9. CASE OneUpstreamRequest
  BY <1>9, SameSuite DEF Flow, TypeOK, PlanType, StepType, FlagType, LoadType, TallyType,
     CounterType, SnapshotType, OneUpstreamRequest, Counted
<1>10. CASE ResourceRequest
  BY <1>10, SameSuite DEF Flow, TypeOK, PlanType, StepType, FlagType, LoadType, TallyType,
     CounterType, SnapshotType, ResourceRequest, Counted
<1>11. CASE BuilderIteration
  BY <1>11, SameSuite DEF Flow, TypeOK, PlanType, StepType, FlagType, LoadType, TallyType,
     CounterType, SnapshotType, BuilderIteration, Counted
<1>12. CASE StreamRequest
  BY <1>12, SameSuite DEF Flow, TypeOK, PlanType, StepType, FlagType, LoadType, TallyType,
     CounterType, SnapshotType, StreamRequest, Counted
<1>13. CASE ProxyRequest
  BY <1>13, SameSuite DEF Flow, TypeOK, PlanType, StepType, FlagType, LoadType, TallyType,
     CounterType, SnapshotType, ProxyRequest, Counted, ReadByProxy, GivenUp, NotRead
<1>14. CASE MakeClient
  <2>1. suite = "creation" /\ running /\ UNCHANGED <<pc, raised, running, result>>
    BY <1>14, OperationFact DEF MakeClient, Operating
  <2>2. busy' <= open'
    BY <1>14, <2>1 DEF MakeClient, Flow, TypeOK, StepType, LoadType
  <2> QED
    BY <2>1, <2>2, SameSuite DEF Flow
<1>15. CASE UseClient
  BY <1>15, SameSuite DEF Flow, TypeOK, PlanType, StepType, FlagType, LoadType, TallyType,
     CounterType, SnapshotType, UseClient, Operating, Error, Iterated, CreateClose,
     CreateFirstRequest, ReusedRequest, ManyClients, ClosesNext
<1>16. CASE CloseClients
  BY <1>16, SameSuite DEF Flow, TypeOK, PlanType, StepType, FlagType, LoadType, TallyType,
     CounterType, SnapshotType, CloseClients, Operating, Error, Iterated, CloseCounted
<1>17. CASE SetEnvironment
  <2>1. At("environment") /\ pc' = pc + 1 /\ UNCHANGED <<running, left, busy, stage, result>>
    BY <1>17 DEF SetEnvironment, Doing, Raise
  <2>2. ~running /\ pc \in 1 .. Len(Program)
    BY <2>1, StepFact DEF Flow, At
  <2>3. suite # "creation"
    BY <2>1, NoCreation
  <2> QED
    BY <2>1, <2>2, <2>3, SameSuite, AdvanceFact
<1>18. CASE RestoreEnvironment
  <2>1. At("restore") /\ pc' = pc + 1 /\ UNCHANGED <<running, left, busy, stage, result>>
    BY <1>18 DEF RestoreEnvironment, Doing, Raise
  <2>2. ~running /\ pc \in 1 .. Len(Program)
    BY <2>1, StepFact DEF Flow, At
  <2>3. suite # "creation"
    BY <2>1, NoCreation
  <2> QED
    BY <2>1, <2>2, <2>3, SameSuite, AdvanceFact
<1>19. CASE Snapshot
  <2>1. PICK step \in SnapshotSteps : At(step)
    BY <1>19 DEF Snapshot, Doing
  <2>2. pc' = pc + 1 /\ UNCHANGED <<running, left, busy, stage, result>>
    BY <1>19 DEF Snapshot
  <2>3. ~running /\ pc \in 1 .. Len(Program)
    BY <2>1, StepFact DEF Flow, At, SnapshotSteps
  <2>4. suite # "creation"
    BY <2>1, NoCreation
  <2> QED
    BY <2>2, <2>3, <2>4, SameSuite, AdvanceFact
<1>20. CASE ReadLate
  BY <1>20, SameSuite DEF Flow, TypeOK, PlanType, StepType, FlagType, LoadType, TallyType,
     CounterType, SnapshotType, ReadLate
<1>21. CASE Report
  <2>1. At("report") /\ pc' = pc + 1 /\ ~raised /\ UNCHANGED <<raised, open, running, left, busy, stage>>
    BY <1>21 DEF Report, Doing, Finally
  <2>2. ~running /\ pc \in 1 .. Len(Program)
    BY <2>1, StepFact DEF Flow, At
  <2>3. suite \in SuiteNames /\ pc \in Nat /\ open \in Nat
    BY DEF TypeOK, PlanType, StepType
  <2>4. IF suite = "one-upstream" THEN pc' \in {7, 8} ELSE pc' = End
    BY <2>1, <2>3, StreamingPlaces, OneUpstreamPlaces, ResourcePlaces,  BuilderPlaces,
       CreationPlaces, ProxyPlaces DEF SuiteNames
  <2> QED
    BY <2>1, <2>2, <2>3, <2>4, SameSuite, AdvanceFact
<1>22. CASE NextCase
  <2>1. pc = End /\ (pc' = 0 \/ (pc' = 1 /\ ~raised)) /\ (open' = open \/ open' = 0) /\ result' = Unreported
        /\ UNCHANGED <<raised, running, left, busy, stage>>
    BY <1>22, NumberFact DEF NextCase
  <2>2. ~running /\ End \in Nat /\ End >= 3
    BY <2>1, NumberFact DEF Flow
  <2>3. open' \in Nat
    BY <2>1 DEF TypeOK, StepType
  <2> QED
    BY <2>1, <2>2, <2>3, SameSuite DEF Flow
<1>23. CASE UNCHANGED vars
  BY <1>23, SameSuite DEF Flow, TypeOK, PlanType, StepType, FlagType, LoadType, TallyType,
     CounterType, SnapshotType, vars
<1> QED
  BY <1>1, <1>2, <1>3, <1>4, <1>5, <1>6, <1>7, <1>8, <1>9, <1>10, <1>11, <1>12, <1>13,
     <1>14, <1>15, <1>16, <1>17, <1>18, <1>19, <1>20, <1>21, <1>22, <1>23, StepCases

\* Nothing a result was computed from changes after it.
LEMMA KeptStep == ASSUME Kept, TypeOK, Flow, [Next]_vars PROVE Kept'
<1>1. CASE LeaveOut
  <2>1. UNCHANGED <<item, tally, snapshots, result>>
    BY <1>1 DEF LeaveOut
  <2> QED
    BY <2>1, SameSuite, ResultFact DEF Kept
<1>2. CASE CreateClient
  <2>1. UNCHANGED <<item, tally, snapshots, result>>
    BY <1>2 DEF CreateClient
  <2> QED
    BY <2>1, SameSuite, ResultFact DEF Kept
<1>3. CASE CloseClient
  <2>1. UNCHANGED <<item, tally, snapshots, result>>
    BY <1>3 DEF CloseClient
  <2> QED
    BY <2>1, SameSuite, ResultFact DEF Kept
<1>4. CASE OtherStep
  <2>1. UNCHANGED <<item, tally, snapshots, result>>
    BY <1>4 DEF OtherStep
  <2> QED
    BY <2>1, SameSuite, ResultFact DEF Kept
<1>5. CASE RecoveryCheck
  <2>1. UNCHANGED <<item, tally, snapshots, result>>
    BY <1>5 DEF RecoveryCheck
  <2> QED
    BY <2>1, SameSuite, ResultFact DEF Kept
<1>6. CASE BeginLoad
  <2>1. pc \in Loads /\ result' = result
    BY <1>6, NumberFact DEF BeginLoad, InLoad, Flow
  <2> QED
    BY <2>1, UnreportedFact DEF Kept
<1>7. CASE TakeRequest
  <2>1. UNCHANGED <<item, tally, snapshots, result>>
    BY <1>7 DEF TakeRequest
  <2> QED
    BY <2>1, SameSuite, ResultFact DEF Kept
<1>8. CASE EndLoad
  <2>1. pc \in Loads /\ result' = result
    BY <1>8, NumberFact DEF EndLoad, Flow
  <2> QED
    BY <2>1, UnreportedFact DEF Kept
<1>9. CASE OneUpstreamRequest
  <2>1. pc \in Loads /\ result' = result
    BY <1>9, NumberFact DEF OneUpstreamRequest, Counted, Flow
  <2> QED
    BY <2>1, UnreportedFact DEF Kept
<1>10. CASE ResourceRequest
  <2>1. pc \in Loads /\ result' = result
    BY <1>10, NumberFact DEF ResourceRequest, Counted, Flow
  <2> QED
    BY <2>1, UnreportedFact DEF Kept
<1>11. CASE BuilderIteration
  <2>1. pc \in Loads /\ result' = result
    BY <1>11, NumberFact DEF BuilderIteration, Counted, Flow
  <2> QED
    BY <2>1, UnreportedFact DEF Kept
<1>12. CASE StreamRequest
  <2>1. pc \in Loads /\ result' = result
    BY <1>12, NumberFact DEF StreamRequest, Counted, Flow
  <2> QED
    BY <2>1, UnreportedFact DEF Kept
<1>13. CASE ProxyRequest
  <2>1. pc \in Loads /\ result' = result
    BY <1>13, NumberFact DEF ProxyRequest, ReadByProxy, GivenUp, NotRead, Counted, Flow
  <2> QED
    BY <2>1, UnreportedFact DEF Kept
<1>14. CASE MakeClient
  <2>1. pc \in Loads /\ result' = result
    BY <1>14, NumberFact DEF MakeClient, Operating, Flow
  <2> QED
    BY <2>1, UnreportedFact DEF Kept
<1>15. CASE UseClient
  <2>1. pc \in Loads /\ result' = result
    BY <1>15, NumberFact DEF UseClient, Operating, Flow
  <2> QED
    BY <2>1, UnreportedFact DEF Kept
<1>16. CASE CloseClients
  <2>1. pc \in Loads /\ result' = result
    BY <1>16, NumberFact DEF CloseClients, Operating, Flow
  <2> QED
    BY <2>1, UnreportedFact DEF Kept
<1>17. CASE SetEnvironment
  <2>1. UNCHANGED <<item, tally, snapshots, result>>
    BY <1>17 DEF SetEnvironment
  <2> QED
    BY <2>1, SameSuite, ResultFact DEF Kept
<1>18. CASE RestoreEnvironment
  <2>1. UNCHANGED <<item, tally, snapshots, result>>
    BY <1>18 DEF RestoreEnvironment
  <2> QED
    BY <2>1, SameSuite, ResultFact DEF Kept
<1>19. CASE Snapshot
  <2>1. PICK step \in SnapshotSteps : At(step)
    BY <1>19 DEF Snapshot, Doing
  <2>2. suite = "proxy" /\ pc \in 1 .. Len(Program) /\ result' = result
    BY <1>19, <2>1, OnlyProxy DEF At, Snapshot
  <2> QED
    BY <2>2, UnreportedFact DEF Kept
<1>20. CASE ReadLate
  <2>1. UNCHANGED <<item, tally, snapshots, result>>
    BY <1>20 DEF ReadLate
  <2> QED
    BY <2>1, SameSuite, ResultFact DEF Kept
<1>21. CASE Report
  <2>1. UNCHANGED <<item, tally, snapshots>> /\ result' = Result
    BY <1>21 DEF Report
  <2> QED
    BY <2>1, SameSuite, ResultFact DEF Kept
<1>22. CASE NextCase
  BY <1>22 DEF NextCase, Kept
<1>23. CASE UNCHANGED vars
  <2>1. UNCHANGED <<item, tally, snapshots, result>>
    BY <1>23 DEF vars
  <2> QED
    BY <2>1, SameSuite, ResultFact DEF Kept
<1> QED
  BY <1>1, <1>2, <1>3, <1>4, <1>5, <1>6, <1>7, <1>8, <1>9, <1>10, <1>11, <1>12, <1>13,
     <1>14, <1>15, <1>16, <1>17, <1>18, <1>19, <1>20, <1>21, <1>22, <1>23, StepCases

\* The environment is set and restored with the case.
LEMMA EnvironmentStep == ASSUME Environment, TypeOK, Flow, [Next]_vars PROVE Environment'
<1>1. CASE LeaveOut
  <2>1. UNCHANGED <<item, env, open>> /\ pc' = pc + 1
    BY <1>1 DEF LeaveOut
  <2>2. CASE suite = "proxy"
    <3>1. pc \in Nat /\ pc # 11 /\ (pc = 9 => open = 0) /\ pc # 1 /\ pc # 0
      BY <1>1, <2>2, ProxySteps DEF LeaveOut, Finally, TypeOK, StepType, Flow
    <3> QED
      BY <2>1, <2>2, <3>1, SameSuite DEF Environment
  <2> QED
    BY <2>1, <2>2, SameSuite DEF Environment
<1>2. CASE CreateClient
  BY <1>2, SameSuite, ProxyPlaces, OnlyProxy DEF Environment, TypeOK, PlanType, StepType,
     Flow, CreateClient, Doing, Raise
<1>3. CASE CloseClient
  BY <1>3, SameSuite, ProxyPlaces, OnlyProxy DEF Environment, TypeOK, PlanType, StepType,
     Flow, CloseClient, Doing, Raise
<1>4. CASE OtherStep
  BY <1>4, SameSuite, ProxyPlaces, OnlyProxy DEF Environment, TypeOK, PlanType, StepType,
     Flow, OtherStep, Doing, Raise
<1>5. CASE RecoveryCheck
  BY <1>5, SameSuite, ProxyPlaces, OnlyProxy DEF Environment, TypeOK, PlanType, StepType,
     Flow, RecoveryCheck, Doing
<1>6. CASE BeginLoad
  BY <1>6, SameSuite, ProxyPlaces, OnlyProxy DEF Environment, TypeOK, PlanType, StepType,
     Flow, BeginLoad, InLoad
<1>7. CASE TakeRequest
  BY <1>7, SameSuite, ProxyPlaces, OnlyProxy DEF Environment, TypeOK, PlanType, StepType,
     Flow, TakeRequest
<1>8. CASE EndLoad
  BY <1>8, SameSuite, ProxyPlaces, OnlyProxy DEF Environment, TypeOK, PlanType, StepType,
     Flow, EndLoad, Raise
<1>9. CASE OneUpstreamRequest
  BY <1>9, SameSuite, ProxyPlaces, OnlyProxy DEF Environment, TypeOK, PlanType, StepType,
     Flow, OneUpstreamRequest, Counted
<1>10. CASE ResourceRequest
  BY <1>10, SameSuite, ProxyPlaces, OnlyProxy DEF Environment, TypeOK, PlanType, StepType,
     Flow, ResourceRequest, Counted
<1>11. CASE BuilderIteration
  BY <1>11, SameSuite, ProxyPlaces, OnlyProxy DEF Environment, TypeOK, PlanType, StepType,
     Flow, BuilderIteration, Counted
<1>12. CASE StreamRequest
  BY <1>12, SameSuite, ProxyPlaces, OnlyProxy DEF Environment, TypeOK, PlanType, StepType,
     Flow, StreamRequest, Counted
<1>13. CASE ProxyRequest
  BY <1>13, SameSuite, ProxyPlaces, OnlyProxy DEF Environment, TypeOK, PlanType, StepType,
     Flow, ProxyRequest, Counted, ReadByProxy, GivenUp, NotRead
<1>14. CASE MakeClient
  BY <1>14, SameSuite, OperationFact DEF MakeClient, Operating, Environment
<1>15. CASE UseClient
  BY <1>15, SameSuite, ProxyPlaces, OnlyProxy DEF Environment, TypeOK, PlanType, StepType,
     Flow, UseClient, Operating, Error, Iterated, CreateClose, CreateFirstRequest,
     ReusedRequest, ManyClients, ClosesNext
<1>16. CASE CloseClients
  BY <1>16, SameSuite, OperationFact DEF CloseClients, Operating, Environment
<1>17. CASE SetEnvironment
  BY <1>17, SameSuite, ProxyPlaces, OnlyProxy DEF Environment, TypeOK, PlanType, StepType,
     Flow, SetEnvironment, Doing
<1>18. CASE RestoreEnvironment
  BY <1>18, SameSuite, ProxyPlaces, OnlyProxy DEF Environment, TypeOK, PlanType, StepType,
     Flow, RestoreEnvironment, Doing
<1>19. CASE Snapshot
  BY <1>19, SameSuite, ProxyPlaces, OnlyProxy DEF Environment, TypeOK, PlanType, StepType,
     Flow, Snapshot, Doing, SnapshotSteps
<1>20. CASE ReadLate
  BY <1>20, SameSuite, ProxyPlaces, OnlyProxy DEF Environment, TypeOK, PlanType, StepType,
     Flow, ReadLate
<1>21. CASE Report
  BY <1>21, SameSuite, ProxyPlaces, OnlyProxy DEF Environment, TypeOK, PlanType, StepType,
     Flow, Report, Doing
<1>22. CASE NextCase
  <2>1. suite = "proxy" => pc = 13
    <3>1. pc = Len(Program) + 1
      BY <1>22 DEF NextCase
    <3>2. pc = End
      BY <3>1, NumberFact
    <3> QED
      BY <3>2 DEF End
  <2>2. (pc' = 0 \/ pc' = 1) /\ env' = env /\ (open' = open \/ open' = 0)
    BY <1>22 DEF NextCase
  <2> QED
    BY <2>1, <2>2, SameSuite DEF Environment
<1>23. CASE UNCHANGED vars
  BY <1>23, SameSuite DEF Environment, TypeOK, PlanType, StepType, Flow, vars
<1> QED
  BY <1>1, <1>2, <1>3, <1>4, <1>5, <1>6, <1>7, <1>8, <1>9, <1>10, <1>11, <1>12, <1>13,
     <1>14, <1>15, <1>16, <1>17, <1>18, <1>19, <1>20, <1>21, <1>22, <1>23, StepCases

\* Every operation counts what its clients raise, and no more.
LEMMA CreationStep == ASSUME Creation, TypeOK, Flow, [Next]_vars PROVE Creation'
<1>1. CASE LeaveOut
  BY <1>1, SameSuite DEF LeaveOut, Flow, Creation
<1>2. CASE CreateClient
  BY <1>2, SameSuite, NoCreation DEF CreateClient, Doing, Creation
<1>3. CASE CloseClient
  BY <1>3, SameSuite, NoCreation DEF CloseClient, Doing, Creation
<1>4. CASE OtherStep
  BY <1>4, SameSuite, NoCreation DEF OtherStep, Doing, Creation
<1>5. CASE RecoveryCheck
  BY <1>5, SameSuite, NoCreation DEF RecoveryCheck, Doing, Creation
<1>6. CASE BeginLoad
  <2> SUFFICES ASSUME suite = "creation" PROVE Creation'
    BY SameSuite DEF Creation
  <2>1. pc = 1 /\ ~running /\ running' /\ stage = "make" /\ busy = 0 /\ open = 0
    BY <1>6, CreationPlaces DEF BeginLoad, InLoad, Flow, Creation, TypeOK, StepType,
       LoadType, TallyType
  <2>2. /\ left' = IF item.kind = "many-clients" THEN Concurrency ELSE Requests
        /\ tally'.errors = 0 /\ UNCHANGED <<suite, pc, item, busy, stage, open>>
    BY <1>6, CreationPlaces DEF BeginLoad, NoTally, TypeOK, StepType
  <2>3. item.kind \in {"create-close", "create-first-request", "reused-request", "many-clients"}
    BY KindsOfOperations
  <2>4. Operation'
    BY <2>1, <2>2, <2>3, ConstantFact DEF Operation
  <2> QED
    BY <2>1, <2>2, <2>4 DEF Creation
<1>7. CASE TakeRequest
  BY <1>7, SameSuite DEF TakeRequest, Creation
<1>8. CASE EndLoad
  <2> SUFFICES ASSUME suite = "creation" PROVE Creation'
    BY SameSuite DEF Creation
  <2>1. /\ running /\ ~running' /\ left = 0 /\ busy = 0 /\ stage = "make"
        /\ UNCHANGED <<suite, item, open, tally, busy>>
    BY <1>8 DEF EndLoad, Raise
  <2>2. pc = 1 /\ pc' = 2
    BY <1>8, <2>1, CreationPlaces DEF EndLoad, Raise, Flow, TypeOK, StepType
  <2>3. tally.errors <= OperationErrorLimit
    BY <2>1, <2>2, KindsOfOperations, ConstantFact DEF Creation, Operation,
       OperationErrorLimit, TypeOK, TallyType
  <2> QED
    BY <2>1, <2>2, <2>3 DEF Creation, OperationErrorLimit
<1>9. CASE OneUpstreamRequest
  BY <1>9, SameSuite DEF OneUpstreamRequest, Creation
<1>10. CASE ResourceRequest
  BY <1>10, SameSuite DEF ResourceRequest, Creation
<1>11. CASE BuilderIteration
  BY <1>11, SameSuite DEF BuilderIteration, Creation
<1>12. CASE StreamRequest
  BY <1>12, SameSuite DEF StreamRequest, Creation
<1>13. CASE ProxyRequest
  BY <1>13, SameSuite DEF ProxyRequest, Creation
<1>14. CASE MakeClient
  <2>1. suite = "creation" /\ pc = 1 /\ running /\ UNCHANGED <<suite, item, pc, running>>
    BY <1>14, OperationFact DEF MakeClient, Operating
  <2>2. Operation /\ open <= tally.errors + busy
    BY <2>1 DEF Creation
  <2>3. /\ left \in Nat /\ busy \in Nat /\ open \in Nat /\ tally.errors \in Nat
        /\ Requests \in Nat \ {0} /\ Concurrency \in Nat \ {0}
    BY ConstantFact DEF TypeOK, LoadType, StepType, TallyType
  <2>4. \A n \in Nat : Error(n) => tally'.errors = tally.errors + n
    BY DEF Error, TypeOK, TallyType
  <2>5. Operation'
    <3>1. CASE item.kind = "create-close"
      BY <1>14, <2>1, <2>2, <2>3, <2>4, <3>1 DEF MakeClient, Operating, Iterated,
         Repeated, Operation
    <3>2. CASE item.kind = "create-first-request"
      BY <1>14, <2>1, <2>2, <2>3, <2>4, <3>2 DEF MakeClient, Operating, Iterated,
         Repeated, Operation
    <3>3. CASE item.kind = "reused-request"
      BY <1>14, <2>1, <2>2, <2>3, <2>4, <3>3 DEF MakeClient, Operating, Iterated,
         Repeated, Operation
    <3>4. CASE item.kind = "many-clients"
      BY <1>14, <2>1, <2>2, <2>3, <2>4, <3>4 DEF MakeClient, Operating, Iterated,
         Repeated, Operation
    <3> QED
      BY <2>1, <3>1, <3>2, <3>3, <3>4, KindsOfOperations
  <2>6. open' <= tally'.errors + busy'
    BY <1>14, <2>2, <2>3, <2>4 DEF MakeClient, Operating, Iterated, Repeated, Operation
  <2> QED
    BY <2>1, <2>5, <2>6 DEF Creation
<1>15. CASE UseClient
  <2>1. suite = "creation" /\ pc = 1 /\ running /\ UNCHANGED <<suite, item, pc, running>>
    BY <1>15, OperationFact DEF UseClient, Operating
  <2>2. Operation /\ open <= tally.errors + busy
    BY <2>1 DEF Creation
  <2>3. /\ left \in Nat /\ busy \in Nat /\ open \in Nat /\ tally.errors \in Nat
        /\ Requests \in Nat \ {0} /\ Concurrency \in Nat \ {0}
    BY ConstantFact DEF TypeOK, LoadType, StepType, TallyType
  <2>4. \A n \in Nat : Error(n) => tally'.errors = tally.errors + n
    BY DEF Error, TypeOK, TallyType
  <2>5. Operation'
    <3>1. CASE item.kind = "create-close"
      BY <1>15, <2>1, <2>2, <2>3, <2>4, <3>1 DEF UseClient, Operating, CreateClose,
         CreateFirstRequest, ReusedRequest, ManyClients, ClosesNext, Iterated,
         Repeated, Operation
    <3>2. CASE item.kind = "create-first-request"
      BY <1>15, <2>1, <2>2, <2>3, <2>4, <3>2 DEF UseClient, Operating, CreateClose,
         CreateFirstRequest, ReusedRequest, ManyClients, ClosesNext, Iterated,
         Repeated, Operation
    <3>3. CASE item.kind = "reused-request"
      BY <1>15, <2>1, <2>2, <2>3, <2>4, <3>3 DEF UseClient, Operating, CreateClose,
         CreateFirstRequest, ReusedRequest, ManyClients, ClosesNext, Iterated,
         Repeated, Operation
    <3>4. CASE item.kind = "many-clients"
      BY <1>15, <2>1, <2>2, <2>3, <2>4, <3>4 DEF UseClient, Operating, CreateClose,
         CreateFirstRequest, ReusedRequest, ManyClients, ClosesNext, Iterated,
         Repeated, Operation
    <3> QED
      BY <2>1, <3>1, <3>2, <3>3, <3>4, KindsOfOperations
  <2>6. open' <= tally'.errors + busy'
    BY <1>15, <2>2, <2>3, <2>4 DEF UseClient, Operating, CreateClose,
       CreateFirstRequest, ReusedRequest, ManyClients, ClosesNext, Iterated, Repeated,
       Operation
  <2> QED
    BY <2>1, <2>5, <2>6 DEF Creation
<1>16. CASE CloseClients
  <2>1. suite = "creation" /\ pc = 1 /\ running /\ UNCHANGED <<suite, item, pc, running>>
    BY <1>16, OperationFact DEF CloseClients, Operating
  <2>2. Operation /\ open <= tally.errors + busy
    BY <2>1 DEF Creation
  <2>3. /\ left \in Nat /\ busy \in Nat /\ open \in Nat /\ tally.errors \in Nat
        /\ Requests \in Nat \ {0} /\ Concurrency \in Nat \ {0}
    BY ConstantFact DEF TypeOK, LoadType, StepType, TallyType
  <2>4. \A n \in Nat : Error(n) => tally'.errors = tally.errors + n
    BY DEF Error, TypeOK, TallyType
  <2>5. Operation'
    <3>1. CASE item.kind = "create-close"
      BY <1>16, <2>1, <2>2, <2>3, <2>4, <3>1 DEF CloseClients, Operating,
         CloseCounted, Iterated, Repeated, Operation
    <3>2. CASE item.kind = "create-first-request"
      BY <1>16, <2>1, <2>2, <2>3, <2>4, <3>2 DEF CloseClients, Operating,
         CloseCounted, Iterated, Repeated, Operation
    <3>3. CASE item.kind = "reused-request"
      BY <1>16, <2>1, <2>2, <2>3, <2>4, <3>3 DEF CloseClients, Operating,
         CloseCounted, Iterated, Repeated, Operation
    <3>4. CASE item.kind = "many-clients"
      BY <1>16, <2>1, <2>2, <2>3, <2>4, <3>4 DEF CloseClients, Operating,
         CloseCounted, Iterated, Repeated, Operation
    <3> QED
      BY <2>1, <3>1, <3>2, <3>3, <3>4, KindsOfOperations
  <2>6. open' <= tally'.errors + busy'
    BY <1>16, <2>2, <2>3, <2>4 DEF CloseClients, Operating, CloseCounted, Iterated,
       Repeated, Operation
  <2> QED
    BY <2>1, <2>5, <2>6 DEF Creation
<1>17. CASE SetEnvironment
  BY <1>17, SameSuite, NoCreation DEF SetEnvironment, Doing, Creation
<1>18. CASE RestoreEnvironment
  BY <1>18, SameSuite, NoCreation DEF RestoreEnvironment, Doing, Creation
<1>19. CASE Snapshot
  BY <1>19, SameSuite, NoCreation DEF Snapshot, Doing, Creation
<1>20. CASE ReadLate
  <2>1. UNCHANGED <<suite, pc, item, open, running, tally, busy, left, stage>>
    BY <1>20 DEF ReadLate
  <2> QED
    BY <2>1, SameOperation DEF Creation
<1>21. CASE Report
  <2>1. UNCHANGED <<suite, item, open, running, tally, busy, left, stage>> /\ pc' = pc + 1
    BY <1>21 DEF Report
  <2>2. suite = "creation" => pc = 2 /\ ~running
    BY <1>21, CreationPlaces DEF Report, Doing, Flow, TypeOK, StepType
  <2> QED
    BY <2>1, <2>2, SameOperation DEF Creation
<1>22. CASE NextCase
  <2>1. /\ UNCHANGED <<suite, busy, running>> /\ tally'.errors = 0
        /\ pc' = 0 \/ (pc' = 1 /\ open' = 0)
    BY <1>22 DEF NextCase, NoTally
  <2>2. suite = "creation" => ~running /\ busy = 0
    BY <1>22, CreationPlaces DEF NextCase, Flow, TypeOK, StepType
  <2>3. suite = "creation" => OperationErrorLimit' \in Nat
    BY <2>1, ConstantFact DEF OperationErrorLimit
  <2> QED
    BY <2>1, <2>2, <2>3 DEF Creation
<1>23. CASE UNCHANGED vars
  <2>1. UNCHANGED <<suite, pc, item, open, running, tally, busy, left, stage>>
    BY <1>23 DEF vars
  <2> QED
    BY <2>1, SameOperation DEF Creation
<1> QED
  BY <1>1, <1>2, <1>3, <1>4, <1>5, <1>6, <1>7, <1>8, <1>9, <1>10, <1>11, <1>12, <1>13,
     <1>14, <1>15, <1>16, <1>17, <1>18, <1>19, <1>20, <1>21, <1>22, <1>23, StepCases

\* A stream that ends well adds the size of its body.
LEMMA BodiesStep == ASSUME Bodies, TypeOK, Flow, [Next]_vars PROVE Bodies'
<1>1. CASE LeaveOut
  BY <1>1 DEF LeaveOut, Bodies
<1>2. CASE CreateClient
  <2>1. suite = "streaming" => pc = 1 /\ pc' = 2
    BY <1>2, StreamingPlaces DEF CreateClient, Doing, Raise, TypeOK, StepType
  <2> QED
    BY <2>1, SameSuite DEF Bodies, Verified
<1>3. CASE CloseClient
  <2>1. UNCHANGED <<suite, running, item, left, busy, tally>> /\ (~raised' => UNCHANGED raised /\ pc' = pc + 1)
    BY <1>3 DEF CloseClient, Raise, Doing
  <2>2. suite = "streaming" => pc \in 4 .. 6
    BY <1>3, StreamingPlaces DEF CloseClient, Doing, TypeOK, StepType
  <2> QED
    BY <2>1, <2>2, SameGood DEF Bodies, Verified
<1>4. CASE OtherStep
  <2>1. UNCHANGED <<suite, running, item, left, busy, tally>> /\ (~raised' => UNCHANGED raised /\ pc' = pc + 1)
    BY <1>4 DEF OtherStep, Raise, Doing
  <2>2. suite = "streaming" => pc \in 4 .. 6
    BY <1>4, StreamingPlaces DEF OtherStep, Doing, TypeOK, StepType
  <2> QED
    BY <2>1, <2>2, SameGood DEF Bodies, Verified
<1>5. CASE RecoveryCheck
  BY <1>5, SameSuite, StreamingPlaces DEF RecoveryCheck, Doing, SnapshotSteps, TypeOK,
     StepType, Bodies
<1>6. CASE BeginLoad
  <2> SUFFICES ASSUME suite = "streaming", pc = 3 PROVE Verified'
    BY <1>6, SameSuite, StreamingPlaces DEF BeginLoad, InLoad, Bodies, TypeOK, StepType
  <2>1. left' = Requests /\ busy' = 0 /\ tally' = NoTally
    BY <1>6, StreamingPlaces DEF BeginLoad, Flow, TypeOK, StepType
  <2>2. Good' = 0
    BY <2>1, ConstantFact DEF Good, NoTally
  <2> QED
    BY <2>1, <2>2, SizeFact DEF Verified, NoTally
<1>7. CASE TakeRequest
  <2>1. /\ UNCHANGED <<suite, raised, pc, running, item, tally>>
        /\ left > 0 /\ left' = left - 1 /\ busy' = busy + 1
    BY <1>7 DEF TakeRequest
  <2>2. Good' = Good
    BY <2>1, GoodFact DEF Good
  <2> QED
    BY <2>1, <2>2 DEF Bodies, Verified
<1>8. CASE EndLoad
  <2>1. UNCHANGED <<suite, item, left, busy, tally>> /\ running /\ ~running' /\ pc' = pc + 1
    BY <1>8 DEF EndLoad, Raise
  <2>2. ~raised' => ~raised
    BY <1>8 DEF EndLoad, Raise
  <2>3. suite = "streaming" => pc \in {2, 3}
    BY <2>1, StreamingPlaces DEF Flow, TypeOK, StepType
  <2> QED
    BY <2>1, <2>2, <2>3, SameGood DEF Bodies, Verified
<1>9. CASE OneUpstreamRequest
  BY <1>9, SameSuite DEF OneUpstreamRequest, Bodies
<1>10. CASE ResourceRequest
  BY <1>10, SameSuite DEF ResourceRequest, Bodies
<1>11. CASE BuilderIteration
  BY <1>11, SameSuite DEF BuilderIteration, Bodies
<1>12. CASE StreamRequest
  <2>1. UNCHANGED <<suite, raised, pc, running, item, left>> /\ running /\ busy' = busy - 1
    BY <1>12 DEF StreamRequest, Counted
  <2>2. CASE Counted(1)
    <3>1. tally' = [tally EXCEPT !.errors = @ + 1]
      BY <2>2 DEF Counted
    <3>2. Good' = Good
      BY <2>1, <3>1, GoodFact DEF Good, TallyType
    <3> QED
      BY <2>1, <3>1, <3>2, GoodFact DEF Bodies, Verified, TallyType
  <2>3. ASSUME NEW arrived \in 0 .. Size, NEW intact \in BOOLEAN, CountOutcome(arrived, intact)
        PROVE  Bodies'
    <3> SUFFICES ASSUME suite = "streaming", ~raised, pc \in 4 .. 7 \/ (pc = 3 /\ running),
                        item.consume = "all"
                 PROVE  Verified'
      BY <2>1 DEF Bodies, Verified
    <3>1. Verified
      BY DEF Bodies, Verified
    <3>2. TallyType
      BY GoodFact
    <3>3. CASE OutcomeMatches(Consumed(arrived), intact)
      <4>1. /\ BytesRead(Consumed(arrived)) = Size
            /\ item.read = "bytes" => arrived = Size /\ intact
            /\ item.read = "text" => arrived = Size
            /\ item.read = "lines" => LinesBegun(arrived) = item.lines
        BY <3>3, MatchFact
      <4>2. /\ tally'.errors = tally.errors /\ tally'.verified = tally.verified + Size
            /\ item.read = "bytes" => tally'.intact = tally.intact + 1
            /\ item.read = "text" => tally'.whole = tally.whole + 1
            /\ item.read = "lines" => tally'.begun = tally.begun + 1
        BY <2>3, <3>2, <3>3, <4>1 DEF CountOutcome, TallyType
      <4>3. Good' = Good + 1
        BY <2>1, <4>2, GoodFact DEF Good
      <4>4. Size * Good' = Size * Good + Size
        BY <4>3, GoodFact, SizeFact
      <4> QED
        BY <2>1, <3>1, <3>2, <4>2, <4>3, <4>4, GoodFact DEF Verified, TallyType
    <3>4. CASE ~OutcomeMatches(Consumed(arrived), intact)
      <4>1. /\ tally'.errors = tally.errors + 1 /\ tally'.verified = tally.verified
            /\ tally'.intact \in {tally.intact, tally.intact + 1}
            /\ tally'.whole \in {tally.whole, tally.whole + 1}
            /\ tally'.begun \in {tally.begun, tally.begun + 1}
        BY <2>3, <3>2, <3>4 DEF CountOutcome, TallyType
      <4>2. Good' = Good
        BY <2>1, <4>1, GoodFact DEF Good
      <4> QED
        BY <2>1, <3>1, <3>2, <4>1, <4>2, GoodFact DEF Verified, TallyType
    <3> QED
      BY <3>3, <3>4
  <2> QED
    BY <1>12, <2>2, <2>3 DEF StreamRequest
<1>13. CASE ProxyRequest
  BY <1>13, SameSuite DEF ProxyRequest, Bodies
<1>14. CASE MakeClient
  BY <1>14, SameSuite, OperationFact DEF MakeClient, Operating, Bodies
<1>15. CASE UseClient
  BY <1>15, SameSuite, OperationFact DEF UseClient, Operating, Bodies
<1>16. CASE CloseClients
  BY <1>16, SameSuite, OperationFact DEF CloseClients, Operating, Bodies
<1>17. CASE SetEnvironment
  BY <1>17, SameSuite, StreamingPlaces DEF SetEnvironment, Doing, SnapshotSteps, TypeOK,
     StepType, Bodies
<1>18. CASE RestoreEnvironment
  BY <1>18, SameSuite, StreamingPlaces DEF RestoreEnvironment, Doing, SnapshotSteps,
     TypeOK, StepType, Bodies
<1>19. CASE Snapshot
  BY <1>19, SameSuite, StreamingPlaces DEF Snapshot, Doing, SnapshotSteps, TypeOK,
     StepType, Bodies
<1>20. CASE ReadLate
  <2>1. UNCHANGED <<suite, raised, pc, running, item, left, busy, tally>>
    BY <1>20 DEF ReadLate
  <2> QED
    BY <2>1, SameSuite, SameGood DEF Bodies, Verified
<1>21. CASE Report
  <2>1. UNCHANGED <<suite, running, item, left, busy, tally>> /\ (~raised' => UNCHANGED raised /\ pc' = pc + 1)
    BY <1>21 DEF Report, Doing
  <2>2. suite = "streaming" => pc \in 4 .. 6
    BY <1>21, StreamingPlaces DEF Report, Doing, TypeOK, StepType
  <2> QED
    BY <2>1, <2>2, SameGood DEF Bodies, Verified
<1>22. CASE NextCase
  <2>1. pc' \in {0, 1}
    BY <1>22 DEF NextCase
  <2> QED
    BY <2>1 DEF Bodies, Verified
<1>23. CASE UNCHANGED vars
  <2>1. UNCHANGED <<suite, raised, pc, running, item, left, busy, tally>>
    BY <1>23 DEF vars
  <2> QED
    BY <2>1, SameSuite, SameGood DEF Bodies, Verified
<1> QED
  BY <1>1, <1>2, <1>3, <1>4, <1>5, <1>6, <1>7, <1>8, <1>9, <1>10, <1>11, <1>12, <1>13,
     <1>14, <1>15, <1>16, <1>17, <1>18, <1>19, <1>20, <1>21, <1>22, <1>23, StepCases

\* The counters of the proxy account for the requests of the case.
LEMMA WindowStep == ASSUME Window, TypeOK, Flow, [Next]_vars PROVE Window'
<1>1. CASE LeaveOut
  <2>1. UNCHANGED <<item, route, seen, charged, snapshots, tunnel>> /\ raised'
    BY <1>1 DEF LeaveOut
  <2>2. Good' = Good
    BY <1>1, SameGood DEF LeaveOut
  <2> QED
    BY <2>1, <2>2, SameSuite, QuietStep DEF InProxyCase
<1>2. CASE CreateClient
  <2>1. UNCHANGED <<item, route, seen, charged, snapshots>> /\ (tunnel' => tunnel)
    BY <1>2 DEF CreateClient, Raise
  <2>2. InProxyCase' => /\ InProxyCase /\ pc' = pc + 1 /\ pc \notin {3, 5, 6, 7, 10} /\ ~running'
                        /\ (pc = 9 => ~tunnel')
    BY <1>2, SameSuite, ProxyPlaces DEF CreateClient, Raise, Doing, InProxyCase, Flow,
       TypeOK, StepType
  <2>3. Good' = Good
    BY <1>2, SameGood DEF CreateClient, Raise
  <2> QED
    BY <2>1, <2>2, <2>3, SameSuite, QuietStep
<1>3. CASE CloseClient
  <2>1. UNCHANGED <<item, route, seen, charged, snapshots>> /\ (tunnel' => tunnel)
    BY <1>3 DEF CloseClient, Raise
  <2>2. InProxyCase' => /\ InProxyCase /\ pc' = pc + 1 /\ pc \notin {3, 5, 6, 7, 10} /\ ~running'
                        /\ (pc = 9 => ~tunnel')
    BY <1>3, SameSuite, ProxyPlaces DEF CloseClient, Raise, Doing, InProxyCase, Flow,
       TypeOK, StepType
  <2>3. Good' = Good
    BY <1>3, SameGood DEF CloseClient, Raise
  <2> QED
    BY <2>1, <2>2, <2>3, SameSuite, QuietStep
<1>4. CASE OtherStep
  <2>1. UNCHANGED <<item, route, seen, charged, snapshots>> /\ (tunnel' => tunnel)
    BY <1>4 DEF OtherStep, Raise
  <2>2. InProxyCase' => /\ InProxyCase /\ pc' = pc + 1 /\ pc \notin {3, 5, 6, 7, 10} /\ ~running'
                        /\ (pc = 9 => ~tunnel')
    BY <1>4, SameSuite, ProxyPlaces DEF OtherStep, Raise, Doing, InProxyCase, Flow,
       TypeOK, StepType
  <2>3. Good' = Good
    BY <1>4, SameGood DEF OtherStep, Raise
  <2> QED
    BY <2>1, <2>2, <2>3, SameSuite, QuietStep
<1>5. CASE RecoveryCheck
  <2>1. UNCHANGED <<item, route, seen, charged, snapshots>> /\ (tunnel' => tunnel)
    BY <1>5 DEF RecoveryCheck
  <2>2. InProxyCase' => /\ InProxyCase /\ pc' = pc + 1 /\ pc \notin {3, 5, 6, 7, 10} /\ ~running'
                        /\ (pc = 9 => ~tunnel')
    BY <1>5, SameSuite, ProxyPlaces DEF RecoveryCheck, Doing, InProxyCase, Flow, TypeOK,
       StepType
  <2>3. Good' = Good
    BY <1>5, SameGood DEF RecoveryCheck
  <2> QED
    BY <2>1, <2>2, <2>3, SameSuite, QuietStep
<1>6. CASE BeginLoad
  <2> SUFFICES ASSUME InProxyCase' PROVE Window'
    BY DEF Window, Snapshots, Growing, Charged, Tunnelled, Seen
  <2>1. /\ UNCHANGED <<suite, item, route, seen, charged, snapshots, tunnel, pc, raised>>
        /\ (pc = 6 => left' = Requests /\ busy' = 0 /\ tally'.errors = 0) /\ InProxyCase
    BY <1>6, SameSuite, ProxyPlaces DEF BeginLoad, InProxyCase, NoTally, Flow, TypeOK,
       StepType
  <2>2. pc = 6 => Good' = 0
    BY <2>1, ConstantFact DEF Good
  <2>3. pc \in {4, 6}
    BY <1>6, <2>1, ProxyPlaces DEF BeginLoad, InLoad, InProxyCase, TypeOK, StepType
  <2>4. Snapshots' /\ Growing' /\ Charged'
    BY <2>1, SameCounter DEF Window, Snapshots, Growing, Charged, Kinds
  <2>5. Tunnelled'
    BY <2>1, <2>2, <2>3, SameCounter DEF Window, Tunnelled, Kinds
  <2>6. Seen'
    BY <2>1, <2>2, <2>3, SameCounter, CounterNat DEF Window, Growing, Seen, Kinds
  <2> QED
    BY <2>4, <2>5, <2>6 DEF Window
<1>7. CASE TakeRequest
  <2>1. /\ UNCHANGED <<item, route, seen, charged, snapshots, tunnel, pc, raised, running, tally>>
        /\ left > 0 /\ left' = left - 1 /\ busy' = busy + 1
    BY <1>7 DEF TakeRequest
  <2>2. Good' = Good
    BY <2>1, GoodFact DEF Good
  <2> QED
    BY <2>1, <2>2, SameSuite, QuietStep DEF InProxyCase
<1>8. CASE EndLoad
  <2>1. UNCHANGED <<item, route, seen, charged, snapshots>> /\ (tunnel' => tunnel)
    BY <1>8 DEF EndLoad, Raise
  <2>2. InProxyCase' => /\ InProxyCase /\ pc' = pc + 1 /\ pc \notin {3, 5, 7, 10} /\ ~running' /\ (pc = 6 => running)
                        /\ (pc = 9 => ~tunnel')
    BY <1>8, SameSuite, ProxyPlaces DEF EndLoad, Raise, Doing, InProxyCase, Flow,
       TypeOK, StepType
  <2>3. Good' = Good
    BY <1>8, SameGood DEF EndLoad, Raise
  <2> QED
    BY <2>1, <2>2, <2>3, SameSuite, QuietStep
<1>9. CASE OneUpstreamRequest
  <2>1. suite # "proxy"
    BY <1>9 DEF OneUpstreamRequest
  <2> QED
    BY <2>1, SameSuite DEF Window, Snapshots, Growing, Charged, Tunnelled, Seen,
       InProxyCase
<1>10. CASE ResourceRequest
  <2>1. suite # "proxy"
    BY <1>10 DEF ResourceRequest
  <2> QED
    BY <2>1, SameSuite DEF Window, Snapshots, Growing, Charged, Tunnelled, Seen,
       InProxyCase
<1>11. CASE BuilderIteration
  <2>1. suite # "proxy"
    BY <1>11 DEF BuilderIteration
  <2> QED
    BY <2>1, SameSuite DEF Window, Snapshots, Growing, Charged, Tunnelled, Seen,
       InProxyCase
<1>12. CASE StreamRequest
  <2>1. suite # "proxy"
    BY <1>12 DEF StreamRequest
  <2> QED
    BY <2>1, SameSuite DEF Window, Snapshots, Growing, Charged, Tunnelled, Seen,
       InProxyCase
<1>13. CASE ProxyRequest
  <2> SUFFICES ASSUME InProxyCase' PROVE Window'
    BY DEF Window, Snapshots, Growing, Charged, Tunnelled, Seen
  <2>1. /\ UNCHANGED <<suite, item, route, charged, raised, running, left, snapshots, pc>>
        /\ InProxyCase /\ running /\ busy' = busy - 1
    BY <1>13, SameSuite DEF ProxyRequest, ReadByProxy, GivenUp, NotRead, Counted,
       InProxyCase
  <2>2. pc \in {4, 6} /\ Len(snapshots) = Taken(pc)
    BY <2>1, ProxyPlaces DEF Flow, Window, Snapshots, InProxyCase, TypeOK, StepType
  <2>3. \A e \in {0, 1} : Counted(e) => Good' = Good + 1 - e
    <3> SUFFICES ASSUME NEW e \in {0, 1}, Counted(e) PROVE Good' = Good + 1 - e
      OBVIOUS
    <3>1. tally'.errors = tally.errors + e
      BY DEF Counted, TypeOK, TallyType
    <3> QED
      BY <2>1, <3>1, GoodFact DEF Good
  <2>4. Snapshots'
    BY <2>1 DEF Window, Snapshots
  <2>5. PICK n \in {1, 2} : n = Len(snapshots) /\ (pc = 6 => n = 2)
    BY <2>2 DEF Taken
  <2>6. /\ seen["connect"] >= Counter(1, "connect") /\ Counter(4, "connect") = seen["connect"]
        /\ Counter(1, "connect") \in Nat /\ seen["connect"] \in Nat
    <3>1. Counter(4, "connect") = seen["connect"]
      BY <2>5 DEF Counter
    <3>2. /\ Counter(1, "connect") <= Counter(2, "connect") /\ Counter(2, "connect") <= Counter(3, "connect")
          /\ Counter(3, "connect") <= Counter(4, "connect")
      BY <2>1, CounterNat DEF Window, Growing
    <3>3. /\ Counter(1, "connect") \in Nat /\ Counter(2, "connect") \in Nat
          /\ Counter(3, "connect") \in Nat /\ Counter(4, "connect") \in Nat /\ seen["connect"] \in Nat
      BY CounterNat
    <3> QED
      BY <3>1, <3>2, <3>3
  <2>7. CASE ReadByProxy
    <3>1. PICK e \in {0, 1} : Counted(e) /\ tunnel' = ReusableTunnel(e = 0)
      BY <2>7 DEF ReadByProxy
    <3>2. PICK j \in Kinds : j = Kind /\ seen' = [seen EXCEPT ![j] = @ + 1] /\ Reaches
      BY <2>7, KindFact DEF ReadByProxy
    <3>3. /\ \A i \in 1 .. 4 : Counter(i, j)' = IF Len(snapshots) < i THEN Counter(i, j) + 1 ELSE Counter(i, j)
          /\ \A i \in 1 .. 4, k \in Kinds : k # j => Counter(i, k)' = Counter(i, k)
          /\ seen'[j] = seen[j] + 1
          /\ \A k \in Kinds : k # j => seen'[k] = seen[k]
      BY <2>1, <3>2, ReadCounter
    <3>4. Growing'
      BY <2>1, <3>2, ReadGrowing DEF Window
    <3>5. Charged'
      <4>1. route' = "proxy" /\ Len(snapshots') = n /\ n # 0
        BY <2>1, <2>5, <3>2 DEF Reaches
      <4> QED
        BY <4>1 DEF Charged
    <3>6. /\ Counter(1, "connect")' = Counter(1, "connect")
          /\ j # "connect" => /\ seen'["connect"] = seen["connect"]
                              /\ Counter(4, "connect")' = Counter(4, "connect")
          /\ j = "connect" => /\ seen'["connect"] = seen["connect"] + 1
                              /\ Counter(4, "connect")' = Counter(4, "connect") + 1
      <4>1. ~(n < 1) /\ n < 4 /\ n = Len(snapshots)
        BY <2>5
      <4>2. CASE j = "connect"
        BY <3>3, <4>1, <4>2
      <4>3. CASE j # "connect"
        BY <3>3, <4>3, CounterNat
      <4> QED
        BY <4>2, <4>3
    <3>7. item.scheme = "https" => j = "connect"
      BY <3>2 DEF Kind
    <3>8. tunnel' => Counter(1, "connect")' < seen'["connect"] /\ route = "proxy"
      <4>1. tunnel => Counter(1, "connect") < seen["connect"] /\ route = "proxy"
        BY <2>1 DEF Window, Tunnelled
      <4>2. tunnel' => tunnel \/ (item.scheme = "https" /\ route = "proxy")
        BY <3>1 DEF ReusableTunnel
      <4>3. tunnel => Counter(1, "connect")' < seen'["connect"]
        BY <2>6, <3>6, <4>1
      <4>4. item.scheme = "https" => Counter(1, "connect")' < seen'["connect"]
        BY <2>6, <3>6, <3>7
      <4> QED
        BY <4>1, <4>2, <4>3, <4>4
    <3>9. item.scheme = "https" => Counter(1, "connect")' < Counter(4, "connect")'
      BY <2>6, <3>6, <3>7
    <3>10. Tunnelled'
      BY <2>1, <2>2, <3>8, <3>9 DEF Tunnelled
    <3>11. Seen'
      <4> SUFFICES ASSUME item.scheme = "http", pc = 6, route = "proxy"
                   PROVE  Counter(2, "http")' + Good' <= Counter(3, "http")'
        BY <2>1, <2>2 DEF Seen
      <4>1. Counter(2, "http") + Good <= Counter(3, "http")
        BY <2>1 DEF Window, Seen
      <4>2. Counter(2, "http")' = Counter(2, "http") /\ Counter(3, "http")' = Counter(3, "http") + 1
        <5>1. j = "http"
          BY <3>2 DEF Kind
        <5>2. ~(n < 2) /\ n < 3 /\ n = Len(snapshots)
          BY <2>5
        <5> QED
          BY <3>3, <5>1, <5>2
      <4>3. Good' \in Int /\ Good' <= Good + 1
        BY <2>3, <3>1, GoodFact
      <4>4. Counter(2, "http") \in Nat /\ Counter(3, "http") \in Nat /\ Good \in Int
        BY CounterNat, GoodFact
      <4> QED
        BY <4>1, <4>2, <4>3, <4>4
    <3> QED
      BY <2>4, <3>4, <3>5, <3>10, <3>11 DEF Window
  <2>8. CASE GivenUp \/ NotRead
    <3>1. UNCHANGED <<seen, tunnel>>
      BY <2>8 DEF GivenUp, NotRead
    <3>2. \A i \in 1 .. 4, k \in Kinds : Counter(i, k)' = Counter(i, k)
      BY <2>1, <3>1, SameCounter
    <3>3. Good' = Good \/ (Good' = Good + 1 /\ ~Reaches)
      <4>1. Counted(1) \/ (~Reaches /\ Counted(0))
        BY <2>8 DEF GivenUp, NotRead
      <4>2. Good \in Int
        BY GoodFact
      <4> QED
        BY <2>3, <4>1, <4>2
    <3>4. Growing' /\ Charged'
      BY <2>1, <3>2 DEF Window, Growing, Charged, Kinds
    <3>5. Tunnelled'
      <4>1. tunnel => pc \in 4 .. 9 /\ route = "proxy" /\ Counter(1, "connect") < seen["connect"]
        BY <2>1 DEF Window, Tunnelled
      <4>2. route = "proxy" /\ item.scheme = "https" /\ ~Reaches => tunnel
        BY DEF Reaches
      <4>3. route = "proxy" /\ item.scheme = "https" /\ pc = 6 /\ Good' > 0 =>
              Counter(1, "connect") < Counter(4, "connect")
        BY <2>1, <2>6, <3>3, <4>1, <4>2 DEF Window, Tunnelled
      <4> QED
        <5>1. Counter(1, "connect")' = Counter(1, "connect") /\ Counter(4, "connect")' = Counter(4, "connect")
          BY <3>2, CounterNat
        <5> QED
          BY <2>1, <2>2, <3>1, <4>1, <4>3, <5>1 DEF Tunnelled
    <3>6. Seen'
      <4>1. route = "proxy" /\ item.scheme = "http" => Reaches
        BY DEF Reaches
      <4> QED
        BY <2>1, <2>2, <3>2, <3>3, <4>1 DEF Window, Seen, Kinds
    <3> QED
      BY <2>4, <3>4, <3>5, <3>6 DEF Window
  <2> QED
    BY <1>13, <2>7, <2>8 DEF ProxyRequest
<1>14. CASE MakeClient
  <2>1. suite # "proxy"
    BY <1>14, OperationFact DEF MakeClient, Operating
  <2> QED
    BY <2>1, SameSuite DEF Window, Snapshots, Growing, Charged, Tunnelled, Seen,
       InProxyCase
<1>15. CASE UseClient
  <2>1. suite # "proxy"
    BY <1>15, OperationFact DEF UseClient, Operating
  <2> QED
    BY <2>1, SameSuite DEF Window, Snapshots, Growing, Charged, Tunnelled, Seen,
       InProxyCase
<1>16. CASE CloseClients
  <2>1. suite # "proxy"
    BY <1>16, OperationFact DEF CloseClients, Operating
  <2> QED
    BY <2>1, SameSuite DEF Window, Snapshots, Growing, Charged, Tunnelled, Seen,
       InProxyCase
<1>17. CASE SetEnvironment
  <2>1. UNCHANGED <<item, route, seen, charged, snapshots>> /\ (tunnel' => tunnel)
    BY <1>17 DEF SetEnvironment
  <2>2. InProxyCase' => /\ InProxyCase /\ pc' = pc + 1 /\ pc \notin {3, 5, 6, 7, 10} /\ ~running'
                        /\ (pc = 9 => ~tunnel')
    BY <1>17, SameSuite, ProxyPlaces DEF SetEnvironment, Doing, InProxyCase, Flow,
       TypeOK, StepType
  <2>3. Good' = Good
    BY <1>17, SameGood DEF SetEnvironment
  <2> QED
    BY <2>1, <2>2, <2>3, SameSuite, QuietStep
<1>18. CASE RestoreEnvironment
  <2>1. UNCHANGED <<item, route, seen, charged, snapshots>> /\ (tunnel' => tunnel)
    BY <1>18 DEF RestoreEnvironment
  <2>2. InProxyCase' => /\ InProxyCase /\ pc' = pc + 1 /\ pc \notin {3, 5, 6, 7, 10} /\ ~running'
                        /\ (pc = 9 => ~tunnel')
    BY <1>18, SameSuite, ProxyPlaces DEF RestoreEnvironment, Doing, InProxyCase, Flow,
       TypeOK, StepType
  <2>3. Good' = Good
    BY <1>18, SameGood DEF RestoreEnvironment
  <2> QED
    BY <2>1, <2>2, <2>3, SameSuite, QuietStep
<1>19. CASE Snapshot
  <2> SUFFICES ASSUME InProxyCase' PROVE Window'
    BY DEF Window, Snapshots, Growing, Charged, Tunnelled, Seen
  <2>1. PICK step \in SnapshotSteps :
          Doing(step) /\ snapshots' = Append(snapshots, [at |-> step, seen |-> seen])
    BY <1>19 DEF Snapshot
  <2>2. /\ UNCHANGED <<suite, item, route, seen, charged, tunnel, raised, running, left, busy, tally>>
        /\ pc' = pc + 1 /\ InProxyCase
    <3>1. UNCHANGED <<suite, item, route, seen, charged, tunnel, raised, running, left, busy, tally>> /\ pc' = pc + 1
      BY <1>19, SameSuite DEF Snapshot
    <3>2. pc > 0
      BY <2>1, NumberFact, StepFact DEF Doing
    <3> QED
      BY <3>1, <3>2 DEF InProxyCase
  <2>3. ~running /\ Good' = Good
    BY <2>1, <2>2, StepFact, SameGood DEF Doing, SnapshotSteps, Flow
  <2>4. \/ pc = 3 /\ step = "start"
        \/ pc = 5 /\ step = "measured-start"
        \/ pc = 7 /\ step = "measured-end"
        \/ pc = 10 /\ step = "total-end"
    <3>1. suite = "proxy" /\ At(step) /\ pc \in Nat
      BY <2>1, <2>2 DEF Doing, InProxyCase, TypeOK, StepType
    <3>2. CASE step = "start"
      BY <3>1, <3>2, ProxyPlaces
    <3>3. CASE step = "measured-start"
      BY <3>1, <3>3, ProxyPlaces
    <3>4. CASE step = "measured-end"
      BY <3>1, <3>4, ProxyPlaces
    <3>5. CASE step = "total-end"
      BY <3>1, <3>5, ProxyPlaces
    <3> QED
      BY <3>2, <3>3, <3>4, <3>5 DEF SnapshotSteps
  <2>5. Len(snapshots) = Taken(pc)
    BY <2>2 DEF Window, Snapshots
  <2>6. /\ Len(snapshots') = Len(snapshots) + 1
        /\ snapshots'[Len(snapshots) + 1].at = step
        /\ \A i \in 1 .. Len(snapshots) : snapshots'[i] = snapshots[i]
    <3> DEFINE new == [at |-> step, seen |-> seen]
    <3>1. new \in [at : SnapshotSteps, seen : Counters] /\ new.at = step
      BY DEF TypeOK, CounterType
    <3>2. snapshots \in Seq([at : SnapshotSteps, seen : Counters])
      BY DEF TypeOK, SnapshotType
    <3> HIDE DEF new
    <3>3. snapshots' = Append(snapshots, new)
      BY <2>1 DEF new
    <3> QED
      BY <3>1, <3>2, <3>3
  <2>7. Snapshots'
    <3>1. CASE pc = 3
      BY <2>2, <2>4, <2>5, <2>6, <3>1 DEF Snapshots, Taken
    <3>2. CASE pc = 5
      BY <2>2, <2>4, <2>5, <2>6, <3>2 DEF Window, Snapshots, Taken
    <3>3. CASE pc = 7
      BY <2>2, <2>4, <2>5, <2>6, <3>3 DEF Window, Snapshots, Taken
    <3>4. CASE pc = 10
      BY <2>2, <2>4, <2>5, <2>6, <3>4 DEF Window, Snapshots, Taken
    <3> QED
      BY <2>4, <3>1, <3>2, <3>3, <3>4
  <2>8. \A i \in 1 .. 4, k \in Kinds : Counter(i, k)' = Counter(i, k)
    BY <2>1, <2>2, TakenCounter
  <2>9. Growing' /\ Charged'
    BY <2>2, <2>4, <2>5, <2>6, <2>8 DEF Window, Growing, Charged, Kinds, Taken
  <2>10. Tunnelled'
    BY <2>2, <2>3, <2>4, <2>8 DEF Window, Tunnelled, Kinds
  <2>11. Seen'
    BY <2>2, <2>3, <2>4, <2>8 DEF Window, Seen, Kinds
  <2> QED
    BY <2>7, <2>9, <2>10, <2>11 DEF Window
<1>20. CASE ReadLate
  <2> SUFFICES ASSUME InProxyCase' PROVE Window'
    BY DEF Window, Snapshots, Growing, Charged, Tunnelled, Seen
  <2>1. PICK j \in Kinds :
          /\ seen' = [seen EXCEPT ![j] = @ + 1]
          /\ charged' = IF InWindow THEN [charged EXCEPT ![j] = @ + 1] ELSE charged
    BY <1>20 DEF ReadLate, Kinds
  <2>2. UNCHANGED <<suite, item, route, tunnel, raised, running, left, busy, tally, snapshots, pc>> /\ InProxyCase
    BY <1>20, SameSuite DEF ReadLate, InProxyCase
  <2>3. Good' = Good /\ pc \in Nat
    BY <2>2, SameGood DEF TypeOK, StepType
  <2>4. Len(snapshots) = Taken(pc)
    BY <2>2 DEF Window, Snapshots
  <2>5. InWindow <=> Len(snapshots) \in 1 .. 3
    <3>1. snapshots \in Seq([at : SnapshotSteps, seen : Counters])
      BY DEF TypeOK, SnapshotType
    <3>2. snapshots # << >> <=> Len(snapshots) # 0
      BY <3>1
    <3>3. Len(snapshots) \in 0 .. 4
      BY <2>4 DEF Taken
    <3>4. Len(snapshots) # 0 => (snapshots[Len(snapshots)].at # "total-end" <=> Len(snapshots) # 4)
      BY <2>2, <3>3 DEF Window, Snapshots
    <3>5. CASE Len(snapshots) = 0
      BY <3>2, <3>5 DEF InWindow
    <3>6. CASE Len(snapshots) # 0
      <4>1. InWindow <=> Len(snapshots) # 4
        BY <3>2, <3>4, <3>6 DEF InWindow
      <4>2. PICK n \in 0 .. 4 : n = Len(snapshots)
        BY <3>3
      <4> QED
        BY <3>6, <4>1, <4>2
    <3> QED
      BY <3>5, <3>6
  <2>6. /\ \A i \in 1 .. 4 : Counter(i, j)' = IF Len(snapshots) < i THEN Counter(i, j) + 1 ELSE Counter(i, j)
        /\ \A i \in 1 .. 4, k \in Kinds : k # j => Counter(i, k)' = Counter(i, k)
    BY <2>1, <2>2, ReadCounter
  <2>7. /\ charged'[j] = IF InWindow THEN charged[j] + 1 ELSE charged[j]
        /\ \A k \in Kinds : k # j => charged'[k] = charged[k]
    BY <2>1, CounterFact DEF TypeOK, CounterType
  <2>8. Len(snapshots) \in 0 .. 4 /\ (pc >= 4 => Len(snapshots) >= 1) /\ (pc >= 6 => Len(snapshots) >= 2)
    BY <2>3, <2>4 DEF Taken
  <2>9. Snapshots'
    BY <2>2 DEF Window, Snapshots
  <2>10. Growing'
    BY <2>1, <2>2, ReadGrowing DEF Window
  <2>11. Charged'
    <3>1. Len(snapshots) = 0 => \A k \in Kinds : charged'[k] = 0
      BY <2>1, <2>2, <2>5 DEF Window, Charged
    <3>2. ASSUME route = "direct", NEW k \in Kinds
          PROVE  Counter(4, k)' = Counter(1, k)' + charged'[k]
      <4>1. Counter(4, k) = Counter(1, k) + charged[k]
        BY <2>2, <3>2 DEF Window, Charged
      <4>2. CASE k = j
        <5>1. /\ Counter(1, k)' = IF Len(snapshots) < 1 THEN Counter(1, k) + 1 ELSE Counter(1, k)
              /\ Counter(4, k)' = IF Len(snapshots) < 4 THEN Counter(4, k) + 1 ELSE Counter(4, k)
          BY <2>6, <4>2, CounterNat
        <5>2. charged'[k] = IF Len(snapshots) \in 1 .. 3 THEN charged[k] + 1 ELSE charged[k]
          BY <2>5, <2>7, <4>2
        <5>3. Counter(1, k) \in Nat /\ Counter(4, k) \in Nat /\ charged[k] \in Nat
          BY CounterNat
        <5>4. PICK n \in 0 .. 4 : n = Len(snapshots)
          BY <2>8
        <5>5. /\ Counter(1, k)' = IF n < 1 THEN Counter(1, k) + 1 ELSE Counter(1, k)
              /\ Counter(4, k)' = IF n < 4 THEN Counter(4, k) + 1 ELSE Counter(4, k)
              /\ charged'[k] = IF n \in 1 .. 3 THEN charged[k] + 1 ELSE charged[k]
          BY <5>1, <5>2, <5>4
        <5> QED
          BY <4>1, <5>3, <5>5
      <4>3. CASE k # j
        <5>1. /\ Counter(1, k)' = Counter(1, k) /\ Counter(4, k)' = Counter(4, k)
              /\ charged'[k] = charged[k]
          BY <2>6, <2>7, <4>3, CounterNat
        <5> QED
          BY <4>1, <5>1
      <4> QED
        BY <4>2, <4>3
    <3> QED
      BY <2>2, <3>1, <3>2 DEF Charged
  <2>12. seen["connect"] \in Nat /\ seen'["connect"] \in Nat /\ seen'["connect"] >= seen["connect"]
    <3>1. seen'["connect"] = seen["connect"] + 1 \/ seen'["connect"] = seen["connect"]
      BY <2>1, <2>2, ReadCounter, CounterNat
    <3>2. seen["connect"] \in Nat
      BY CounterNat
    <3> QED
      BY <3>1, <3>2
  <2>13. Tunnelled'
    <3> DEFINE k == "connect"
    <3>1. pc >= 4 => Counter(1, k)' = Counter(1, k)
      BY <2>6, <2>8, CounterNat
    <3>2. Counter(4, k)' = Counter(4, k) \/ Counter(4, k)' = Counter(4, k) + 1
      BY <2>6, CounterNat
    <3>3. Counter(1, k) \in Nat /\ Counter(4, k) \in Nat
      BY CounterNat
    <3>4. tunnel => pc \in 4 .. 9 /\ route = "proxy" /\ Counter(1, k) < seen[k]
      BY <2>2 DEF Window, Tunnelled
    <3>5. route = "proxy" /\ item.scheme = "https" /\ (pc > 6 \/ (pc = 6 /\ running)) /\ Good > 0 =>
            Counter(1, k) < Counter(4, k)
      BY <2>2 DEF Window, Tunnelled
    <3>6. tunnel => Counter(1, k)' < seen'[k]
      BY <2>12, <3>1, <3>3, <3>4
    <3>7. pc >= 6 /\ Counter(1, k) < Counter(4, k) => Counter(1, k)' < Counter(4, k)'
      BY <2>3, <3>1, <3>2, <3>3
    <3> QED
      BY <2>2, <2>3, <3>4, <3>5, <3>6, <3>7 DEF Tunnelled
  <2>14. Seen'
    <3> DEFINE k == "http"
    <3>1. pc >= 6 => Counter(2, k)' = Counter(2, k)
      BY <2>6, <2>8, CounterNat
    <3>2. Counter(3, k)' = Counter(3, k) \/ Counter(3, k)' = Counter(3, k) + 1
      BY <2>6, CounterNat
    <3>3. Counter(2, k) \in Nat /\ Counter(3, k) \in Nat /\ Good \in Int
      BY CounterNat, GoodFact
    <3>4. route = "proxy" /\ item.scheme = "http" /\ (pc > 6 \/ (pc = 6 /\ running)) =>
            Counter(2, k) + Good <= Counter(3, k)
      BY <2>2 DEF Window, Seen
    <3>5. pc >= 6 /\ Counter(2, k) + Good <= Counter(3, k) => Counter(2, k)' + Good' <= Counter(3, k)'
      BY <2>3, <3>1, <3>2, <3>3
    <3> QED
      BY <2>2, <2>3, <3>4, <3>5 DEF Seen
  <2> QED
    BY <2>9, <2>10, <2>11, <2>13, <2>14 DEF Window
<1>21. CASE Report
  <2>1. UNCHANGED <<item, route, seen, charged, snapshots>> /\ (tunnel' => tunnel)
    BY <1>21 DEF Report
  <2>2. InProxyCase' => /\ InProxyCase /\ pc' = pc + 1 /\ pc \notin {3, 5, 6, 7, 10} /\ ~running'
                        /\ (pc = 9 => ~tunnel')
    BY <1>21, SameSuite, ProxyPlaces DEF Report, Doing, InProxyCase, Flow, TypeOK,
       StepType
  <2>3. Good' = Good
    BY <1>21, SameGood DEF Report
  <2> QED
    BY <2>1, <2>2, <2>3, SameSuite, QuietStep
<1>22. CASE NextCase
  <2> SUFFICES ASSUME InProxyCase' PROVE Window'
    BY DEF Window, Snapshots, Growing, Charged, Tunnelled, Seen
  <2>1. /\ suite = "proxy" /\ pc = 13 /\ pc' = 1 /\ ~raised /\ ~running /\ snapshots' = << >>
        /\ charged' = Zero /\ UNCHANGED <<seen, tunnel>>
    <3>1. suite = "proxy" /\ ~raised' /\ pc' # 0
      BY SameSuite DEF InProxyCase
    <3>2. /\ pc = Len(Program) + 1 /\ pc' = 1 /\ raised' = raised /\ snapshots' = << >>
          /\ charged' = Zero /\ UNCHANGED <<seen, tunnel>>
      BY <1>22, <3>1 DEF NextCase
    <3>3. pc \in Nat
      BY DEF TypeOK, StepType
    <3>4. pc = 13 /\ pc \notin Loads
      <4>1. Len(Program) = 12 /\ Loads = {4, 6}
        BY <3>1, <3>3, ProxyPlaces
      <4> QED
        BY <3>2, <4>1
    <3> QED
      BY <3>1, <3>2, <3>4 DEF Flow
  <2>2. ~tunnel
    BY <2>1 DEF Window, Tunnelled, InProxyCase
  <2>3. Len(snapshots') = 0
    BY <2>1
  <2>4. \A i \in 1 .. 4, k \in Kinds : Counter(i, k)' = seen[k] /\ seen[k] \in Nat
    BY <2>1, <2>3, CounterNat DEF Counter
  <2>5. Snapshots'
    BY <2>1, <2>3 DEF Snapshots, Taken
  <2>6. Growing' /\ Charged'
    BY <2>1, <2>4 DEF Growing, Charged, Zero, Kinds
  <2>7. Tunnelled' /\ Seen'
    BY <2>1, <2>2 DEF Tunnelled, Seen
  <2> QED
    BY <2>5, <2>6, <2>7 DEF Window
<1>23. CASE UNCHANGED vars
  <2>1. UNCHANGED <<item, route, seen, charged, snapshots, tunnel, pc, raised, running, left, busy, tally>>
    BY <1>23 DEF vars
  <2> QED
    BY <2>1, SameSuite, SameGood, QuietStep DEF InProxyCase
<1> QED
  BY <1>1, <1>2, <1>3, <1>4, <1>5, <1>6, <1>7, <1>8, <1>9, <1>10, <1>11, <1>12, <1>13,
     <1>14, <1>15, <1>16, <1>17, <1>18, <1>19, <1>20, <1>21, <1>22, <1>23, StepCases

(***************************************************************************)
(* The invariant, and what a result says of its case.                       *)
(***************************************************************************)
\* A suite starts with its first case, and nothing counted or read.
LEMMA InvInit == ASSUME Init PROVE Inv
<1>1. suite \in SuiteNames /\ pc = 1 /\ snapshots = << >> /\ Len(snapshots) = 0
  BY ConstantFact DEF Init
<1>2. TypeOK
  <2>1. PlanType /\ StepType
    BY <1>1 DEF Init, PlanType, StepType
  <2>5. FlagType /\ LoadType
    BY DEF Init, FlagType, LoadType
  <2>2. TallyType
    BY DEF Init, NoTally, TallyType
  <2>3. CounterType
    BY DEF Init, Zero, Counters, CounterType
  <2>4. SnapshotType
    <3>1. ASSUME NEW S PROVE << >> \in Seq(S)
      OBVIOUS
    <3> QED
      BY <1>1, <3>1 DEF SnapshotType
  <2> QED
    BY <2>1, <2>2, <2>3, <2>4, <2>5 DEF TypeOK
<1>3. Flow
  BY <1>2, NumberFact DEF Init, Flow
<1>4. Kept /\ Environment /\ Bodies
  BY DEF Init, Kept, Environment, Bodies
<1>5. Creation
  <2>1. open = 0 /\ tally.errors = 0 /\ busy = 0 /\ ~running
    BY DEF Init, NoTally
  <2>2. OperationErrorLimit \in Nat
    BY ConstantFact DEF OperationErrorLimit
  <2> QED
    BY <2>1, <2>2 DEF Creation
<1>6. Window
  <2>1. \A i \in 1 .. 4, k \in Kinds : Counter(i, k) = 0
    BY <1>1 DEF Init, Counter, Zero, Kinds
  <2>2. \A k \in Kinds : charged[k] = 0
    BY DEF Init, Zero, Kinds
  <2>3. Snapshots
    BY <1>1 DEF Snapshots, Taken
  <2>4. 1 \in 1 .. 4 /\ 2 \in 1 .. 4 /\ 3 \in 1 .. 4 /\ 4 \in 1 .. 4
    OBVIOUS
  <2>5. Growing /\ Charged
    BY <2>1, <2>2, <2>4 DEF Growing, Charged
  <2>6. Tunnelled /\ Seen
    BY DEF Init, Tunnelled, Seen
  <2> QED
    BY <2>3, <2>5, <2>6 DEF Window
<1> QED
  BY <1>2, <1>3, <1>4, <1>5, <1>6 DEF Inv

\* Every step preserves it, part by part.
LEMMA InvStep == ASSUME Inv, [Next]_vars PROVE Inv'
<1>1. TypeOK /\ Flow /\ Kept /\ Environment /\ Creation /\ Bodies /\ Window
  BY DEF Inv
<1>2. TypeOK' /\ Flow' /\ Kept'
  BY <1>1, TypeOKStep, FlowStep, KeptStep
<1>3. Environment' /\ Creation' /\ Bodies' /\ Window'
  BY <1>1, EnvironmentStep, CreationStep, BodiesStep, WindowStep
<1> QED
  BY <1>2, <1>3 DEF Inv

\* The invariant holds in every state of every suite.
THEOREM Invariance == Spec => []Inv
<1>1. Init => Inv
  BY InvInit
<1>2. Inv /\ [Next]_vars => Inv'
  BY InvStep
<1> QED
  BY <1>1, <1>2, PTL DEF Spec

\* Every variable of a suite keeps its type, whatever raises.
THEOREM TypeCorrect == Spec => []TypeOK
<1>1. Inv => TypeOK
  BY DEF Inv
<1> QED
  BY <1>1, Invariance, PTL

\* A case that has a result has come to its end, its load is over, and the
\* result is what was counted.
LEMMA Reported ==
  ASSUME Inv, result # Unreported
  PROVE  /\ ~running /\ left = 0 /\ busy = 0 /\ pc > 0
         /\ suite # "one-upstream" => pc = End /\ ~raised
         /\ result.good = Requests - tally.errors /\ result.verified = tally.verified
         /\ suite = "proxy" => result.usage = ProxyUsageError
         /\ suite # "proxy" => result.errors = tally.errors /\ result.ok = Requests - tally.errors
<1>1. TypeOK /\ Flow /\ Kept
  BY DEF Inv
<1>2. pc \in Nat /\ End \in {3, 6, 7, 8, 13} /\ (pc \in Loads => pc \in 1 .. 6 /\ pc < End)
  BY <1>1, NumberFact
<1>3. IF suite = "one-upstream" THEN pc \in {7, 8} ELSE pc = End /\ ~raised
  BY <1>1 DEF Flow
<1>4. pc > 0 /\ pc \notin Loads
  BY <1>2, <1>3
<1>5. ~running /\ left = 0 /\ busy = 0
  BY <1>1, <1>4 DEF Flow
<1>6. result = Result
  BY <1>1 DEF Kept
<1>7. result.good = Requests - tally.errors /\ result.verified = tally.verified
  BY <1>6 DEF Result
<1>8. suite = "proxy" => result.usage = ProxyUsageError
  BY <1>6 DEF Result
<1>9. suite # "proxy" => result.errors = tally.errors /\ result.ok = Requests - tally.errors
  BY <1>1, <1>6, GoodFact DEF Result
<1> QED
  BY <1>3, <1>4, <1>5, <1>7, <1>8, <1>9

\* Clients are made in the environment of their own case, also after an earlier
\* case was left by an exception, and the process ends in its first one.
THEOREM EnvironmentOfCases == Spec => []EnvironmentIsTheCases
<1>1. Inv => EnvironmentIsTheCases
  <2> SUFFICES ASSUME Inv PROVE EnvironmentIsTheCases
    OBVIOUS
  <2>1. Environment /\ open \in Nat /\ pc \in Nat
    BY DEF Inv, TypeOK, StepType
  <2>2. CASE suite # "proxy"
    BY <2>1, <2>2 DEF Environment, EnvironmentIsTheCases
  <2>3. CASE suite = "proxy"
    <3>1. open > 0 => pc \in 2 .. 11
      BY <2>1, <2>3 DEF Environment
    <3> QED
      BY <2>1, <2>3, <3>1 DEF Environment, EnvironmentIsTheCases
  <2> QED
    BY <2>2, <2>3
<1> QED
  BY <1>1, Invariance, PTL

\* Every client a creation operation leaves open is counted as an error.
THEOREM LeaksAreCounted == Spec => []NoUncountedLeak
<1>1. Inv => NoUncountedLeak
  <2> SUFFICES ASSUME Inv, suite = "creation", result # Unreported PROVE open <= result.errors
    BY DEF NoUncountedLeak
  <2>1. busy = 0 /\ pc > 0 /\ result.errors = tally.errors
    BY Reported
  <2>2. open <= tally.errors + busy /\ tally.errors \in Nat
    BY <2>1, GoodFact DEF Inv, Creation
  <2> QED
    BY <2>1, <2>2
<1> QED
  BY <1>1, Invariance, PTL

\* What a streaming case calls verified is the size of every body it calls good,
\* and those bodies came as far as the way they were read can tell: bytes whole
\* and unchanged, text whole, lines up to the beginning of the last one.
THEOREM VerifiedBodies == Spec => []VerifiedAsRead
<1>1. Inv => VerifiedAsRead
  <2> SUFFICES ASSUME Inv, suite = "streaming", result # Unreported, item.consume = "all"
               PROVE  /\ result.verified = Size * result.good
                      /\ item.read = "bytes" => result.good <= tally.intact
                      /\ item.read = "text" => result.good <= tally.whole
                      /\ item.read = "lines" => result.good <= tally.begun
    BY DEF VerifiedAsRead
  <2>1. /\ left = 0 /\ busy = 0 /\ pc = End /\ ~raised
        /\ result.good = Requests - tally.errors /\ result.verified = tally.verified
    BY Reported
  <2>2. pc = 7
    BY <2>1 DEF End
  <2>3. Verified
    BY <2>1, <2>2 DEF Inv, Bodies
  <2>4. Good = result.good
    BY <2>1, GoodFact DEF Good, Inv, TallyType
  <2> QED
    BY <2>1, <2>3, <2>4 DEF Verified
<1> QED
  BY <1>1, Invariance, PTL

\* The decoder of reports takes the result of every suite that neither sends
\* through a proxy nor prepares requests.
THEOREM ResultsAreAccepted == Spec => []ResultIsAccepted
<1>1. Inv => ResultIsAccepted
  <2> SUFFICES ASSUME Inv, suite \notin {"proxy", "builder"}, result # Unreported
               PROVE  Accepted(result)
    BY DEF ResultIsAccepted
  <2>1. /\ ~running /\ pc > 0
        /\ result.errors = tally.errors /\ result.ok = Requests - tally.errors
    BY Reported
  <2>2. CASE suite = "creation"
    BY <2>1, <2>2 DEF Inv, Creation, Accepted
  <2>3. CASE suite # "creation"
    <3>1. result.ok + result.errors = Requests
      BY <2>1, GoodFact DEF Inv
    <3> QED
      BY <2>3, <3>1 DEF Accepted
  <2> QED
    BY <2>2, <2>3
<1> QED
  BY <1>1, Invariance, PTL

\* A step of the four that take snapshots is found among those of its case.
LEMMA SeenAtStep ==
  ASSUME NEW step, NEW n \in 1 .. 4, Len(snapshots) = 4, snapshots[n].at = step,
         \A i \in 1 .. 4 : snapshots[i].at = step => i = n
  PROVE  \A k \in Kinds : SeenAt(step)[k] = Counter(n, k)
<1> DEFINE found == CHOOSE i \in 1 .. Len(snapshots) : snapshots[i].at = step
<1>1. found \in 1 .. Len(snapshots) /\ snapshots[found].at = step
  OBVIOUS
<1>2. found = n
  BY <1>1
<1>3. SeenAt(step) = snapshots[n].seen
  BY <1>2 DEF SeenAt
<1>4. \A k \in Kinds : Counter(n, k) = snapshots[n].seen[k]
  BY DEF Counter
<1> QED
  BY <1>3, <1>4

\* What the usage of the proxy is judged by are the counters of the case.
LEMMA Deltas ==
  ASSUME Snapshots, InProxyCase, pc = 13
  PROVE  /\ \A k \in Kinds : ProxyDelta("start", "total-end", k) = Counter(4, k) - Counter(1, k)
         /\ \A k \in Kinds : ProxyDelta("measured-start", "measured-end", k) = Counter(3, k) - Counter(2, k)
<1>1. /\ Len(snapshots) = 4
      /\ snapshots[1].at = "start" /\ snapshots[2].at = "measured-start"
      /\ snapshots[3].at = "measured-end" /\ snapshots[4].at = "total-end"
  BY DEF Snapshots, Taken
<1>2. \A i \in 1 .. 4 : i = 1 \/ i = 2 \/ i = 3 \/ i = 4
  OBVIOUS
<1>3. \A k \in Kinds : SeenAt("start")[k] = Counter(1, k)
  <2>1. \A i \in 1 .. 4 : snapshots[i].at = "start" => i = 1
    BY <1>1, <1>2
  <2> QED
    BY <1>1, <2>1, SeenAtStep
<1>4. \A k \in Kinds : SeenAt("measured-start")[k] = Counter(2, k)
  <2>1. \A i \in 1 .. 4 : snapshots[i].at = "measured-start" => i = 2
    BY <1>1, <1>2
  <2> QED
    BY <1>1, <2>1, SeenAtStep
<1>5. \A k \in Kinds : SeenAt("measured-end")[k] = Counter(3, k)
  <2>1. \A i \in 1 .. 4 : snapshots[i].at = "measured-end" => i = 3
    BY <1>1, <1>2
  <2> QED
    BY <1>1, <2>1, SeenAtStep
<1>6. \A k \in Kinds : SeenAt("total-end")[k] = Counter(4, k)
  <2>1. \A i \in 1 .. 4 : snapshots[i].at = "total-end" => i = 4
    BY <1>1, <1>2
  <2> QED
    BY <1>1, <2>1, SeenAtStep
<1> QED
  BY <1>3, <1>4, <1>5, <1>6 DEF ProxyDelta

\* A bypass of the proxy is missed only when enough requests that had been
\* given up are read meanwhile, and a case all of whose requests matched is
\* never accused without cause.
THEOREM FairUsage == Spec => []UsageIsFair
<1>1. Inv => UsageIsFair
  <2> SUFFICES ASSUME Inv, suite = "proxy", result # Unreported PROVE UsageIsFair
    BY DEF UsageIsFair
  <2>1. TypeOK /\ Snapshots /\ Growing /\ Charged /\ Tunnelled /\ Seen
    BY DEF Inv, Window
  <2>2. /\ left = 0 /\ busy = 0 /\ pc = 13 /\ ~raised
        /\ result.good = Requests - tally.errors /\ result.usage = ProxyUsageError
    BY Reported DEF End
  <2>3. InProxyCase
    BY <2>2 DEF InProxyCase
  <2>4. Good = result.good /\ Good \in Int /\ Requests \in Nat \ {0}
    BY <2>1, <2>2, GoodFact DEF Good
  <2>5. item.scheme \in {"http", "https"} /\ route \in {"direct", "proxy"}
    BY <2>1 DEF TypeOK, PlanType, Cases, Proxied
  <2> DEFINE h(i) == Counter(i, "http")
             c(i) == Counter(i, "connect")
  <2>6. /\ h(1) \in Nat /\ h(2) \in Nat /\ h(3) \in Nat /\ h(4) \in Nat
        /\ c(1) \in Nat /\ c(2) \in Nat /\ c(3) \in Nat /\ c(4) \in Nat
        /\ charged["http"] \in Nat /\ charged["connect"] \in Nat
    BY <2>1, CounterNat
  <2>7. /\ h(1) <= h(2) /\ h(2) <= h(3) /\ h(3) <= h(4)
        /\ c(1) <= c(2) /\ c(2) <= c(3) /\ c(3) <= c(4)
    BY <2>1, <2>3 DEF Growing, Kinds
  <2>8. route = "direct" => h(4) = h(1) + charged["http"] /\ c(4) = c(1) + charged["connect"]
    BY <2>1, <2>3 DEF Charged, Kinds
  <2>9. route = "proxy" /\ item.scheme = "https" /\ Good > 0 => c(1) < c(4)
    BY <2>1, <2>2, <2>3 DEF Tunnelled
  <2>10. route = "proxy" /\ item.scheme = "http" => h(2) + Good <= h(3)
    BY <2>1, <2>2, <2>3 DEF Seen
  <2>11. /\ ProxyDelta("start", "total-end", "http") = h(4) - h(1)
         /\ ProxyDelta("start", "total-end", "connect") = c(4) - c(1)
         /\ ProxyDelta("measured-start", "measured-end", "http") = h(3) - h(2)
    BY <2>1, <2>2, <2>3, Deltas DEF Kinds
  <2> HIDE DEF h, c
  <2>12. /\ ~UsesProxy(item) => (result.usage = "none" <=> h(4) = h(1) /\ c(4) = c(1))
         /\ UsesProxy(item) /\ item.scheme = "http" => (result.usage = "none" <=> h(3) - h(2) >= Requests)
         /\ UsesProxy(item) /\ item.scheme = "https" => (result.usage = "none" <=> c(4) > c(1))
    <3>1. CASE ~UsesProxy(item)
      BY <2>2, <2>6, <2>11, <3>1 DEF ProxyUsageError
    <3>2. CASE UsesProxy(item) /\ item.scheme = "http"
      BY <2>2, <2>6, <2>11, <3>2 DEF ProxyUsageError
    <3>3. CASE UsesProxy(item) /\ item.scheme = "https"
      BY <2>2, <2>6, <2>11, <3>3 DEF ProxyUsageError
    <3> QED
      BY <2>5, <3>1, <3>2, <3>3
  <2>13. CASE route = "direct" /\ UsesProxy(item)
    <3>1. result.usage = "none" =>
            IF item.scheme = "http" THEN charged["http"] >= Requests ELSE charged["connect"] > 0
      <4>1. CASE item.scheme = "http"
        BY <2>4, <2>6, <2>7, <2>8, <2>12, <2>13, <4>1
      <4>2. CASE item.scheme = "https"
        BY <2>6, <2>7, <2>8, <2>12, <2>13, <4>2
      <4> QED
        BY <2>5, <4>1, <4>2
    <3> QED
      BY <2>13, <3>1 DEF UsageIsFair
  <2>14. CASE route = "proxy" /\ ~UsesProxy(item)
    <3>1. ~(result.usage = "none" /\ result.good > 0)
      <4>1. CASE item.scheme = "http"
        BY <2>4, <2>6, <2>7, <2>10, <2>12, <2>14, <4>1
      <4>2. CASE item.scheme = "https"
        BY <2>4, <2>6, <2>9, <2>12, <2>14, <4>2
      <4> QED
        BY <2>5, <4>1, <4>2
    <3> QED
      BY <2>14, <3>1 DEF UsageIsFair
  <2>15. CASE route = "proxy" /\ UsesProxy(item)
    <3>1. result.usage # "none" => result.good < Requests
      <4>1. CASE item.scheme = "http"
        BY <2>4, <2>6, <2>10, <2>12, <2>15, <4>1
      <4>2. CASE item.scheme = "https"
        BY <2>4, <2>6, <2>9, <2>12, <2>15, <4>2
      <4> QED
        BY <2>5, <4>1, <4>2
    <3> QED
      BY <2>15, <3>1 DEF UsageIsFair
  <2>16. CASE route = "direct" /\ ~UsesProxy(item)
    <3>1. result.usage # "none" => charged["http"] # 0 \/ charged["connect"] # 0
      BY <2>6, <2>8, <2>12, <2>16
    <3>2. result.usage # "none" => charged # Zero
      BY <3>1 DEF Zero
    <3> QED
      BY <2>16, <3>2 DEF UsageIsFair, UsesProxy
  <2> QED
    BY <2>5, <2>13, <2>14, <2>15, <2>16
<1> QED
  BY <1>1, Invariance, PTL
=============================================================================
