---------------------------- MODULE ProxyTunnel ----------------------------
(***************************************************************************)
(* One connection to the proxy of the proxy-connect suite,                  *)
(* proxy_connect/proxy_server.py: the keep-alive loop that relays HTTP      *)
(* requests, and the two pipes of a CONNECT tunnel.                         *)
(*                                                                          *)
(* Both sides of the proxy are asyncio streams.  What the code relies on    *)
(* of them is modelled: a transport that is told to close flushes what was  *)
(* written and reads no more; a reader gives out what it has buffered and   *)
(* then the end of the stream, unless the connection was lost with an       *)
(* exception, which every later read and drain raises, buffered data or     *)
(* not.  Client and origin are external: each sends at most Chunks chunks   *)
(* through a tunnel and may half-close, close or reset at any time.         *)
(***************************************************************************)
EXTENDS Naturals

CONSTANTS
  Chunks,     \* bound: the chunks either peer sends through a tunnel
  HighWater   \* the chunks a transport buffers before drain() waits

ASSUME TunnelAssumption == Chunks \in Nat \ {0} /\ HighWater \in Nat

VARIABLES
  handler,      \* where handle_proxy_connection and what it awaits are
  kind,    \* the request being handled
  keep,    \* keep_alive
  pipe,    \* the pipe that reads from each side, "idle" outside a tunnel
  conn,    \* the proxy's transport to each side
  broken,  \* the sides whose connection was lost with an exception
  peer,    \* what each peer still does: "half" has shut down its sending side
  sent,    \* the chunks each peer has sent through the tunnel
  wire,    \* those that have not reached the proxy
  buffer,  \* those in the StreamReader
  eof,     \* the sides whose StreamReader was fed the end of the stream
  out,     \* chunks in the write buffer of each transport
  got,     \* chunks each peer has received
  counted  \* tunnel_client_bytes and tunnel_upstream_bytes, in chunks

handlerVars == <<handler, kind, keep>>
peerVars == <<peer, sent>>
readVars == <<wire, buffer, eof>>
writeVars == <<out, got>>
tunnelVars == <<handlerVars, pipe, conn, broken, peerVars, readVars, writeVars, counted>>

Side == {"client", "origin"}
Other(s) == IF s = "client" THEN "origin" ELSE "client"

TunnelInit ==
  /\ handler = "read" /\ kind = "http" /\ keep = TRUE
  /\ pipe = [s \in Side |-> "idle"]
  /\ conn = [client |-> "open", origin |-> "none"]
  /\ broken = [s \in Side |-> FALSE]
  /\ peer = [s \in Side |-> "open"]
  /\ sent = [s \in Side |-> 0] /\ wire = sent /\ buffer = sent
  /\ eof = broken
  /\ out = sent /\ got = sent /\ counted = sent

-----------------------------------------------------------------------------
(* The streams.                                                             *)

\* Peers talk through the tunnel once the proxy has a connection to each.
PeerSends(s) ==
  /\ kind = "connect" /\ handler \in {"confirm", "tunnel"}
  /\ conn[s] = "open" /\ peer[s] = "open" /\ sent[s] < Chunks
  /\ sent' = [sent EXCEPT ![s] = @ + 1]
  /\ wire' = [wire EXCEPT ![s] = @ + 1]
  /\ UNCHANGED <<handlerVars, pipe, conn, broken, peer, buffer, eof, writeVars, counted>>

PeerCloses(s) ==
  /\ conn[s] \in {"open", "closing"}
  /\ \/ peer[s] = "open" /\ peer' = [peer EXCEPT ![s] = "half"]
     \/ peer[s] # "closed" /\ peer' = [peer EXCEPT ![s] = "closed"]
  /\ UNCHANGED <<handlerVars, pipe, conn, broken, sent, readVars, writeVars, counted>>

\* connection_lost(exc): the peer's reset throws away what is under way.
ConnectionReset(s) ==
  /\ conn[s] \in {"open", "closing"}
  /\ conn' = [conn EXCEPT ![s] = "lost"]
  /\ broken' = [broken EXCEPT ![s] = TRUE]
  /\ peer' = [peer EXCEPT ![s] = "closed"]
  /\ wire' = [wire EXCEPT ![s] = 0]
  /\ out' = [out EXCEPT ![s] = 0]
  /\ UNCHANGED <<handlerVars, pipe, sent, buffer, eof, got, counted>>

DataReceived(s) ==
  /\ conn[s] = "open" /\ wire[s] > 0
  /\ wire' = [wire EXCEPT ![s] = @ - 1]
  /\ buffer' = [buffer EXCEPT ![s] = @ + 1]
  /\ UNCHANGED <<handlerVars, pipe, conn, broken, peerVars, eof, writeVars, counted>>

EofReceived(s) ==
  /\ conn[s] = "open" /\ wire[s] = 0 /\ peer[s] # "open" /\ ~eof[s]
  /\ eof' = [eof EXCEPT ![s] = TRUE]
  /\ UNCHANGED <<handlerVars, pipe, conn, broken, peerVars, wire, buffer, writeVars, counted>>

\* A peer that has closed its socket does not get what is still sent to it.
Flush(s) ==
  /\ conn[s] \in {"open", "closing"} /\ out[s] > 0
  /\ out' = [out EXCEPT ![s] = @ - 1]
  /\ got' = [got EXCEPT ![s] = IF peer[s] = "closed" THEN @ ELSE @ + 1]
  /\ UNCHANGED <<handlerVars, pipe, conn, broken, peerVars, readVars, counted>>

\* connection_lost(None), once everything written is flushed.  It ends the
\* reader's stream as well.
ConnectionClosed(s) ==
  /\ conn[s] = "closing" /\ out[s] = 0
  /\ conn' = [conn EXCEPT ![s] = "lost"]
  /\ UNCHANGED <<handlerVars, pipe, broken, peerVars, readVars, writeVars, counted>>

\* close_writer: writer.close().  Faulty: transport.abort().
Aborting(s) == [conn EXCEPT ![s] = "lost"]
Closing(s) == [conn EXCEPT ![s] = IF @ = "open" THEN "closing" ELSE @]

\* writer.drain() raises once the connection is lost, and else waits until the
\* buffer is below its limit.
DrainRaises(s) == conn[s] = "lost"
DrainReturns(s) == conn[s] # "lost" /\ out[s] <= HighWater

-----------------------------------------------------------------------------
(* The handler.                                                             *)

Goto(label) == handler' = label /\ UNCHANGED <<kind, keep>>
streamVars == <<pipe, conn, broken, peerVars, readVars, writeVars, counted>>

ReadRequest ==
  /\ handler = "read" /\ conn["client"] = "open" /\ ~eof["client"]
  /\ handler' \in {"open", "error"}      \* a target that cannot be parsed is refused
  /\ kind' \in {"http", "connect"}
  /\ keep' \in BOOLEAN
  /\ UNCHANGED streamVars

\* The header times out, is malformed or never comes.
ReadNothing == handler = "read" /\ Goto("close") /\ UNCHANGED streamVars

OpenOrigin ==
  /\ handler = "open"
  /\ Goto(IF kind = "http" THEN "relay" ELSE "confirm")
  /\ conn' = [conn EXCEPT !["origin"] = "open"]
  /\ broken' = [broken EXCEPT !["origin"] = FALSE]
  /\ peer' = [peer EXCEPT !["origin"] = "open"]
  /\ eof' = [eof EXCEPT !["origin"] = FALSE]
  /\ UNCHANGED <<pipe, sent, wire, buffer, writeVars, counted>>

OpenFails == handler = "open" /\ Goto("error") /\ UNCHANGED streamVars

\* An error response says connection: close, but an HTTP request that asked to
\* be kept alive is followed by another turn of the loop.
WriteError ==
  /\ handler = "error"
  /\ \/ DrainRaises("client") /\ Goto("close")
     \/ DrainReturns("client") /\ Goto(IF kind = "http" /\ keep THEN "read" ELSE "close")
  /\ UNCHANGED streamVars

\* The origin's response arrives whole, or the origin or the client fails.
Relay ==
  /\ handler = "relay"
  /\ \/ ~DrainRaises("client") /\ Goto("answered")
     \/ Goto("failed")
  /\ UNCHANGED streamVars

\* finally: close_writer(origin_writer).  Faulty: not after an exception.
ReleaseAnswered ==
  /\ handler \in {"answered", "failed"}
  /\ IF handler = "answered"
     THEN conn' = Closing("origin") /\ Goto(IF keep THEN "released" ELSE "dropped")
     ELSE UNCHANGED conn /\ Goto("close")
  /\ UNCHANGED <<pipe, broken, peerVars, readVars, writeVars, counted>>

ReleaseOrigin ==
  /\ handler \in {"answered", "failed"}
  /\ conn' = Closing("origin")
  /\ Goto(IF handler = "answered" /\ keep THEN "released" ELSE "dropped")
  /\ UNCHANGED <<pipe, broken, peerVars, readVars, writeVars, counted>>

OriginReleased ==
  /\ handler \in {"released", "dropped"} /\ conn["origin"] = "lost"
  /\ Goto(IF handler = "released" THEN "read" ELSE "close")
  /\ UNCHANGED streamVars

\* 200 Connection Established.  The client may have gone in the meantime; the
\* exception then passes by the origin's connection, which no pipe owns yet.
Confirm ==
  /\ handler = "confirm"
  /\ \/ DrainRaises("client") /\ Goto("close") /\ UNCHANGED pipe
     \/ /\ DrainReturns("client") /\ Goto("tunnel")
        /\ pipe' = [s \in Side |-> "read"]
  /\ UNCHANGED <<conn, broken, peerVars, readVars, writeVars, counted>>

\* asyncio.gather
Joined == \A s \in Side : pipe[s] = "done"

LeaveTunnel == handler = "tunnel" /\ Joined /\ Goto("close") /\ UNCHANGED streamVars

CloseConnection ==
  /\ handler = "close" /\ conn' = Closing("client") /\ Goto("closing")
  /\ UNCHANGED <<pipe, broken, peerVars, readVars, writeVars, counted>>

EndHandler ==
  /\ handler = "closing" /\ conn["client"] = "lost" /\ Goto("end")
  /\ UNCHANGED streamVars

Handler ==
  \/ ReadNothing \/ OpenOrigin \/ OpenFails \/ WriteError \/ Relay \/ ReleaseOrigin
  \/ OriginReleased \/ Confirm \/ LeaveTunnel \/ CloseConnection \/ EndHandler

-----------------------------------------------------------------------------
(* The pipe that reads from side s and writes to the other.                 *)

PipeRead(s) ==
  /\ pipe[s] = "read" /\ ~broken[s] /\ buffer[s] > 0
  /\ pipe' = [pipe EXCEPT ![s] = "drain"]
  /\ buffer' = [buffer EXCEPT ![s] = 0]
  /\ counted' = [counted EXCEPT ![s] = @ + buffer[s]]
  /\ out' = [out EXCEPT ![Other(s)] = IF conn[Other(s)] = "lost" THEN 0 ELSE @ + buffer[s]]
  /\ UNCHANGED <<handlerVars, conn, broken, peerVars, wire, eof, got>>

ReaderEnded(s) == eof[s] \/ conn[s] = "lost"

\* The read returns nothing at the end of the stream, or raises.
PipeReadEnds(s) ==
  /\ pipe[s] = "read" /\ (broken[s] \/ (ReaderEnded(s) /\ buffer[s] = 0))
  /\ pipe' = [pipe EXCEPT ![s] = "close"]
  /\ UNCHANGED <<handlerVars, conn, broken, peerVars, readVars, writeVars, counted>>

PipeDrain(s) ==
  /\ pipe[s] = "drain"
  /\ \/ DrainRaises(Other(s)) /\ pipe' = [pipe EXCEPT ![s] = "close"]
     \/ DrainReturns(Other(s)) /\ pipe' = [pipe EXCEPT ![s] = "read"]
  /\ UNCHANGED <<handlerVars, conn, broken, peerVars, readVars, writeVars, counted>>

\* What a pipe closes when it ends: its destination.  Faulty: its source.
ClosedSource(s) == s
ClosedByPipe(s) == Other(s)

PipeClose(s) ==
  /\ pipe[s] = "close"
  /\ pipe' = [pipe EXCEPT ![s] = "wait"]
  /\ conn' = Closing(ClosedByPipe(s))
  /\ UNCHANGED <<handlerVars, broken, peerVars, readVars, writeVars, counted>>

PipeEnds(s) ==
  /\ pipe[s] = "wait" /\ conn[ClosedByPipe(s)] = "lost"
  /\ pipe' = [pipe EXCEPT ![s] = "done"]
  /\ UNCHANGED <<handlerVars, conn, broken, peerVars, readVars, writeVars, counted>>

Pipe(s) ==
  PipeRead(s) \/ PipeReadEnds(s) \/ PipeDrain(s) \/ PipeClose(s) \/ PipeEnds(s)

Stream(s) == DataReceived(s) \/ EofReceived(s) \/ Flush(s) \/ ConnectionClosed(s)

TunnelNext ==
  \/ ReadRequest \/ Handler
  \/ \E s \in Side :
       PeerSends(s) \/ PeerCloses(s) \/ ConnectionReset(s) \/ Stream(s) \/ Pipe(s)

TunnelSpec == TunnelInit /\ [][TunnelNext]_tunnelVars

\* The proxy's tasks run, data on its way arrives, and a peer reads what is sent
\* to it until it closes.  Nothing makes a peer send, close or reset.
FairSpec ==
  /\ TunnelSpec
  /\ WF_tunnelVars(Handler)
  /\ \A s \in Side : WF_tunnelVars(Stream(s)) /\ WF_tunnelVars(Pipe(s))

-----------------------------------------------------------------------------
TunnelTypeOK ==
  /\ handler \in {"read", "open", "error", "relay", "answered", "failed", "released", "dropped",
             "confirm", "tunnel", "close", "closing", "end"}
  /\ kind \in {"http", "connect"} /\ keep \in BOOLEAN
  /\ pipe \in [Side -> {"idle", "read", "drain", "close", "wait", "done"}]
  /\ conn \in [Side -> {"none", "open", "closing", "lost"}]
  /\ broken \in [Side -> BOOLEAN] /\ eof \in [Side -> BOOLEAN]
  /\ peer \in [Side -> {"open", "half", "closed"}]
  /\ \A f \in {sent, wire, buffer, out, got, counted} : f \in [Side -> 0 .. Chunks]

\* tunnel_streams: what a side sent reaches the other side whole, and is
\* counted, whenever the tunnel's handler has ended, the receiver did not leave
\* and the sender did not reset: closing a side on behalf of one pipe may not
\* cut off what the other has under way.
TunnelIsWhole ==
  \A s \in Side :
    handler = "end" /\ pipe[s] # "idle" /\ peer[Other(s)] = "open" /\ ~broken[s]
      => got[Other(s)] = sent[s] /\ counted[s] = sent[s]

\* handle_proxy_connection: between requests and after the last, no connection
\* to an origin is left, with one exception: a client lost while its tunnel was
\* confirmed leaves the origin's connection without an owner.
OriginNotLeaked ==
  handler \in {"read", "end"} /\ conn["origin"] \in {"open", "closing"}
    => handler = "end" /\ kind = "connect" /\ broken["client"] /\ pipe["origin"] = "idle"

\* The proxy's server waits for its connections when it stops: a handler ends
\* once its client has closed, in whatever state it is, and a tunnel also once
\* its origin has.
HandlerEnds ==
  /\ peer["client"] = "closed" ~> handler = "end"
  /\ handler = "tunnel" /\ peer["origin"] = "closed" ~> handler = "end"
=============================================================================
