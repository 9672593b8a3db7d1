---------------------------- MODULE TcpDelayProxy ----------------------------
(***************************************************************************)
(* The TCP proxy that simulates network conditions,                         *)
(* eviction_evo/tcp_delay_proxy.py: one connection, between a benchmark     *)
(* client that sends a request when it has the response to the one before,  *)
(* and the server.  The proxy runs one coroutine for each direction; each   *)
(* delays every chunk it reads and takes its bytes from a token bucket.     *)
(*                                                                         *)
(* Data is counted in bytes and time in ticks.  A coroutine that sleeps     *)
(* wakes at its time or later.                                              *)
(***************************************************************************)
EXTENDS Integers

CONSTANTS
    RequestSize, ResponseSize,
    ReadSize,        \* reader.read(65536)
    Delay,           \* delay_sec, in ticks
    Fill,            \* bytes the bucket gains in a tick
    TicksPerSec

ASSUME TcpDelayProxyAssumption ==
    /\ RequestSize \in Nat \ {0} /\ ResponseSize \in Nat \ {0}
    /\ ReadSize \in Nat \ {0} /\ Delay \in Nat
    /\ Fill \in Nat \ {0} /\ TicksPerSec \in Nat \ {0}

\* Bytes per second, which is also what the bucket holds.
Rate == Fill * TicksPerSec

Directions == {"up", "down"}
OppositeSame(d) == d   \* mutant: the writer is closed for writing only
Opposite(d) == IF d = "up" THEN "down" ELSE "up"
Min2(a, b) == IF a < b THEN a ELSE b

VARIABLES
    client,      \* "idle", "waiting" for a response, or "closed"
    server,      \* "open" or "closed"
    arrived,     \* per direction: bytes that wait for the proxy's reader
    eof,         \* per direction: no more bytes will come
    delivered,   \* per direction: bytes written that the far end has not used
    shut,        \* per direction: the proxy has closed the writer
    pipe,        \* per direction: where the coroutine is, and its chunk
    timer,       \* per direction: ticks until its sleep is over
    tokens,      \* per direction: .tokens
    since        \* per direction: ticks since .last_time, TicksPerSec at most

proxy_vars == <<client, server, arrived, eof, delivered, shut, pipe, timer, tokens, since>>

ends == <<client, server>>
bucket == <<tokens, since>>
sockets == <<arrived, eof, delivered, shut>>

-----------------------------------------------------------------------------
(* The client, the server and the clock *)

Send ==
    /\ client = "idle"
    /\ client' = "waiting"
    /\ arrived' = [arrived EXCEPT !["up"] = @ + RequestSize]
    /\ UNCHANGED <<server, eof, delivered, shut, pipe, timer, bucket>>

Receive ==
    /\ client = "waiting" /\ delivered["down"] >= ResponseSize
    /\ client' = "idle"
    /\ delivered' = [delivered EXCEPT !["down"] = @ - ResponseSize]
    /\ UNCHANGED <<server, arrived, eof, shut, pipe, timer, bucket>>

\* At the end of the benchmark, on a timeout, or on the end of the connection.
ClientCloses ==
    /\ client # "closed"
    /\ client' = "closed"
    /\ eof' = [eof EXCEPT !["up"] = TRUE]
    /\ UNCHANGED <<server, arrived, delivered, shut, pipe, timer, bucket>>

SeesClosed == shut["down"] /\ delivered["down"] < ResponseSize

\* The server uses a whole request; its response is lost on a closed connection.
Serve ==
    /\ server = "open" /\ delivered["up"] >= RequestSize
    /\ delivered' = [delivered EXCEPT !["up"] = @ - RequestSize]
    /\ arrived' = IF shut["up"] THEN arrived
                  ELSE [arrived EXCEPT !["down"] = @ + ResponseSize]
    /\ UNCHANGED <<ends, eof, shut, pipe, timer, bucket>>

\* The server process ends, possibly in the middle of a request.
ServerCloses ==
    /\ server = "open"
    /\ server' = "closed"
    /\ eof' = [eof EXCEPT !["down"] = TRUE]
    /\ UNCHANGED <<client, arrived, delivered, shut, pipe, timer, bucket>>

Tick ==
    /\ timer' = [d \in Directions |-> IF timer[d] = 0 THEN 0 ELSE timer[d] - 1]
    /\ since' = [d \in Directions |-> Min2(TicksPerSec, since[d] + 1)]
    /\ UNCHANGED <<ends, sockets, pipe, tokens>>

-----------------------------------------------------------------------------
(* handle_connection *)

BothAt(label) == \A d \in Directions : pipe[d].pc = label
BothGoto(label) == pipe' = [d \in Directions |-> [pc |-> label, n |-> 0]]

Connect ==
    /\ BothAt("connect") /\ server = "open"
    /\ BothGoto("read")
    /\ tokens' = [d \in Directions |-> Rate] /\ since' = [d \in Directions |-> 0]
    /\ UNCHANGED <<ends, sockets, timer>>

\* Nothing listens: the client's connection is closed, with no coroutine to run.
ConnectFails ==
    /\ BothAt("connect") /\ server = "closed"
    /\ BothGoto("done")
    /\ shut' = [shut EXCEPT !["down"] = TRUE]
    /\ UNCHANGED <<ends, arrived, eof, delivered, timer, bucket>>

-----------------------------------------------------------------------------
(* pipe *)

PipeAt(d, label) == pipe[d].pc = label /\ timer[d] = 0
PipeGoto(d, label, n) == pipe' = [pipe EXCEPT ![d] = [pc |-> label, n |-> n]]
Sleep(d, ticks) == timer' = [timer EXCEPT ![d] = ticks]

\* Whatever has arrived, up to ReadSize bytes; then the delay.
Read(d) ==
    /\ PipeAt(d, "read") /\ arrived[d] > 0
    /\ \E n \in 1 .. Min2(ReadSize, arrived[d]) :
          /\ arrived' = [arrived EXCEPT ![d] = @ - n]
          /\ PipeGoto(d, "consume", n)
    /\ Sleep(d, Delay)
    /\ UNCHANGED <<ends, eof, delivered, shut, bucket>>

\* The writer is closed, and with it the connection it writes to: the coroutine of
\* the other direction reads the end of file from it.
Closes(d) ==
    /\ shut' = [shut EXCEPT ![d] = TRUE]
    /\ eof' = [eof EXCEPT ![Opposite(d)] = TRUE]
    /\ PipeGoto(d, "done", 0)
    /\ UNCHANGED <<ends, arrived, delivered, timer, bucket>>

SeesEndEmpty(d) == arrived[d] = 0   \* mutant: nothing to read is the end
SeesEnd(d) == eof[d] /\ arrived[d] = 0

ReadEnd(d) ==
    /\ PipeAt(d, "read") /\ SeesEnd(d)
    /\ Closes(d)

\* TokenBucket.consume: the tokens that the elapsed time adds are capped.
FilledUncapped(d) == tokens[d] + Fill * since[d]   \* mutant
Filled(d) == Min2(Rate, tokens[d] + Fill * since[d])

TouchNever(d) == since' = since   \* mutant: .last_time stays
Touch(d) == since' = [since EXCEPT ![d] = 0]

ConsumeNow(d) ==
    LET n == pipe[d].n IN
    /\ PipeAt(d, "consume") /\ Filled(d) >= n
    /\ tokens' = [tokens EXCEPT ![d] = Filled(d) - n]
    /\ Touch(d)
    /\ PipeGoto(d, "write", n)
    /\ UNCHANGED <<ends, sockets, timer>>

\* wait_time, in whole ticks.
WaitFor(missing) == (missing + Fill - 1) \div Fill

ConsumeLater(d) ==
    /\ PipeAt(d, "consume") /\ Filled(d) < pipe[d].n
    /\ tokens' = [tokens EXCEPT ![d] = Filled(d)]
    /\ Touch(d)
    /\ Sleep(d, WaitFor(pipe[d].n - Filled(d)))
    /\ UNCHANGED <<ends, sockets, pipe>>

From(d) == IF d = "up" THEN client ELSE server
To(d) == IF d = "up" THEN server ELSE client

\* writer.write and drain.
Write(d) ==
    /\ PipeAt(d, "write")
    /\ delivered' = [delivered EXCEPT ![d] = @ + pipe[d].n]
    /\ PipeGoto(d, "read", 0)
    /\ UNCHANGED <<ends, arrived, eof, shut, timer, bucket>>

\* The caught ConnectionResetError and BrokenPipeError, of a read or a write: what
\* has arrived or was read is lost.
Fails(d) ==
    /\ \/ PipeAt(d, "read") /\ From(d) = "closed"
       \/ PipeAt(d, "write") /\ To(d) = "closed"
    /\ Closes(d)

-----------------------------------------------------------------------------
(* Specification *)

\* on_connect: the client has connected to the proxy.
ProxyInit ==
    /\ client = "idle" /\ server = "open"
    /\ arrived = [d \in Directions |-> 0] /\ delivered = [d \in Directions |-> 0]
    /\ eof = [d \in Directions |-> FALSE] /\ shut = [d \in Directions |-> FALSE]
    /\ pipe = [d \in Directions |-> [pc |-> "connect", n |-> 0]]
    /\ timer = [d \in Directions |-> 0]
    /\ tokens = [d \in Directions |-> Rate] /\ since = [d \in Directions |-> 0]

Coroutine(d) ==
    Read(d) \/ ReadEnd(d) \/ ConsumeNow(d) \/ ConsumeLater(d) \/ Write(d) \/ Fails(d)

ProxyNext ==
    \/ Send \/ Receive \/ ClientCloses \/ Serve \/ ServerCloses \/ Tick
    \/ Connect \/ ConnectFails
    \/ \E d \in Directions : Coroutine(d)

ProxySpec == ProxyInit /\ [][ProxyNext]_proxy_vars

\* The event loop runs every coroutine that is ready, time passes, and the server
\* and a client that waits read what has come, the end of the connection included.
Fairness ==
    /\ WF_proxy_vars(Tick) /\ WF_proxy_vars(Serve) /\ WF_proxy_vars(Receive)
    /\ WF_proxy_vars(SeesClosed /\ ClientCloses) /\ WF_proxy_vars(Connect \/ ConnectFails)
    /\ \A d \in Directions : WF_proxy_vars(Coroutine(d))

ProxyFairSpec == ProxySpec /\ Fairness

-----------------------------------------------------------------------------
(* Properties *)

\* Types; a bucket never holds more than its rate, and a sleep is bounded.
ProxyTypeOK ==
    /\ client \in {"idle", "waiting", "closed"} /\ server \in {"open", "closed"}
    /\ arrived \in [Directions -> Nat] /\ delivered \in [Directions -> Nat]
    /\ eof \in [Directions -> BOOLEAN] /\ shut \in [Directions -> BOOLEAN]
    /\ pipe \in [Directions -> [pc : {"connect", "read", "consume", "write", "done"}, n : Nat]]
    /\ timer \in [Directions -> Nat]
    /\ tokens \in [Directions -> 0 .. Rate] /\ since \in [Directions -> 0 .. TicksPerSec]

InTransit(d) == arrived[d] + pipe[d].n + delivered[d]

\* While both ends keep their side open, the connection holds exactly the request
\* the client has sent or exactly the response to it, however chunks are split,
\* delayed and limited, and the proxy closes neither side: no byte is lost or
\* comes twice.
OneMessageInFlight ==
    client # "closed" /\ server = "open" =>
        /\ \A d \in Directions : ~shut[d]
        /\ IF client = "idle"
           THEN \A d \in Directions : InTransit(d) = 0
           ELSE \/ InTransit("up") = RequestSize /\ InTransit("down") = 0
                \/ InTransit("up") = 0 /\ InTransit("down") = ResponseSize

\* Each direction keeps its rate: the bucket that is brought up to date only when a
\* chunk asks for bytes admits what one that fills at every tick would admit.
Limit == INSTANCE RateLimit WITH
             Streams <- Directions, Capacity <- Rate,
             allowance <- [d \in Directions |-> Filled(d)],
             chunk <- [d \in Directions |-> IF pipe[d].pc = "write" THEN pipe[d].n ELSE 0]

ImplementsRateLimit == Limit!Spec

\* A client that waits gets its response or sees its connection closed, and when
\* either end has closed its side both coroutines end, whatever they were sleeping
\* for: a chunk larger than the bucket would make each of these wait for ever.
ConnectionsProgress ==
    /\ client = "waiting" ~> client # "waiting"
    /\ client = "closed" \/ server = "closed" ~> \A d \in Directions : pipe[d].pc = "done"

=============================================================================
