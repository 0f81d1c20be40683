----------------------------- MODULE EventLoop -----------------------------
(***************************************************************************)
(* The RPC coordinator of boxsh: the poll(2) event loop of rpc_run_loop    *)
(* (src/rpc.cpp), the coordinator's half of the worker pool                *)
(* (WorkerPool::try_dispatch, cancel, collect in src/worker_pool.cpp) and  *)
(* the worker processes at the other end of each socketpair (worker_loop). *)
(*                                                                         *)
(* The loop is single threaded.  Its program counter names the places      *)
(* where the rest of the world can be observed: the top of the iteration,  *)
(* each turn of the line loop, blocked inside poll(), each descriptor      *)
(* handled after poll() returned, and the catch (...) block.  Between two  *)
(* of these the client, the workers and the tool threads move freely.      *)
(***************************************************************************)
EXTENDS Integers, Sequences, FiniteSets

CONSTANTS
    N,          \* --workers: number of pre-forked worker processes
    Cmds,       \* ids of the bash requests the client may send
    Tools,      \* ids of the built-in tool requests it may send
    Submits,    \* those that submit a command line, all to one terminal session
    Before,     \* pairs of ids the client uses in this order
    Syncs,      \* ids answered inside the line loop (initialize, tools/list,
                \* lines that do not parse)
    Events,     \* which disturbances may happen, a subset of AllEvents
    MaxEvents,  \* bound on the number of disturbances in one behaviour
    MaxCancels, \* bound on the number of requests the client gives up on
    None,       \* "no request"; also the null id of an error reply
    Cancel,     \* kCancelPayload, the marker of a cancelled request
    Crash       \* the body "worker crash, respawned"

AllEvents == { "crash_busy",  \* a worker dies while it holds a request
               "crash_idle",  \* a worker dies while the pool thinks it idle
               "fork",        \* the respawn in collect() fails
               "detach",      \* a command closes its streams and runs on
               "eintr",       \* SIGCHLD interrupts poll()
               "pollfail",    \* poll() fails with another error
               "sigterm",     \* SIGTERM, SIGINT or SIGHUP
               "nofd",        \* socketpair() fails in dispatch_tool_async
               "throw",       \* std::thread construction throws
               "unread",      \* a tool's payload is empty, over 64 MiB or cut off
               "overflow" }   \* more than 64 MiB of unread input

Reqs    == Cmds \cup Tools \cup Syncs
Workers == 1..N

ASSUME WorkersAssumption == N \in Nat \ {0}
ASSUME KindsAssumption ==
    /\ Cmds \cap Tools = {} /\ Cmds \cap Syncs = {} /\ Tools \cap Syncs = {}
ASSUME SubmitsAssumption == Submits \subseteq Tools
ASSUME BeforeAssumption == Before \subseteq Reqs \X Reqs
ASSUME MarkersAssumption ==
    /\ {None, Cancel, Crash} \cap Reqs = {}
    /\ None # Cancel /\ None # Crash /\ Cancel # Crash
    /\ (Reqs \cup {None}) \cap Workers = {}
ASSUME EventsAssumption ==
    Events \subseteq AllEvents /\ MaxEvents \in Nat /\ MaxCancels \in Nat

VARIABLES
    \* the client and its pipe to stdin
    sent,       \* requests it has sent, in order
    gaveUp,     \* requests it has sent notifications/cancelled for
    stdin,      \* messages in the pipe
    closed,     \* it has closed its end
    \* LineReader
    lines,      \* complete messages in buf_
    eof,        \* eof_
    \* rpc_run_loop
    pc, buffered, inFlight,
    pending,    \* pending_tools
    dropTool,   \* the pending tools whose entry has cancelled = true
    ready,      \* descriptors poll() reported and not handled yet
    stop,       \* g_shutdown_requested
    \* WorkerPool::workers_ : inflight_id when busy, inflight_cancelled
    inflight, dropReply,
    \* the worker processes and the two directions of their sockets
    proc, cur, down, up,
    \* the shell commands and the tool threads
    cmd, tool,
    \* what has been written to stdout, by request id
    out,
    \* number of disturbances so far; history of the dispatches and of the
    \* cancellations that found their request in flight
    events, dispatched, cancelled,
    \* history: requests that were dropped without an answer, and those whose
    \* command in the terminal session a cancellation interrupted
    lost, interrupted

clientVars == <<sent, gaveUp, closed>>
readerVars == <<stdin, lines, eof>>
loopVars   == <<pc, buffered, inFlight, pending, dropTool, ready, stop>>
poolVars   == <<inflight, dropReply>>
procVars   == <<proc, cur, down, up>>
workVars   == <<cmd, tool>>
histVars   == <<events, dispatched, cancelled>>
sideVars   == <<lost, interrupted>>
vars == <<clientVars, readerVars, loopVars, poolVars, procVars, workVars,
          out, histVars, sideVars>>

Call(r)   == [kind |-> "call",   id |-> r]
CancelOf(r) == [kind |-> "cancel", id |-> r]
Messages  == [kind : {"call", "cancel"}, id : Reqs]

TypeOK ==
    /\ sent \in Seq(Reqs) /\ gaveUp \subseteq Reqs
    /\ stdin \in Seq(Messages) /\ lines \in Seq(Messages)
    /\ closed \in BOOLEAN /\ eof \in BOOLEAN /\ stop \in BOOLEAN
    /\ pc \in {"top", "lines", "poll", "handle", "drain", "exited", "failed"}
    /\ buffered \in Cmds \cup {None}
    /\ inFlight \in Int
    /\ pending \subseteq Tools /\ dropTool \subseteq Tools
    /\ ready \subseteq Workers \cup Tools \cup {None}
    /\ inflight \in [Workers -> Cmds \cup {None}]
    /\ dropReply \in [Workers -> BOOLEAN]
    /\ proc \in [Workers -> {"idle", "running", "reaping", "missed", "dead", "none"}]
    /\ cur \in [Workers -> Cmds \cup {None}]
    /\ down \in [Workers -> Seq(Cmds \cup {Cancel})]
    /\ up \in [Workers -> Seq(Cmds)]
    /\ cmd \in [Cmds -> {"new", "forked", "running", "finished", "killed", "orphan"}]
    /\ tool \in [Tools -> {"new", "running", "done"}]
    /\ out \in [Reqs \cup {None} -> Seq(Reqs \cup {None, Crash})]
    /\ events \in 0..MaxEvents
    /\ dispatched \in Seq(Cmds)
    /\ cancelled \subseteq Reqs
    /\ lost \subseteq Reqs /\ interrupted \subseteq Submits

Init ==
    /\ sent = <<>> /\ gaveUp = {} /\ closed = FALSE
    /\ stdin = <<>> /\ lines = <<>> /\ eof = FALSE
    /\ pc = "top" /\ buffered = None /\ inFlight = 0
    /\ pending = {} /\ dropTool = {} /\ ready = {} /\ stop = FALSE
    /\ inflight = [w \in Workers |-> None]
    /\ dropReply = [w \in Workers |-> FALSE]
    /\ proc = [w \in Workers |-> "idle"]
    /\ cur = [w \in Workers |-> None]
    /\ down = [w \in Workers |-> <<>>]
    /\ up = [w \in Workers |-> <<>>]
    /\ cmd = [r \in Cmds |-> "new"]
    /\ tool = [t \in Tools |-> "new"]
    /\ out = [r \in Reqs \cup {None} |-> <<>>]
    /\ events = 0 /\ dispatched = <<>> /\ cancelled = {}
    /\ lost = {} /\ interrupted = {}

\* A disturbance e, counted against the bound.
Disturb(e) == e \in Events /\ events < MaxEvents /\ events' = events + 1

\* write_msg / write_resp: one message for request r on the client's stream.
Write(r, body) == out' = [out EXCEPT ![r] = Append(@, body)]

-----------------------------------------------------------------------------
(* The client: an MCP peer that uses every id once, may give up on any     *)
(* request it has sent, and eventually may close the pipe.                 *)

Sent == {sent[i] : i \in DOMAIN sent}

ClientSend(r) ==
    /\ ~closed /\ r \notin Sent
    /\ \A a \in Reqs : <<a, r>> \in Before => a \in Sent
    /\ sent' = Append(sent, r)
    /\ stdin' = Append(stdin, Call(r))
    /\ UNCHANGED <<sideVars, gaveUp, closed, lines, eof, loopVars, poolVars,
                   procVars, workVars, out, histVars>>

ClientCancel(r) ==
    /\ ~closed /\ r \in Sent \ gaveUp
    /\ Cardinality(gaveUp) < MaxCancels
    /\ gaveUp' = gaveUp \cup {r}
    /\ stdin' = Append(stdin, CancelOf(r))
    /\ UNCHANGED <<sideVars, sent, closed, lines, eof, loopVars, poolVars,
                   procVars, workVars, out, histVars>>

ClientClose ==
    /\ ~closed /\ closed' = TRUE
    /\ UNCHANGED <<sideVars, sent, gaveUp, readerVars, loopVars, poolVars,
                   procVars, workVars, out, histVars>>

-----------------------------------------------------------------------------
(* WorkerPool, coordinator side.                                           *)

Busy(w) == inflight[w] # None
BusyWorkers == {w \in Workers : Busy(w)}
\* Mutant: a worker whose request was cancelled counts as free at once.
IdleIfCancelled == {w \in Workers : ~Busy(w) \/ dropReply[w]}
Idle == {w \in Workers : ~Busy(w)}             \* idle_count() > 0
Runs(w)  == proc[w] \in {"running", "reaping", "missed"}
Alive(w) == proc[w] = "idle" \/ Runs(w)

\* w is the first of the workers in S, in index order.
First(w, S) == w \in S /\ \A v \in S : w <= v

\* try_dispatch: write the request to the first idle worker's socket.  When
\* the peer is gone (EPIPE) or the slot has no descriptor (EBADF) write_msg
\* fails and nothing is recorded; the callers ignore the result and the
\* request is lost.
TryDispatch(r) ==
    \E w \in Workers :
        /\ First(w, Idle)
        /\ IF Alive(w)
           THEN /\ down' = [down EXCEPT ![w] = Append(@, r)]
                /\ inflight' = [inflight EXCEPT ![w] = r]
                /\ dispatched' = Append(dispatched, r)
                /\ UNCHANGED lost
           ELSE lost' = lost \cup {r} /\ UNCHANGED <<down, inflight, dispatched>>

\* Mutant: cancel() does not compare inflight_id.
AnyHolder(r) == BusyWorkers

Holders(r) == {w \in Workers : inflight[w] = r}

\* Mutant: cancel() sends the marker but forgets inflight_cancelled.
PoolCancelUnmarked(r) ==
    \E w \in Workers :
        /\ First(w, Holders(r))
        /\ down' = [down EXCEPT ![w] = IF Alive(w) THEN Append(@, Cancel) ELSE @]
        /\ UNCHANGED dropReply

\* Mutant: cancel() drops the reply but does not tell the worker.
PoolCancelUnsent(r) ==
    \E w \in Workers :
        /\ First(w, Holders(r))
        /\ dropReply' = [dropReply EXCEPT ![w] = TRUE]
        /\ UNCHANGED down

\* cancel(id): mark the worker that holds r and send it the marker (the write
\* fails silently when the worker is already gone).
PoolCancel(r) ==
    \E w \in Workers :
        /\ First(w, Holders(r))
        /\ dropReply' = [dropReply EXCEPT ![w] = TRUE]
        /\ down' = [down EXCEPT ![w] = IF Alive(w) THEN Append(@, Cancel) ELSE @]

\* collect(w) when a reply can be read: the slot becomes idle.
CollectReply(w) ==
    /\ up[w] # <<>>
    /\ up' = [up EXCEPT ![w] = Tail(@)]
    /\ inflight' = [inflight EXCEPT ![w] = None]
    /\ dropReply' = [dropReply EXCEPT ![w] = FALSE]
    /\ UNCHANGED <<proc, cur, down, events>>

\* collect(w) when read_msg fails: the old process is gone, a new one is
\* forked over a new socketpair, or the slot stays empty when fork() fails.
CollectCrash(w) ==
    /\ up[w] = <<>> /\ ~Alive(w)
    /\ \/ proc' = [proc EXCEPT ![w] = "idle"] /\ UNCHANGED events
       \/ Disturb("fork") /\ proc' = [proc EXCEPT ![w] = "none"]
    /\ inflight' = [inflight EXCEPT ![w] = None]
    /\ dropReply' = [dropReply EXCEPT ![w] = FALSE]
    /\ cur' = [cur EXCEPT ![w] = None]
    /\ down' = [down EXCEPT ![w] = <<>>]
    /\ up' = [up EXCEPT ![w] = <<>>]

Readable(w) == up[w] # <<>> \/ ~Alive(w)

-----------------------------------------------------------------------------
(* rpc_run_loop: top of the iteration.                                     *)

TopStop ==
    /\ pc = "top" /\ stop
    /\ pc' = "exited"
    /\ UNCHANGED <<sideVars, clientVars, readerVars, buffered, inFlight,
                   pending, dropTool, ready, stop, poolVars, procVars, workVars,
                   out, histVars>>

\* Mutant: the held command is not counted in in_flight.
TopDispatchUncounted ==
    /\ pc = "top" /\ ~stop /\ buffered # None /\ Idle # {}
    /\ TryDispatch(buffered)
    /\ buffered' = None /\ pc' = "lines"
    /\ UNCHANGED <<interrupted, clientVars, readerVars, inFlight, pending,
                   dropTool, ready, stop, dropReply, proc, cur, up, workVars,
                   out, events, cancelled>>

\* The held command goes first once a worker is idle.
TopDispatchBuffered ==
    /\ pc = "top" /\ ~stop /\ buffered # None /\ Idle # {}
    /\ TryDispatch(buffered)
    /\ buffered' = None /\ inFlight' = inFlight + 1 /\ pc' = "lines"
    /\ UNCHANGED <<interrupted, clientVars, readerVars, pending, dropTool,
                   ready, stop, dropReply, proc, cur, up, workVars, out, events,
                   cancelled>>

\* Mutant: the held command is passed over although a worker is idle.
TopPassAlways ==
    /\ pc = "top" /\ ~stop
    /\ pc' = "lines"
    /\ UNCHANGED <<sideVars, clientVars, readerVars, buffered, inFlight,
                   pending, dropTool, ready, stop, poolVars, procVars, workVars,
                   out, histVars>>

TopPass ==
    /\ pc = "top" /\ ~stop /\ (buffered = None \/ Idle = {})
    /\ pc' = "lines"
    /\ UNCHANGED <<sideVars, clientVars, readerVars, buffered, inFlight,
                   pending, dropTool, ready, stop, poolVars, procVars, workVars,
                   out, histVars>>

-----------------------------------------------------------------------------
(* rpc_run_loop: one turn of the line loop per complete message.           *)

NextLine(kind, ids) ==
    /\ pc = "lines" /\ lines # <<>>
    /\ Head(lines).kind = kind /\ Head(lines).id \in ids
    /\ lines' = Tail(lines)

\* A bash request and an idle worker: dispatch it and read on.
LineCmdDispatch ==
    /\ NextLine("call", Cmds) /\ Idle # {}
    /\ TryDispatch(Head(lines).id)
    /\ inFlight' = inFlight + 1
    /\ UNCHANGED <<interrupted, clientVars, stdin, eof, pc, buffered, pending,
                   dropTool, ready, stop, dropReply, proc, cur, up, workVars,
                   out, events, cancelled>>

\* A bash request and no idle worker: hold it and leave the line loop.  One
\* that is held already is overwritten.
LineCmdBuffer ==
    /\ NextLine("call", Cmds) /\ Idle = {}
    /\ buffered' = Head(lines).id /\ pc' = "poll"
    /\ lost' = lost \cup ({buffered} \ {None})
    /\ UNCHANGED <<interrupted, clientVars, stdin, eof, inFlight, pending,
                   dropTool, ready, stop, poolVars, procVars, workVars, out,
                   histVars>>

\* Mutant: dispatch_tool_async does not count the request.
LineToolUncounted ==
    /\ NextLine("call", Tools)
    /\ LET t == Head(lines).id IN
         /\ tool' = [tool EXCEPT ![t] = "running"]
         /\ pending' = pending \cup {t}
    /\ UNCHANGED <<sideVars, clientVars, stdin, eof, pc, buffered, inFlight,
                   dropTool, ready, stop, poolVars, procVars, cmd, out,
                   histVars>>

\* A tool request: dispatch_tool_async starts a detached thread.
LineTool ==
    /\ NextLine("call", Tools)
    /\ LET t == Head(lines).id IN
         /\ tool' = [tool EXCEPT ![t] = "running"]
         /\ pending' = pending \cup {t}
    /\ inFlight' = inFlight + 1
    /\ UNCHANGED <<sideVars, clientVars, stdin, eof, pc, buffered, dropTool,
                   ready, stop, poolVars, procVars, cmd, out, histVars>>

\* socketpair() fails: the tool runs inside the loop and is answered at once.
LineToolInline ==
    /\ NextLine("call", Tools) /\ Disturb("nofd")
    /\ LET t == Head(lines).id IN
         tool' = [tool EXCEPT ![t] = "done"] /\ Write(t, t)
    /\ UNCHANGED <<sideVars, clientVars, stdin, eof, loopVars, poolVars,
                   procVars, cmd, dispatched, cancelled>>

\* The std::thread constructor throws: control passes to catch (...).
LineToolThrow ==
    /\ NextLine("call", Tools) /\ Disturb("throw")
    /\ pc' = "drain"
    /\ lost' = lost \cup {Head(lines).id}
    /\ UNCHANGED <<interrupted, clientVars, stdin, eof, buffered, inFlight,
                   pending, dropTool, ready, stop, poolVars, procVars, workVars,
                   out, dispatched, cancelled>>

\* Protocol methods and lines that do not parse are answered in the loop.
LineSync ==
    /\ NextLine("call", Syncs)
    /\ Write(Head(lines).id, Head(lines).id)
    /\ UNCHANGED <<sideVars, clientVars, stdin, eof, loopVars, poolVars,
                   procVars, workVars, histVars>>

\* terminal_interrupt: SIGINT to whatever the session runs, which is the
\* command of any of the threads that wait there, or to its idle shell.
TerminalInterrupt ==
    interrupted' \in {interrupted}
        \cup {interrupted \cup {u} : u \in {v \in Submits : tool[v] = "running"}}


\* The cancelled request is one the loop waits for, and has submitted a command.
Interrupts(r) == r \in pending \cap Submits

\* notifications/cancelled: cancel_in_flight looks at the held command, then
\* at the workers, then at the tool threads.
LineCancel ==
    /\ NextLine("cancel", Reqs)
    /\ LET r == Head(lines).id IN
       \/ /\ buffered = r
          /\ buffered' = None /\ cancelled' = cancelled \cup {r}
          /\ UNCHANGED <<dropTool, dropReply, down, interrupted>>
       \/ /\ buffered # r /\ PoolCancel(r)
          /\ cancelled' = cancelled \cup {r}
          /\ UNCHANGED <<buffered, dropTool, interrupted>>
       \/ /\ buffered # r /\ Holders(r) = {}
          /\ dropTool' = dropTool \cup ({r} \cap pending)
          /\ cancelled' = cancelled \cup ({r} \cap pending)
          /\ IF Interrupts(r) THEN TerminalInterrupt ELSE UNCHANGED interrupted
          /\ UNCHANGED <<buffered, dropReply, down>>
    /\ UNCHANGED <<lost, clientVars, stdin, eof, pc, inFlight, pending, ready,
                   stop, inflight, proc, cur, up, workVars, out, events,
                   dispatched>>

\* No complete line is left: stop at end of input when nothing is owed.
LinesDone ==
    /\ pc = "lines" /\ lines = <<>>
    /\ pc' = IF eof /\ inFlight = 0 /\ buffered = None THEN "exited" ELSE "poll"
    /\ UNCHANGED <<sideVars, clientVars, readerVars, buffered, inFlight,
                   pending, dropTool, ready, stop, poolVars, procVars, workVars,
                   out, histVars>>

-----------------------------------------------------------------------------
(* rpc_run_loop: poll(2).  None stands for the stdin descriptor.           *)

\* Mutant: standard input is polled after its end, too.
PollStdinAtEof == buffered = None

PollStdin == ~eof /\ buffered = None

Polled == BusyWorkers \cup pending
          \cup (IF PollStdin THEN {None} ELSE {})

Ready == {w \in Workers : Busy(w) /\ Readable(w)}
         \cup {t \in pending : tool[t] = "done"}
         \cup (IF PollStdin /\ (stdin # <<>> \/ closed) THEN {None} ELSE {})

PollNothing ==
    /\ pc = "poll" /\ Polled = {}
    /\ pc' = "exited"
    /\ UNCHANGED <<sideVars, clientVars, readerVars, buffered, inFlight,
                   pending, dropTool, ready, stop, poolVars, procVars, workVars,
                   out, histVars>>

PollReturns ==
    /\ pc = "poll" /\ Ready # {}
    /\ ready' = Ready /\ pc' = "handle"
    /\ UNCHANGED <<sideVars, clientVars, readerVars, buffered, inFlight,
                   pending, dropTool, stop, poolVars, procVars, workVars, out,
                   histVars>>

\* poll() fails, but not for a signal: the loop is left as it is.
PollFails ==
    /\ pc = "poll" /\ Disturb("pollfail")
    /\ pc' = "failed"
    /\ UNCHANGED <<sideVars, clientVars, readerVars, buffered, inFlight,
                   pending, dropTool, ready, stop, poolVars, procVars, workVars,
                   out, dispatched, cancelled>>

Left == pc \in {"exited", "failed"}

\* A signal other than a termination request: poll() returns EINTR.
PollInterrupted ==
    /\ pc = "poll" /\ Ready = {} /\ Disturb("eintr")
    /\ pc' = "top"
    /\ UNCHANGED <<sideVars, clientVars, readerVars, buffered, inFlight,
                   pending, dropTool, ready, stop, poolVars, procVars, workVars,
                   out, dispatched, cancelled>>

\* rpc_request_shutdown, from the handler of SIGTERM, SIGINT and SIGHUP: the
\* flag is set, and a poll() in progress returns EINTR.
SigTerm ==
    /\ ~Left /\ ~stop /\ Disturb("sigterm")
    /\ stop' = TRUE
    /\ pc' = IF pc = "poll" THEN "top" ELSE pc
    /\ UNCHANGED <<sideVars, clientVars, readerVars, buffered, inFlight,
                   pending, dropTool, ready, poolVars, procVars, workVars, out,
                   dispatched, cancelled>>

-----------------------------------------------------------------------------
(* rpc_run_loop: what poll() reported, stdin first, then the workers in    *)
(* index order, then the tools.                                            *)

\* LineReader::fill reads until EAGAIN or end of file.
Fill ==
    /\ pc = "handle" /\ None \in ready
    /\ lines' = lines \o stdin /\ stdin' = <<>> /\ eof' = closed
    /\ ready' = ready \ {None}
    /\ UNCHANGED <<sideVars, clientVars, pc, buffered, inFlight, pending,
                   dropTool, stop, poolVars, procVars, workVars, out, histVars>>

\* fill() hits the 64 MiB cap: the input ends there and an error with a null
\* id is written; what was complete before stays in the buffer.
FillOverflow ==
    /\ pc = "handle" /\ None \in ready /\ stdin # <<>> /\ Disturb("overflow")
    /\ \E n \in 0..(Len(stdin) - 1) :
          /\ lines' = lines \o SubSeq(stdin, 1, n)
          /\ lost' = lost \cup {r \in Reqs : \E i \in (n + 1)..Len(stdin) : stdin[i] = Call(r)}
    /\ stdin' = <<>> /\ eof' = TRUE
    /\ ready' = ready \ {None}
    /\ Write(None, None)
    /\ UNCHANGED <<interrupted, clientVars, pc, buffered, inFlight, pending,
                   dropTool, stop, poolVars, procVars, workVars, dispatched,
                   cancelled>>

\* collect() and the reply to the client, unless the request was cancelled.
HandleWorker(w) ==
    /\ pc = "handle" /\ None \notin ready /\ First(w, ready \cap Workers)
    /\ CollectReply(w) \/ CollectCrash(w)
    /\ IF dropReply[w] THEN UNCHANGED out
       ELSE Write(inflight[w], IF up[w] # <<>> THEN Head(up[w]) ELSE Crash)
    /\ inFlight' = inFlight - 1
    /\ ready' = ready \ {w}
    /\ UNCHANGED <<sideVars, clientVars, readerVars, pc, buffered, pending,
                   dropTool, stop, workVars, dispatched, cancelled>>

\* Mutant: the entry's cancelled flag is not looked at.
HandleToolAlways(t) ==
    /\ pc = "handle" /\ ready \subseteq Tools /\ t \in ready
    /\ Write(t, t)
    /\ pending' = pending \ {t} /\ dropTool' = dropTool \ {t}
    /\ inFlight' = inFlight - 1
    /\ ready' = ready \ {t}
    /\ UNCHANGED <<sideVars, clientVars, readerVars, pc, buffered, stop,
                   poolVars, procVars, workVars, histVars>>

HandleTool(t) ==
    /\ pc = "handle" /\ ready \subseteq Tools /\ t \in ready
    /\ IF t \in dropTool THEN UNCHANGED out ELSE Write(t, t)
    /\ pending' = pending \ {t} /\ dropTool' = dropTool \ {t}
    /\ inFlight' = inFlight - 1
    /\ ready' = ready \ {t}
    /\ UNCHANGED <<sideVars, clientVars, readerVars, pc, buffered, stop,
                   poolVars, procVars, workVars, histVars>>

\* The payload of a finished tool cannot be read, or is one the loop refuses:
\* the request is over without a reply.
HandleToolUnread(t) ==
    /\ pc = "handle" /\ ready \subseteq Tools /\ t \in ready /\ Disturb("unread")
    /\ pending' = pending \ {t} /\ dropTool' = dropTool \ {t}
    /\ inFlight' = inFlight - 1
    /\ ready' = ready \ {t}
    /\ lost' = lost \cup {t}
    /\ UNCHANGED <<interrupted, clientVars, readerVars, pc, buffered, stop,
                   poolVars, procVars, workVars, out, dispatched, cancelled>>

HandleDone ==
    /\ pc = "handle" /\ ready = {}
    /\ pc' = "top"
    /\ UNCHANGED <<sideVars, clientVars, readerVars, buffered, inFlight,
                   pending, dropTool, ready, stop, poolVars, procVars, workVars,
                   out, histVars>>

-----------------------------------------------------------------------------
(* catch (...): wait for every busy worker in turn and throw its reply     *)
(* away, close the tool descriptors and forget the held command.           *)

DrainWorker(w) ==
    /\ pc = "drain" /\ First(w, BusyWorkers)
    /\ CollectReply(w) \/ CollectCrash(w)
    /\ inFlight' = inFlight - 1
    /\ lost' = lost \cup {inflight[w]}
    /\ UNCHANGED <<interrupted, clientVars, readerVars, pc, buffered, pending,
                   dropTool, ready, stop, workVars, out, dispatched, cancelled>>

DrainDone ==
    /\ pc = "drain" /\ Idle = Workers
    /\ pending' = {} /\ dropTool' = {} /\ inFlight' = 0 /\ buffered' = None
    /\ lost' = lost \cup pending \cup ({buffered} \ {None})
    /\ pc' = "top"
    /\ UNCHANGED <<interrupted, clientVars, readerVars, ready, stop, poolVars,
                   procVars, workVars, out, histVars>>

-----------------------------------------------------------------------------
(* The worker process: worker_loop, with run_shell_command reduced to the  *)
(* state of the command and of the worker.  A "running" worker watches its *)
(* socket; one that is "reaping", because the command has closed its       *)
(* streams, or whose kill "missed" waits in waitpid(2) for the command.    *)

\* An idle worker skips a cancel marker that came too late.
WorkerSkip(w) ==
    /\ proc[w] = "idle" /\ down[w] # <<>> /\ Head(down[w]) = Cancel
    /\ down' = [down EXCEPT ![w] = Tail(@)]
    /\ UNCHANGED <<sideVars, clientVars, readerVars, loopVars, poolVars, proc,
                   cur, up, workVars, out, histVars>>

\* The command is forked; its process group is its own after setpgid(2).
WorkerStart(w) ==
    /\ proc[w] = "idle" /\ down[w] # <<>> /\ Head(down[w]) # Cancel
    /\ proc' = [proc EXCEPT ![w] = "running"]
    /\ cur' = [cur EXCEPT ![w] = Head(down[w])]
    /\ cmd' = [cmd EXCEPT ![Head(down[w])] = "forked"]
    /\ down' = [down EXCEPT ![w] = Tail(@)]
    /\ UNCHANGED <<sideVars, clientVars, readerVars, loopVars, poolVars, up,
                   tool, out, histVars>>

Setpgid(r) ==
    /\ cmd[r] = "forked"
    /\ cmd' = [cmd EXCEPT ![r] = "running"]
    /\ UNCHANGED <<sideVars, clientVars, readerVars, loopVars, poolVars,
                   procVars, tool, out, histVars>>

\* Both streams of the command are at their end while it runs on.
WorkerReaps(w) ==
    /\ proc[w] = "running" /\ cmd[cur[w]] = "running" /\ Disturb("detach")
    /\ proc' = [proc EXCEPT ![w] = "reaping"]
    /\ UNCHANGED <<sideVars, clientVars, readerVars, loopVars, poolVars, cur,
                   down, up, workVars, out, dispatched, cancelled>>

\* The command ends by itself or by its timeout, and the reply is written.
WorkerFinish(w) ==
    /\ proc[w] \in {"running", "reaping"} /\ cmd[cur[w]] = "running"
    /\ proc' = [proc EXCEPT ![w] = "idle"]
    /\ cur' = [cur EXCEPT ![w] = None]
    /\ up' = [up EXCEPT ![w] = Append(@, cur[w])]
    /\ cmd' = [cmd EXCEPT ![cur[w]] = "finished"]
    /\ UNCHANGED <<sideVars, clientVars, readerVars, loopVars, poolVars, down,
                   tool, out, histVars>>

\* Anything on the socket while a command runs means "stop": the command's
\* process group is killed and the worker exits without a reply.
WorkerCancelled(w) ==
    /\ proc[w] = "running" /\ cmd[cur[w]] = "running" /\ down[w] # <<>>
    /\ proc' = [proc EXCEPT ![w] = "dead"]
    /\ cur' = [cur EXCEPT ![w] = None]
    /\ cmd' = [cmd EXCEPT ![cur[w]] = "killed"]
    /\ UNCHANGED <<sideVars, clientVars, readerVars, loopVars, poolVars, down,
                   up, tool, out, histVars>>

\* The group is not there yet: the kill reaches nobody, and the worker waits
\* for a command that nothing stops any more.
KillMisses(w) ==
    /\ proc[w] = "running" /\ cmd[cur[w]] = "forked" /\ down[w] # <<>>
    /\ proc' = [proc EXCEPT ![w] = "missed"]
    /\ UNCHANGED <<sideVars, clientVars, readerVars, loopVars, poolVars, cur,
                   down, up, workVars, out, histVars>>

\* When that command ends the worker exits, without a reply.
MissedEnds(w) ==
    /\ proc[w] = "missed" /\ cmd[cur[w]] = "running"
    /\ proc' = [proc EXCEPT ![w] = "dead"]
    /\ cur' = [cur EXCEPT ![w] = None]
    /\ cmd' = [cmd EXCEPT ![cur[w]] = "finished"]
    /\ UNCHANGED <<sideVars, clientVars, readerVars, loopVars, poolVars, down,
                   up, tool, out, histVars>>

\* The worker itself dies (OOM killer, a fault); a command it was running
\* is in a process group of its own and goes on.
WorkerCrash(w) ==
    /\ ~Left /\ Alive(w)
    /\ Disturb(IF Busy(w) /\ up[w] = <<>> THEN "crash_busy" ELSE "crash_idle")
    /\ proc' = [proc EXCEPT ![w] = "dead"]
    /\ cur' = [cur EXCEPT ![w] = None]
    /\ cmd' = IF Runs(w) THEN [cmd EXCEPT ![cur[w]] = "orphan"]
              ELSE cmd
    /\ UNCHANGED <<sideVars, clientVars, readerVars, loopVars, poolVars, down,
                   up, tool, out, dispatched, cancelled>>

\* The detached thread of a tool request writes its response.
ToolFinish(t) ==
    /\ tool[t] = "running"
    /\ tool' = [tool EXCEPT ![t] = "done"]
    /\ UNCHANGED <<sideVars, clientVars, readerVars, loopVars, poolVars,
                   procVars, cmd, out, histVars>>

-----------------------------------------------------------------------------

Client == \/ \E r \in Reqs : ClientSend(r) \/ ClientCancel(r)
          \/ ClientClose

Loop == \/ TopStop \/ TopDispatchBuffered \/ TopPass
        \/ LineCmdDispatch \/ LineCmdBuffer \/ LineTool \/ LineToolInline
        \/ LineToolThrow \/ LineSync \/ LineCancel \/ LinesDone
        \/ PollNothing \/ PollReturns \/ PollInterrupted \/ PollFails
        \/ Fill \/ FillOverflow \/ HandleDone \/ DrainDone
        \/ \E w \in Workers : HandleWorker(w) \/ DrainWorker(w)
        \/ \E t \in Tools : HandleTool(t) \/ HandleToolUnread(t)

WorkerStep(w) == WorkerSkip(w) \/ WorkerStart(w) \/ WorkerCancelled(w) \/ KillMisses(w)

\* What the command does, and when.
CommandStep(w) == WorkerReaps(w) \/ WorkerFinish(w) \/ MissedEnds(w)

\* After the loop main() takes everything down (module PoolShutdown).
Exited == Left /\ UNCHANGED vars

Next == \/ Client \/ Loop \/ SigTerm \/ Exited
        \/ \E w \in Workers : WorkerStep(w) \/ CommandStep(w) \/ WorkerCrash(w)
        \/ \E r \in Cmds : Setpgid(r)
        \/ \E t \in Tools : ToolFinish(t)

Spec == Init /\ [][Next]_vars

(* Fairness.  The coordinator, the workers and a forked child are ordinary *)
(* processes that the kernel schedules, and a tool handler ends.  Nothing  *)
(* makes a shell command end or close its streams.                         *)
FairSpec == /\ Spec /\ WF_vars(Loop)
            /\ \A w \in Workers : WF_vars(WorkerStep(w))
            /\ \A r \in Cmds : WF_vars(Setpgid(r))
            /\ \A t \in Tools : WF_vars(ToolFinish(t))

-----------------------------------------------------------------------------
(* Properties.                                                             *)

\* A reply carries the result of the command its id asked for: collect()
\* labels whatever it reads with inflight_id, so a reply left in a socket
\* would be given to the next request.
ReplyIsOwn == \A r \in Reqs : \A i \in DOMAIN out[r] : out[r][i] \in {r, Crash}

\* However a completion, a crash and a cancellation race, the client sees at
\* most one reply to an id (collect runs once per dispatch), and none once a
\* cancellation has found the request in flight, even when the reply was
\* already on its way.
OneOutcome ==
    \A r \in Reqs : /\ Len(out[r]) <= 1
                    /\ r \in cancelled => out[r] = <<>>

\* The state of a request as the client sees it.
ClientView ==
    [r \in Reqs |-> IF r \notin Sent THEN "new"
                   ELSE IF r \in cancelled /\ out[r] = <<>> THEN "cancelled"
                   ELSE IF r \in cancelled THEN "wrong"
                   ELSE IF out[r] = <<>> THEN "asked"
                   ELSE IF out[r] = <<r>> THEN "answered"
                   ELSE IF out[r] = <<Crash>> THEN "failed"
                   ELSE "wrong"]

Service == INSTANCE RpcService WITH Requests <- Reqs, state <- ClientView

\* rpc_run_loop, the pool and the workers together implement RpcService:
\* whatever races, a request is settled once, by its own result, a crash or
\* a cancellation, and stays so.
ImplementsService == Service!Spec

\* Only a command the client gave up on is killed: a marker that reaches a
\* worker after its command has ended must not stop the next one.
KillsOnlyCancelled == \A r \in Cmds : cmd[r] = "killed" => r \in cancelled

\* in_flight never undercounts, so the test at end of input cannot leave the
\* loop while a worker or a tool thread owes a reply.
InFlightCovers == inFlight >= Cardinality(BusyWorkers) + Cardinality(pending)

\* The loop leaves at end of input only when nothing is running, waiting or
\* unread.  (After a signal, or a failure of poll(2), it leaves at once.)
ExitOwesNothing ==
    pc = "exited" /\ ~stop =>
        BusyWorkers = {} /\ pending = {} /\ buffered = None /\ lines = <<>>

\* What worker w's socket can hold.  A request is in one place only (the
\* socket, running, or answered), it is the worker's own, and something
\* follows it only when it has been cancelled.
Disciplined(w) ==
    /\ \A i \in DOMAIN down[w] : down[w][i] # Cancel =>
          /\ inflight[w] = down[w][i] /\ ~Runs(w) /\ up[w] = <<>>
          /\ i # Len(down[w]) => inflight[w] \in cancelled
    /\ \A i, j \in DOMAIN down[w] :
          down[w][i] # Cancel /\ down[w][j] # Cancel => i = j
    /\ Runs(w) =>
          /\ Busy(w) /\ cur[w] = inflight[w] /\ up[w] = <<>>
          /\ down[w] # <<>> => cur[w] \in cancelled
    /\ up[w] # <<>> => Busy(w) /\ up[w] = <<inflight[w]>>

\* The protocol on the socketpairs: a marker an idle worker meets is stale,
\* one a running worker meets is for the command it runs, and a reply in the
\* socket is the one collect() is about to label it as.
SocketDiscipline == \A w \in Workers : Disciplined(w)

\* A busy worker holds exactly its own request: still in the socket, running,
\* answered, or lost with a dead process that poll() reports.  This is what
\* keeps the loop from polling a descriptor that will never be ready.
BusyIsOwed ==
    \A w \in Workers : Busy(w) /\ Alive(w) =>
        \/ \E i \in DOMAIN down[w] : down[w][i] = inflight[w]
        \/ cur[w] = inflight[w]
        \/ up[w] = <<inflight[w]>>

\* The books of the loop: the three statements above together.
Accounting == InFlightCovers /\ ExitOwesNothing /\ BusyIsOwed

\* Commands reach the workers in the order the client sent them, the held one
\* before any line read after it.
DispatchInOrder ==
    \A i, j \in DOMAIN dispatched : i < j =>
        \E a, b \in DOMAIN sent :
            a < b /\ sent[a] = dispatched[i] /\ sent[b] = dispatched[j]

\* The command held for want of a worker is dispatched or cancelled; it is
\* never replaced by a later one.
HeldNotReplaced ==
    [][buffered # None /\ buffered' # buffered => buffered' = None]_vars

\* A command that will not end, with a worker that waits for it.
Endless == \E c \in Cmds : [](cmd[c] \in {"forked", "running"})

\* Every request is eventually answered or cancelled, whatever disturbs the
\* server, unless it is one the loop is known to drop, or is sent after the
\* input overflowed, or the server is told to stop or poll(2) fails, or some
\* command runs for ever.
Answered ==
    \A r \in Reqs :
        r \in Sent ~> \/ out[r] # <<>> \/ r \in cancelled \/ r \in lost
                      \/ out[None] # <<>> /\ Call(r) \in {stdin[i] : i \in DOMAIN stdin}
                      \/ stop \/ pc = "failed" \/ Endless

\* After the client has closed its end the loop ends, too, however much
\* in_flight may overcount.
EndsAtEof == closed ~> Left \/ stop \/ Endless

Progress == Answered /\ EndsAtEof

CmdAlive(r) == cmd[r] \in {"forked", "running", "orphan"}

\* What a cancellation does not reach: a command whose worker died, and one
\* whose worker waits in waitpid(2), because the command had closed its
\* streams or because the kill came before its setpgid(2).
Evades(r) ==
    \/ cmd[r] = "orphan"
    \/ \E w \in Workers : cur[w] = r /\ proc[w] \in {"reaping", "missed"}

\* A cancellation that found its command in flight ends it, unless it evades:
\* the command never runs on, even though it would not have ended by itself.
CancelTakesEffect ==
    \A r \in Cmds : r \in cancelled ~> Evades(r) \/ [](~CmdAlive(r))

=============================================================================
