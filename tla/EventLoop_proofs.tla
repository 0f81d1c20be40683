-------------------------- MODULE EventLoop_proofs --------------------------
(***************************************************************************)
(* Theorems about EventLoop, for every number of workers and requests and  *)
(* every sequence of disturbances.  First its types, and the two promises  *)
(* that rest on the discipline of the sockets: only a cancelled command is *)
(* killed, and a reply carries the result of its own request.  Then that a *)
(* request has one outcome and that the loop, with its pool, workers and   *)
(* tool threads, implements RpcService: an id is in one place at a time,   *)
(* unread input, held, one worker's slot, a tool thread, or settled.  Last *)
(* the loop's books, in_flight and its exit, and the order in which        *)
(* commands start, which rest on that.                                     *)
(***************************************************************************)
EXTENDS EventLoop, TLAPS, SequenceTheorems, FiniteSetTheorems

\* The initial state is well typed.
LEMMA InitTypeOK == Init => TypeOK
  <1>1. SUFFICES ASSUME Init PROVE TypeOK
    OBVIOUS
  <1>2. /\ sent \in Seq(Reqs) /\ stdin \in Seq(Messages) /\ lines \in Seq(Messages)
        /\ dispatched \in Seq(Cmds)
    BY <1>1 DEF Init
  <1>3. /\ inflight \in [Workers -> Cmds \cup {None}]
        /\ dropReply \in [Workers -> BOOLEAN]
        /\ proc \in [Workers -> {"idle", "running", "reaping", "missed", "dead", "none"}]
        /\ cur \in [Workers -> Cmds \cup {None}]
        /\ cmd \in [Cmds -> {"new", "forked", "running", "finished", "killed", "orphan"}]
        /\ tool \in [Tools -> {"new", "running", "done"}]
    BY <1>1 DEF Init
  <1>4. /\ down \in [Workers -> Seq(Cmds \cup {Cancel})]
        /\ up \in [Workers -> Seq(Cmds)]
        /\ out \in [Reqs \cup {None} -> Seq(Reqs \cup {None, Crash})]
    BY <1>1 DEF Init
  <1>5. events \in 0..MaxEvents /\ inFlight \in Int
    BY <1>1, EventsAssumption DEF Init
  <1>6. /\ gaveUp \subseteq Reqs /\ cancelled \subseteq Reqs
        /\ closed \in BOOLEAN /\ eof \in BOOLEAN /\ stop \in BOOLEAN
        /\ pc \in {"top", "lines", "poll", "handle", "drain", "exited", "failed"}
        /\ buffered \in Cmds \cup {None}
        /\ pending \subseteq Tools /\ dropTool \subseteq Tools
        /\ ready \subseteq Workers \cup Tools \cup {None}
    BY <1>1 DEF Init
  <1>7. lost \subseteq Reqs /\ interrupted \subseteq Submits
    BY <1>1 DEF Init
  <1>8. QED
    BY <1>2, <1>3, <1>4, <1>5, <1>6, <1>7 DEF TypeOK

USE DEF clientVars, readerVars, loopVars, poolVars, procVars, workVars, histVars, sideVars

\* What is left of a sequence after its first element is a sequence.
LEMMA TailType == ASSUME NEW S, NEW s \in Seq(S), s # <<>>
                  PROVE  Head(s) \in S /\ Tail(s) \in Seq(S)
  OBVIOUS

\* The client's steps keep the types.
LEMMA ClientTypeOK == TypeOK /\ Client => TypeOK'
  <1>1. SUFFICES ASSUME TypeOK, Client PROVE TypeOK'
    OBVIOUS
  <1>2. ASSUME NEW r \in Reqs, ClientSend(r) PROVE TypeOK'
    BY <1>1, <1>2 DEF TypeOK, ClientSend, Call, Messages
  <1>3. ASSUME NEW r \in Reqs, ClientCancel(r) PROVE TypeOK'
    BY <1>1, <1>3 DEF TypeOK, ClientCancel, CancelOf, Messages
  <1>4. CASE ClientClose
    BY <1>1, <1>4 DEF TypeOK, ClientClose
  <1>5. QED
    BY <1>1, <1>2, <1>3, <1>4 DEF Client

\* A message that the line loop takes names a request of its kind.
LEMMA NextLineType ==
  ASSUME TypeOK, NEW kind, NEW ids, NextLine(kind, ids)
  PROVE  /\ pc = "lines" /\ lines # <<>> /\ lines' \in Seq(Messages)
         /\ Head(lines).id \in ids /\ Head(lines).id \in Reqs
  <1>1. lines \in Seq(Messages) /\ lines # <<>> /\ lines' = Tail(lines)
    BY DEF TypeOK, NextLine
  <1>2. Head(lines) \in Messages /\ Tail(lines) \in Seq(Messages)
    BY <1>1, TailType
  <1>3. Head(lines).id \in Reqs
    BY <1>2 DEF Messages
  <1>4. QED
    BY <1>1, <1>2, <1>3 DEF NextLine

\* One more entry on stdout for a request.
LEMMA WriteType ==
  ASSUME TypeOK, NEW r \in Reqs \cup {None}, NEW b \in Reqs \cup {None, Crash},
         Write(r, b)
  PROVE  out' \in [Reqs \cup {None} -> Seq(Reqs \cup {None, Crash})]
  BY DEF TypeOK, Write

\* try_dispatch touches the socket, the slot and the history only.
LEMMA TryDispatchType ==
  ASSUME TypeOK, NEW r \in Cmds, TryDispatch(r)
  PROVE  /\ down' \in [Workers -> Seq(Cmds \cup {Cancel})]
         /\ inflight' \in [Workers -> Cmds \cup {None}]
         /\ dispatched' \in Seq(Cmds)
         /\ lost' \subseteq Reqs
  <1>1. PICK w \in Workers :
           IF Alive(w)
           THEN /\ down' = [down EXCEPT ![w] = Append(@, r)]
                /\ inflight' = [inflight EXCEPT ![w] = r]
                /\ dispatched' = Append(dispatched, r)
                /\ UNCHANGED lost
           ELSE lost' = lost \cup {r} /\ UNCHANGED <<down, inflight, dispatched>>
    BY DEF TryDispatch
  <1>2. CASE Alive(w)
    <2>1. Append(down[w], r) \in Seq(Cmds \cup {Cancel})
      BY DEF TypeOK
    <2>2. down' \in [Workers -> Seq(Cmds \cup {Cancel})]
      BY <1>1, <1>2, <2>1 DEF TypeOK
    <2>3. inflight' \in [Workers -> Cmds \cup {None}]
      BY <1>1, <1>2 DEF TypeOK
    <2>4. dispatched' \in Seq(Cmds)
      <3>1. dispatched \in Seq(Cmds) /\ dispatched' = Append(dispatched, r)
        BY <1>1, <1>2 DEF TypeOK
      <3>2. QED
        BY <3>1
    <2>5. lost' \subseteq Reqs
      BY <1>1, <1>2 DEF TypeOK
    <2>6. QED
      BY <2>2, <2>3, <2>4, <2>5
  <1>3. CASE ~Alive(w)
    BY <1>1, <1>3 DEF TypeOK, Reqs
  <1>4. QED
    BY <1>2, <1>3

\* cancel() marks one worker and appends the marker to its socket.
LEMMA PoolCancelType ==
  ASSUME TypeOK, NEW r \in Reqs, PoolCancel(r)
  PROVE  /\ down' \in [Workers -> Seq(Cmds \cup {Cancel})]
         /\ dropReply' \in [Workers -> BOOLEAN]
  BY DEF TypeOK, PoolCancel

\* collect() keeps the types, on either of its two paths.
LEMMA CollectType ==
  ASSUME TypeOK, NEW w \in Workers, CollectReply(w) \/ CollectCrash(w)
  PROVE  /\ up' \in [Workers -> Seq(Cmds)]
         /\ down' \in [Workers -> Seq(Cmds \cup {Cancel})]
         /\ inflight' \in [Workers -> Cmds \cup {None}]
         /\ dropReply' \in [Workers -> BOOLEAN]
         /\ cur' \in [Workers -> Cmds \cup {None}]
         /\ proc' \in [Workers -> {"idle", "running", "reaping", "missed", "dead", "none"}]
         /\ events' \in 0..MaxEvents
  <1>1. CASE CollectReply(w)
    <2>1. Tail(up[w]) \in Seq(Cmds)
      BY <1>1, TailType DEF TypeOK, CollectReply
    <2>2. QED
      BY <1>1, <2>1 DEF TypeOK, CollectReply
  <1>2. CASE CollectCrash(w)
    <2>1. /\ up' \in [Workers -> Seq(Cmds)]
          /\ down' \in [Workers -> Seq(Cmds \cup {Cancel})]
      <3>1. <<>> \in Seq(Cmds) /\ <<>> \in Seq(Cmds \cup {Cancel})
        OBVIOUS
      <3>2. /\ up \in [Workers -> Seq(Cmds)] /\ up' = [up EXCEPT ![w] = <<>>]
            /\ down \in [Workers -> Seq(Cmds \cup {Cancel})]
            /\ down' = [down EXCEPT ![w] = <<>>]
        BY <1>2 DEF TypeOK, CollectCrash
      <3>3. QED
        BY <3>1, <3>2
    <2>2. /\ inflight' \in [Workers -> Cmds \cup {None}]
          /\ cur' \in [Workers -> Cmds \cup {None}]
          /\ dropReply' \in [Workers -> BOOLEAN]
      BY <1>2 DEF TypeOK, CollectCrash
    <2>3. proc' \in [Workers -> {"idle", "running", "reaping", "missed", "dead", "none"}]
      BY <1>2 DEF TypeOK, CollectCrash
    <2>4. events' \in 0..MaxEvents
      BY <1>2, EventsAssumption DEF TypeOK, CollectCrash, Disturb
    <2>5. QED
      BY <2>1, <2>2, <2>3, <2>4
  <1>3. QED
    BY <1>1, <1>2

\* The steps of the loop at its top and in poll() keep the types.
LEMMA TopPollTypeOK ==
  ASSUME TypeOK,
         \/ TopStop \/ TopDispatchBuffered \/ TopPass
         \/ LinesDone \/ PollNothing \/ PollReturns \/ PollInterrupted \/ PollFails
         \/ HandleDone \/ DrainDone \/ SigTerm
  PROVE  TypeOK'
  <1>1. CASE TopStop
    BY <1>1 DEF TypeOK, TopStop
  <1>2. CASE TopDispatchBuffered
    <2>1. buffered \in Cmds
      BY <1>2 DEF TypeOK, TopDispatchBuffered
    <2>2. /\ down' \in [Workers -> Seq(Cmds \cup {Cancel})]
          /\ inflight' \in [Workers -> Cmds \cup {None}]
          /\ dispatched' \in Seq(Cmds) /\ lost' \subseteq Reqs
      BY <1>2, <2>1, TryDispatchType DEF TopDispatchBuffered
    <2>3. QED
      BY <1>2, <2>2 DEF TypeOK, TopDispatchBuffered
  <1>3. CASE TopPass
    BY <1>3 DEF TypeOK, TopPass
  <1>4. CASE LinesDone
    BY <1>4 DEF TypeOK, LinesDone
  <1>5. CASE PollNothing
    BY <1>5 DEF TypeOK, PollNothing
  <1>6. CASE PollReturns
    <2>1. Ready \subseteq Workers \cup Tools \cup {None}
      BY DEF TypeOK, Ready
    <2>2. QED
      BY <1>6, <2>1 DEF TypeOK, PollReturns
  <1>7. CASE PollInterrupted \/ PollFails
    <2>1. events' \in 0..MaxEvents
      BY <1>7, EventsAssumption DEF TypeOK, PollInterrupted, PollFails, Disturb
    <2>2. QED
      BY <1>7, <2>1 DEF TypeOK, PollInterrupted, PollFails
  <1>8. CASE HandleDone
    BY <1>8 DEF TypeOK, HandleDone
  <1>9. CASE DrainDone
    <2>1. lost' \subseteq Reqs
      BY <1>9 DEF TypeOK, DrainDone, Reqs
    <2>2. QED
      BY <1>9, <2>1 DEF TypeOK, DrainDone
  <1>10. CASE SigTerm
    <2>1. events' \in 0..MaxEvents
      BY <1>10, EventsAssumption DEF TypeOK, SigTerm, Disturb
    <2>2. QED
      BY <1>10, <2>1 DEF TypeOK, SigTerm
  <1>11. QED
    BY <1>1, <1>2, <1>3, <1>4, <1>5, <1>6, <1>7, <1>8, <1>9, <1>10

\* So does every turn of the line loop.
LEMMA LineTypeOK ==
  ASSUME TypeOK,
         \/ LineCmdDispatch \/ LineCmdBuffer \/ LineTool \/ LineToolInline
         \/ LineToolThrow \/ LineSync \/ LineCancel
  PROVE  TypeOK'
  <1>1. CASE LineCmdDispatch
    <2>1. lines' \in Seq(Messages) /\ Head(lines).id \in Cmds
      BY <1>1, NextLineType DEF LineCmdDispatch
    <2>2. /\ down' \in [Workers -> Seq(Cmds \cup {Cancel})]
          /\ inflight' \in [Workers -> Cmds \cup {None}]
          /\ dispatched' \in Seq(Cmds) /\ lost' \subseteq Reqs
      BY <1>1, <2>1, TryDispatchType DEF LineCmdDispatch
    <2>3. QED
      BY <1>1, <2>1, <2>2 DEF TypeOK, LineCmdDispatch
  <1>2. CASE LineCmdBuffer
    <2>1. lines' \in Seq(Messages) /\ Head(lines).id \in Cmds
      BY <1>2, NextLineType DEF LineCmdBuffer
    <2>2. lost' \subseteq Reqs
      BY <1>2 DEF TypeOK, LineCmdBuffer, Reqs
    <2>3. QED
      BY <1>2, <2>1, <2>2 DEF TypeOK, LineCmdBuffer
  <1>3. CASE LineTool
    <2>1. lines' \in Seq(Messages) /\ Head(lines).id \in Tools
      BY <1>3, NextLineType DEF LineTool
    <2>2. QED
      BY <1>3, <2>1 DEF TypeOK, LineTool
  <1>4. CASE LineToolInline
    <2>1. lines' \in Seq(Messages) /\ Head(lines).id \in Tools
      BY <1>4, NextLineType DEF LineToolInline
    <2>2. events' \in 0..MaxEvents
      BY <1>4, EventsAssumption DEF TypeOK, LineToolInline, Disturb
    <2>3. out' \in [Reqs \cup {None} -> Seq(Reqs \cup {None, Crash})]
      BY <1>4, <2>1, WriteType DEF LineToolInline, Reqs
    <2>4. QED
      BY <1>4, <2>1, <2>2, <2>3 DEF TypeOK, LineToolInline
  <1>5. CASE LineToolThrow
    <2>1. lines' \in Seq(Messages) /\ lost' \subseteq Reqs
      BY <1>5, NextLineType DEF TypeOK, LineToolThrow
    <2>2. events' \in 0..MaxEvents
      BY <1>5, EventsAssumption DEF TypeOK, LineToolThrow, Disturb
    <2>3. QED
      BY <1>5, <2>1, <2>2 DEF TypeOK, LineToolThrow
  <1>6. CASE LineSync
    <2>1. lines' \in Seq(Messages) /\ Head(lines).id \in Reqs
      BY <1>6, NextLineType DEF LineSync
    <2>2. out' \in [Reqs \cup {None} -> Seq(Reqs \cup {None, Crash})]
      BY <1>6, <2>1, WriteType DEF LineSync
    <2>3. QED
      BY <1>6, <2>1, <2>2 DEF TypeOK, LineSync
  <1>7. CASE LineCancel
    <2>1. lines' \in Seq(Messages) /\ Head(lines).id \in Reqs
      BY <1>7, NextLineType DEF LineCancel
    <2>2. buffered' \in Cmds \cup {None} /\ cancelled' \subseteq Reqs
          /\ dropTool' \subseteq Tools
      BY <1>7, <2>1 DEF TypeOK, LineCancel
    <2>3. /\ down' \in [Workers -> Seq(Cmds \cup {Cancel})]
          /\ dropReply' \in [Workers -> BOOLEAN]
      BY <1>7, <2>1, PoolCancelType DEF TypeOK, LineCancel
    <2>4. interrupted' \subseteq Submits
      BY <1>7 DEF TypeOK, LineCancel, TerminalInterrupt
    <2>5. QED
      BY <1>7, <2>1, <2>2, <2>3, <2>4 DEF TypeOK, LineCancel
  <1>8. QED
    BY <1>1, <1>2, <1>3, <1>4, <1>5, <1>6, <1>7

\* So does whatever poll() reported, and the catch block.
LEMMA HandleTypeOK ==
  ASSUME TypeOK,
         \/ Fill \/ FillOverflow
         \/ \E w \in Workers : HandleWorker(w) \/ DrainWorker(w)
         \/ \E t \in Tools : HandleTool(t) \/ HandleToolUnread(t)
  PROVE  TypeOK'
  <1>1. CASE Fill
    <2>1. lines' \in Seq(Messages) /\ stdin' \in Seq(Messages)
      BY <1>1 DEF TypeOK, Fill
    <2>2. QED
      BY <1>1, <2>1 DEF TypeOK, Fill
  <1>2. CASE FillOverflow
    <2>1. lines' \in Seq(Messages) /\ stdin' \in Seq(Messages)
      <3>1. PICK n \in 0..(Len(stdin) - 1) : lines' = lines \o SubSeq(stdin, 1, n)
        BY <1>2 DEF FillOverflow
      <3>2. SubSeq(stdin, 1, n) \in Seq(Messages)
        BY <3>1 DEF TypeOK
      <3>3. lines \in Seq(Messages) /\ stdin' = <<>>
        BY <1>2 DEF TypeOK, FillOverflow
      <3>4. QED
        BY <3>1, <3>2, <3>3
    <2>2. events' \in 0..MaxEvents
      BY <1>2, EventsAssumption DEF TypeOK, FillOverflow, Disturb
    <2>3. out' \in [Reqs \cup {None} -> Seq(Reqs \cup {None, Crash})]
      BY <1>2, WriteType DEF FillOverflow
    <2>4. lost' \subseteq Reqs
      BY <1>2 DEF TypeOK, FillOverflow
    <2>5. QED
      BY <1>2, <2>1, <2>2, <2>3, <2>4 DEF TypeOK, FillOverflow
  <1>3. ASSUME NEW w \in Workers, HandleWorker(w) PROVE TypeOK'
    <2>1. CollectReply(w) \/ CollectCrash(w)
      BY <1>3 DEF HandleWorker
    <2>2. out' \in [Reqs \cup {None} -> Seq(Reqs \cup {None, Crash})]
      <3>1. CASE dropReply[w]
        BY <1>3, <3>1 DEF TypeOK, HandleWorker
      <3>2. CASE ~dropReply[w]
        <4>1. inflight[w] \in Reqs \cup {None}
          BY DEF TypeOK, Reqs
        <4>2. (IF up[w] # <<>> THEN Head(up[w]) ELSE Crash) \in Reqs \cup {None, Crash}
          BY TailType DEF TypeOK, Reqs
        <4>3. QED
          BY <1>3, <3>2, <4>1, <4>2, WriteType DEF HandleWorker
      <3>3. QED
        BY <3>1, <3>2
    <2>3. /\ inFlight' = inFlight - 1 /\ ready' = ready \ {w}
          /\ UNCHANGED <<clientVars, readerVars, pc, buffered, pending, dropTool,
                         stop, workVars, dispatched, cancelled, lost, interrupted>>
      BY <1>3 DEF HandleWorker
    <2>4. /\ up' \in [Workers -> Seq(Cmds)]
          /\ down' \in [Workers -> Seq(Cmds \cup {Cancel})]
          /\ inflight' \in [Workers -> Cmds \cup {None}]
          /\ dropReply' \in [Workers -> BOOLEAN]
          /\ cur' \in [Workers -> Cmds \cup {None}]
          /\ proc' \in [Workers -> {"idle", "running", "reaping", "missed", "dead", "none"}]
          /\ events' \in 0..MaxEvents
      BY <2>1, CollectType
    <2>5. inFlight' \in Int /\ ready' \subseteq Workers \cup Tools \cup {None}
      BY <2>3 DEF TypeOK
    <2>6. QED
      BY <2>2, <2>3, <2>4, <2>5 DEF TypeOK
  <1>4. ASSUME NEW w \in Workers, DrainWorker(w) PROVE TypeOK'
    <2>1. CollectReply(w) \/ CollectCrash(w)
      BY <1>4 DEF DrainWorker
    <2>2. lost' \subseteq Reqs
      BY <1>4 DEF TypeOK, DrainWorker, First, BusyWorkers, Busy, Reqs
    <2>3. /\ up' \in [Workers -> Seq(Cmds)]
          /\ down' \in [Workers -> Seq(Cmds \cup {Cancel})]
          /\ inflight' \in [Workers -> Cmds \cup {None}]
          /\ dropReply' \in [Workers -> BOOLEAN]
          /\ cur' \in [Workers -> Cmds \cup {None}]
          /\ proc' \in [Workers -> {"idle", "running", "reaping", "missed", "dead", "none"}]
          /\ events' \in 0..MaxEvents
      BY <2>1, CollectType
    <2>4. /\ inFlight' = inFlight - 1
          /\ UNCHANGED <<clientVars, readerVars, pc, buffered, pending, dropTool, ready,
                         stop, workVars, out, dispatched, cancelled, interrupted>>
      BY <1>4 DEF DrainWorker
    <2>5. inFlight' \in Int
      BY <2>4 DEF TypeOK
    <2>6. QED
      BY <2>2, <2>3, <2>4, <2>5 DEF TypeOK
  <1>5. ASSUME NEW t \in Tools, HandleTool(t) PROVE TypeOK'
    <2>1. out' \in [Reqs \cup {None} -> Seq(Reqs \cup {None, Crash})]
      <3>1. t \in Reqs
        BY DEF Reqs
      <3>2. QED
        BY <1>5, <3>1, WriteType DEF TypeOK, HandleTool
    <2>2. QED
      BY <1>5, <2>1 DEF TypeOK, HandleTool
  <1>6. ASSUME NEW t \in Tools, HandleToolUnread(t) PROVE TypeOK'
    <2>1. events' \in 0..MaxEvents /\ lost' \subseteq Reqs
      BY <1>6, EventsAssumption DEF TypeOK, HandleToolUnread, Disturb, Reqs
    <2>2. QED
      BY <1>6, <2>1 DEF TypeOK, HandleToolUnread
  <1>7. QED
    BY <1>1, <1>2, <1>3, <1>4, <1>5, <1>6

\* The workers and the tool threads keep the types.  That a worker which runs
\* has a command, and so has something to answer, is SocketDiscipline's.
LEMMA WorkerTypeOK ==
  ASSUME TypeOK, SocketDiscipline, NEW w \in Workers,
         WorkerStep(w) \/ CommandStep(w) \/ WorkerCrash(w)
  PROVE  TypeOK'
  <1>1. CASE WorkerSkip(w)
    <2>1. Tail(down[w]) \in Seq(Cmds \cup {Cancel})
      BY <1>1, TailType DEF TypeOK, WorkerSkip
    <2>2. QED
      BY <1>1, <2>1 DEF TypeOK, WorkerSkip
  <1>2. CASE WorkerStart(w)
    <2>1. Tail(down[w]) \in Seq(Cmds \cup {Cancel}) /\ Head(down[w]) \in Cmds
      BY <1>2, TailType DEF TypeOK, WorkerStart
    <2>2. QED
      BY <1>2, <2>1 DEF TypeOK, WorkerStart
  <1>3. CASE WorkerCancelled(w)
    BY <1>3 DEF TypeOK, WorkerCancelled
  <1>4. CASE WorkerFinish(w)
    <2>1. cur[w] \in Cmds
      BY <1>4 DEF TypeOK, SocketDiscipline, Disciplined, Busy, Runs, WorkerFinish
    <2>2. Append(up[w], cur[w]) \in Seq(Cmds)
      BY <2>1 DEF TypeOK
    <2>3. QED
      BY <1>4, <2>1, <2>2 DEF TypeOK, WorkerFinish
  <1>5. CASE WorkerCrash(w)
    <2>1. events' \in 0..MaxEvents
      BY <1>5, EventsAssumption DEF TypeOK, WorkerCrash, Disturb
    <2>2. QED
      BY <1>5, <2>1 DEF TypeOK, WorkerCrash
  <1>6. CASE KillMisses(w)
    BY <1>6 DEF TypeOK, KillMisses
  <1>7. CASE MissedEnds(w)
    BY <1>7 DEF TypeOK, MissedEnds
  <1>8. CASE WorkerReaps(w)
    <2>1. events' \in 0..MaxEvents
      BY <1>8, EventsAssumption DEF TypeOK, WorkerReaps, Disturb
    <2>2. QED
      BY <1>8, <2>1 DEF TypeOK, WorkerReaps
  <1>9. QED
    BY <1>1, <1>2, <1>3, <1>4, <1>5, <1>6, <1>7, <1>8 DEF WorkerStep, CommandStep

\* A tool thread's answer keeps the types.
LEMMA ToolTypeOK ==
  ASSUME TypeOK, NEW t \in Tools, ToolFinish(t)
  PROVE  TypeOK'
  BY DEF TypeOK, ToolFinish

\* Every step keeps the types, given the discipline of the sockets.
LEMMA NextTypeOK == TypeOK /\ SocketDiscipline /\ [Next]_vars => TypeOK'
  <1>1. SUFFICES ASSUME TypeOK, SocketDiscipline, [Next]_vars PROVE TypeOK'
    OBVIOUS
  <1>2. CASE UNCHANGED vars
    BY <1>1, <1>2 DEF TypeOK, vars
  <1>3. CASE Client
    BY <1>1, <1>3, ClientTypeOK
  <1>4. CASE Loop
    BY <1>1, <1>4, TopPollTypeOK, LineTypeOK, HandleTypeOK DEF Loop
  <1>5. CASE SigTerm
    BY <1>1, <1>5, TopPollTypeOK
  <1>6. CASE \E w \in Workers : WorkerStep(w) \/ CommandStep(w) \/ WorkerCrash(w)
    BY <1>1, <1>6, WorkerTypeOK
  <1>7. CASE \E t \in Tools : ToolFinish(t)
    BY <1>1, <1>7, ToolTypeOK
  <1>8. CASE \E r \in Cmds : Setpgid(r)
    BY <1>1, <1>8 DEF TypeOK, Setpgid
  <1>9. QED
    BY <1>1, <1>2, <1>3, <1>4, <1>5, <1>6, <1>7, <1>8 DEF Next, Exited

-----------------------------------------------------------------------------

\* Initially nothing is in the sockets.
LEMMA InitDiscipline == Init => SocketDiscipline
  BY DEF Init, SocketDiscipline, Disciplined, Busy, Runs

\* A step that leaves a worker's slot, process and socket alone keeps its
\* discipline, since a cancellation is never taken back.
LEMMA Untouched ==
  ASSUME NEW w \in Workers, Disciplined(w), cancelled \subseteq cancelled',
         inflight'[w] = inflight[w], proc'[w] = proc[w], cur'[w] = cur[w],
         down'[w] = down[w], up'[w] = up[w]
  PROVE  Disciplined(w)'
  BY DEF Disciplined, Busy, Runs

\* An idle slot: only stale markers in the socket, nothing running, no reply.
LEMMA IdleSlot ==
  ASSUME TypeOK, NEW w \in Workers, Disciplined(w), ~Busy(w)
  PROVE  /\ \A i \in DOMAIN down[w] : down[w][i] = Cancel
         /\ ~Runs(w) /\ up[w] = <<>>
  <1>1. inflight[w] = None
    BY DEF Busy
  <1>2. \A i \in DOMAIN down[w] : down[w][i] \in Cmds \cup {Cancel}
    BY DEF TypeOK
  <1>3. None \notin Cmds
    BY MarkersAssumption DEF Reqs
  <1>4. QED
    BY <1>1, <1>2, <1>3 DEF Disciplined, Busy

\* try_dispatch only adds a request to the socket of an idle worker.
LEMMA TryDispatchDiscipline ==
  ASSUME TypeOK, SocketDiscipline, NEW r \in Cmds, TryDispatch(r),
         UNCHANGED <<proc, cur, up, cancelled>>
  PROVE  SocketDiscipline'
  <1>1. PICK w \in Workers :
           /\ First(w, Idle)
           /\ IF Alive(w)
              THEN /\ down' = [down EXCEPT ![w] = Append(@, r)]
                   /\ inflight' = [inflight EXCEPT ![w] = r]
                   /\ dispatched' = Append(dispatched, r)
              ELSE UNCHANGED <<down, inflight, dispatched>>
    BY DEF TryDispatch
  <1>2. CASE ~Alive(w)
    BY <1>1, <1>2 DEF SocketDiscipline, Disciplined, Busy, Runs
  <1>3. CASE Alive(w)
    <2>1. ASSUME NEW v \in Workers, v # w PROVE Disciplined(v)'
      BY <1>1, <1>3, <2>1, Untouched DEF TypeOK, SocketDiscipline
    <2>2. Disciplined(w)'
      <3>1. /\ \A i \in DOMAIN down[w] : down[w][i] = Cancel
            /\ ~Runs(w) /\ up[w] = <<>>
        BY <1>1, IdleSlot DEF First, Idle, SocketDiscipline
      <3>2. down'[w] = Append(down[w], r) /\ inflight'[w] = r
        BY <1>1, <1>3 DEF TypeOK
      <3>3. down[w] \in Seq(Cmds \cup {Cancel})
        BY DEF TypeOK
      <3>4. /\ DOMAIN down'[w] = 1..(Len(down[w]) + 1)
            /\ Len(down'[w]) = Len(down[w]) + 1 /\ Len(down[w]) \in Nat
            /\ \A i \in 1..Len(down[w]) : down'[w][i] = Cancel
            /\ down'[w][Len(down[w]) + 1] = r
        BY <3>1, <3>2, <3>3
      <3>5. \A i \in DOMAIN down'[w] : down'[w][i] # Cancel => i = Len(down'[w])
        BY <3>4
      <3>6. ~Runs(w)' /\ up'[w] = <<>>
        BY <3>1 DEF Runs
      <3>7. \A i \in DOMAIN down'[w] : down'[w][i] # Cancel => down'[w][i] = r
        BY <3>4, <3>5
      <3>8. QED
        BY <3>2, <3>5, <3>6, <3>7 DEF Disciplined
    <2>3. QED
      BY <2>1, <2>2 DEF SocketDiscipline
  <1>4. QED
    BY <1>2, <1>3

\* cancel() only adds a marker, to the worker that holds the request.
LEMMA PoolCancelDiscipline ==
  ASSUME TypeOK, SocketDiscipline, NEW r \in Reqs, PoolCancel(r),
         cancelled' = cancelled \cup {r}, UNCHANGED <<inflight, proc, cur, up>>
  PROVE  SocketDiscipline'
  <1>1. PICK w \in Workers :
           /\ inflight[w] = r
           /\ down' = [down EXCEPT ![w] = IF Alive(w) THEN Append(@, Cancel) ELSE @]
    BY DEF PoolCancel, First, Holders
  <1>2. ASSUME NEW v \in Workers, v # w PROVE Disciplined(v)'
    BY <1>1, <1>2, Untouched DEF TypeOK, SocketDiscipline
  <1>3. Disciplined(w)'
    <2>1. CASE ~Alive(w)
      BY <1>1, <2>1, Untouched DEF TypeOK, SocketDiscipline
    <2>2. CASE Alive(w)
      <3>1. down'[w] = Append(down[w], Cancel) /\ down[w] \in Seq(Cmds \cup {Cancel})
        BY <1>1, <2>2 DEF TypeOK
      <3>2. /\ DOMAIN down'[w] = 1..(Len(down[w]) + 1) /\ Len(down[w]) \in Nat
            /\ DOMAIN down[w] = 1..Len(down[w])
            /\ \A i \in 1..Len(down[w]) : down'[w][i] = down[w][i]
            /\ down'[w][Len(down[w]) + 1] = Cancel
        BY <3>1
      <3>3. \A i \in DOMAIN down'[w] : down'[w][i] # Cancel =>
               i \in DOMAIN down[w] /\ down'[w][i] = down[w][i]
        BY <3>2
      <3>4. inflight'[w] \in cancelled'
        BY <1>1
      <3>5. Disciplined(w)
        BY DEF SocketDiscipline
      <3>6. QED
        BY <3>3, <3>4, <3>5 DEF Disciplined, Busy, Runs
    <2>3. QED
      BY <2>1, <2>2
  <1>4. QED
    BY <1>2, <1>3 DEF SocketDiscipline

\* collect() leaves the slot idle and its socket without a reply.
LEMMA CollectDiscipline ==
  ASSUME TypeOK, SocketDiscipline, NEW w \in Workers,
         CollectReply(w) \/ CollectCrash(w), UNCHANGED cancelled
  PROVE  SocketDiscipline'
  <1>1. ASSUME NEW v \in Workers, v # w PROVE Disciplined(v)'
    <2>1. /\ inflight'[v] = inflight[v] /\ proc'[v] = proc[v] /\ cur'[v] = cur[v]
          /\ down'[v] = down[v] /\ up'[v] = up[v]
      BY <1>1 DEF TypeOK, CollectReply, CollectCrash
    <2>2. QED
      BY <2>1, Untouched DEF SocketDiscipline
  <1>2. CASE CollectReply(w)
    <2>1. up[w] = <<inflight[w]>> /\ up[w] # <<>> /\ Disciplined(w)
      BY <1>2 DEF CollectReply, SocketDiscipline, Disciplined
    <2>2. up'[w] = <<>> /\ ~Runs(w)'
      BY <1>2, <2>1 DEF TypeOK, CollectReply, Disciplined, Runs
    <2>3. \A i \in DOMAIN down'[w] : down'[w][i] = Cancel
      BY <1>2, <2>1 DEF CollectReply, Disciplined
    <2>4. Disciplined(w)'
      BY <2>2, <2>3 DEF Disciplined
    <2>5. QED
      BY <1>1, <2>4 DEF SocketDiscipline
  <1>3. CASE CollectCrash(w)
    <2>1. down'[w] = <<>> /\ up'[w] = <<>> /\ ~Runs(w)'
      BY <1>3 DEF TypeOK, CollectCrash, Runs
    <2>2. Disciplined(w)'
      BY <2>1 DEF Disciplined
    <2>3. QED
      BY <1>1, <2>2 DEF SocketDiscipline
  <1>4. QED
    BY <1>2, <1>3

\* The worker's own steps: it takes a message, starts, answers or ends.
LEMMA WorkerDiscipline ==
  ASSUME TypeOK, SocketDiscipline, NEW w \in Workers,
         WorkerStep(w) \/ CommandStep(w) \/ WorkerCrash(w)
  PROVE  SocketDiscipline'
  <1>1. ASSUME NEW v \in Workers, v # w PROVE Disciplined(v)'
    <2>1. /\ inflight'[v] = inflight[v] /\ proc'[v] = proc[v] /\ cur'[v] = cur[v]
          /\ down'[v] = down[v] /\ up'[v] = up[v] /\ cancelled' = cancelled
      BY <1>1 DEF TypeOK, WorkerStep, WorkerSkip, WorkerStart, WorkerCancelled, KillMisses,
         CommandStep, WorkerReaps, WorkerFinish, MissedEnds, WorkerCrash
    <2>2. QED
      BY <2>1, Untouched DEF SocketDiscipline
  <1>2. Disciplined(w) /\ down[w] \in Seq(Cmds \cup {Cancel}) /\ up[w] \in Seq(Cmds)
    BY DEF TypeOK, SocketDiscipline
  <1>3. CASE WorkerSkip(w) \/ WorkerStart(w)
    <2>1. /\ down[w] # <<>> /\ down'[w] = Tail(down[w]) /\ up'[w] = up[w]
          /\ inflight'[w] = inflight[w] /\ proc[w] = "idle"
          /\ cancelled' = cancelled
      BY <1>3 DEF TypeOK, WorkerSkip, WorkerStart
    <2>2. /\ Len(down[w]) \in Nat \ {0} /\ DOMAIN down[w] = 1..Len(down[w])
          /\ Head(down[w]) = down[w][1]
          /\ Len(down'[w]) = Len(down[w]) - 1
          /\ DOMAIN down'[w] = 1..(Len(down[w]) - 1)
          /\ \A i \in DOMAIN down'[w] : down'[w][i] = down[w][i + 1]
      BY <1>2, <2>1
    <2>3. \A i \in DOMAIN down'[w] :
             /\ i + 1 \in DOMAIN down[w] /\ down'[w][i] = down[w][i + 1]
             /\ i # Len(down'[w]) => i + 1 # Len(down[w])
      <3>1. TAKE i \in DOMAIN down'[w]
      <3>2. i \in 1..(Len(down[w]) - 1)
        BY <2>2
      <3>3. /\ i + 1 \in 1..Len(down[w])
            /\ i # Len(down[w]) - 1 => i + 1 # Len(down[w])
        BY <2>2, <3>2
      <3>4. QED
        BY <2>2, <3>3
    <2>4. CASE WorkerSkip(w)
      <3>1. proc'[w] = proc[w]
        BY <2>4 DEF WorkerSkip
      <3>2. /\ \A i \in DOMAIN down'[w] : down'[w][i] # Cancel =>
                  /\ inflight[w] = down'[w][i] /\ up[w] = <<>>
                  /\ i # Len(down'[w]) => inflight[w] \in cancelled
        BY <1>2, <2>3 DEF Disciplined
      <3>3. \A i, j \in DOMAIN down'[w] :
               down'[w][i] # Cancel /\ down'[w][j] # Cancel => i + 1 = j + 1
        BY <1>2, <2>3 DEF Disciplined
      <3>4. \A i, j \in DOMAIN down'[w] :
               down'[w][i] # Cancel /\ down'[w][j] # Cancel => i = j
        BY <2>2, <3>3
      <3>5. up[w] # <<>> => Busy(w)' /\ up[w] = <<inflight[w]>>
        BY <1>2, <2>1 DEF Disciplined, Busy
      <3>6. ~Runs(w)'
        BY <2>1, <3>1 DEF Runs
      <3>7. Disciplined(w)'
        BY <2>1, <3>2, <3>4, <3>5, <3>6 DEF Disciplined
      <3>8. QED
        BY <1>1, <3>7 DEF SocketDiscipline
    <2>5. CASE WorkerStart(w)
      <3>1. /\ down[w][1] # Cancel /\ 1 \in DOMAIN down[w]
            /\ cur'[w] = down[w][1] /\ Runs(w)'
        BY <2>2, <2>5 DEF TypeOK, WorkerStart, Runs
      <3>2. /\ inflight[w] = down[w][1] /\ up[w] = <<>>
            /\ 1 # Len(down[w]) => inflight[w] \in cancelled
        BY <1>2, <3>1 DEF Disciplined
      <3>3. \A i \in DOMAIN down'[w] : down'[w][i] # Cancel => i + 1 = 1
        BY <1>2, <2>3, <3>1 DEF Disciplined
      <3>4. \A i \in DOMAIN down'[w] : down'[w][i] = Cancel
        BY <2>2, <3>3
      <3>5. inflight[w] # None
        BY <1>2, <3>1, <3>2, MarkersAssumption DEF Reqs
      <3>6. down'[w] # <<>> => 1 # Len(down[w])
        BY <1>2, <2>1, <2>2
      <3>7. Busy(w)'
        BY <2>1, <3>5 DEF Busy
      <3>8. Disciplined(w)'
        BY <2>1, <3>1, <3>2, <3>4, <3>6, <3>7 DEF Disciplined
      <3>9. QED
        BY <1>1, <3>8 DEF SocketDiscipline
    <2>6. QED
      BY <1>3, <2>4, <2>5
  <1>4. CASE WorkerFinish(w)
    <2>1. /\ Runs(w) /\ ~Runs(w)' /\ down'[w] = down[w]
          /\ up'[w] = Append(up[w], cur[w]) /\ inflight'[w] = inflight[w]
      BY <1>4 DEF TypeOK, WorkerFinish, Runs
    <2>2. /\ up[w] = <<>> /\ cur[w] = inflight[w] /\ Busy(w)
          /\ \A i \in DOMAIN down[w] : down[w][i] = Cancel
      BY <1>2, <2>1 DEF Disciplined
    <2>3. up'[w] = <<inflight'[w]>> /\ Busy(w)'
      BY <2>1, <2>2 DEF Busy
    <2>4. Disciplined(w)'
      BY <2>1, <2>2, <2>3 DEF Disciplined
    <2>5. QED
      BY <1>1, <2>4 DEF SocketDiscipline
  <1>5. CASE WorkerCancelled(w) \/ MissedEnds(w) \/ WorkerCrash(w)
    <2>1. /\ ~Runs(w)' /\ down'[w] = down[w] /\ up'[w] = up[w]
          /\ inflight'[w] = inflight[w] /\ cancelled' = cancelled
      BY <1>5 DEF TypeOK, WorkerCancelled, MissedEnds, WorkerCrash, Runs
    <2>2. Disciplined(w)'
      BY <1>2, <2>1 DEF Disciplined, Busy
    <2>3. QED
      BY <1>1, <2>2 DEF SocketDiscipline
  <1>6. CASE KillMisses(w) \/ WorkerReaps(w)
    <2>1. /\ Runs(w) /\ Runs(w)' /\ cur'[w] = cur[w] /\ down'[w] = down[w]
          /\ up'[w] = up[w] /\ inflight'[w] = inflight[w] /\ cancelled' = cancelled
      BY <1>6 DEF TypeOK, KillMisses, WorkerReaps, Runs
    <2>2. Disciplined(w)'
      BY <1>2, <2>1 DEF Disciplined, Busy
    <2>3. QED
      BY <1>1, <2>2 DEF SocketDiscipline
  <1>7. QED
    BY <1>3, <1>4, <1>5, <1>6 DEF WorkerStep, CommandStep

\* Every step keeps the discipline: only dispatch, cancel(), collect() and
\* the workers touch the sockets.
LEMMA NextDiscipline == TypeOK /\ SocketDiscipline /\ [Next]_vars => SocketDiscipline'
  <1>1. SUFFICES ASSUME TypeOK, SocketDiscipline, [Next]_vars PROVE SocketDiscipline'
    OBVIOUS
  <1>2. ASSUME UNCHANGED <<inflight, proc, cur, down, up>>,
               cancelled \subseteq cancelled'
        PROVE  SocketDiscipline'
    BY <1>1, <1>2, Untouched DEF SocketDiscipline
  <1>3. CASE UNCHANGED vars
    BY <1>2, <1>3 DEF vars
  <1>4. CASE Client
    BY <1>2, <1>4 DEF Client, ClientSend, ClientCancel, ClientClose
  <1>5. CASE \/ TopStop \/ TopPass \/ LinesDone \/ PollNothing \/ PollReturns
             \/ PollInterrupted \/ PollFails \/ HandleDone \/ DrainDone \/ SigTerm
             \/ Fill \/ FillOverflow
             \/ \E t \in Tools : HandleTool(t) \/ HandleToolUnread(t) \/ ToolFinish(t)
    BY <1>2, <1>5 DEF TopStop, TopPass, LinesDone, PollNothing, PollReturns,
       PollInterrupted, PollFails, HandleDone, DrainDone, SigTerm, Fill, FillOverflow,
       HandleTool, HandleToolUnread, ToolFinish
  <1>6. CASE \/ LineCmdBuffer \/ LineTool \/ LineToolInline \/ LineToolThrow
             \/ LineSync
    BY <1>2, <1>6 DEF LineCmdBuffer, LineTool, LineToolInline, LineToolThrow,
       LineSync
  <1>7. CASE TopDispatchBuffered
    <2>1. buffered \in Cmds
      BY <1>1, <1>7 DEF TypeOK, TopDispatchBuffered
    <2>2. QED
      BY <1>1, <1>7, <2>1, TryDispatchDiscipline DEF TopDispatchBuffered
  <1>8. CASE LineCmdDispatch
    <2>1. Head(lines).id \in Cmds
      BY <1>1, <1>8, NextLineType DEF LineCmdDispatch
    <2>2. QED
      BY <1>1, <1>8, <2>1, TryDispatchDiscipline DEF LineCmdDispatch
  <1>9. CASE LineCancel
    <2>1. Head(lines).id \in Reqs
      BY <1>1, <1>9, NextLineType DEF LineCancel
    <2>2. CASE PoolCancel(Head(lines).id) /\ cancelled' = cancelled \cup {Head(lines).id}
      BY <1>1, <1>9, <2>1, <2>2, PoolCancelDiscipline DEF LineCancel
    <2>3. CASE UNCHANGED down
      BY <1>2, <1>9, <2>3 DEF LineCancel
    <2>4. QED
      BY <1>9, <2>2, <2>3 DEF LineCancel
  <1>10. ASSUME NEW w \in Workers, HandleWorker(w) \/ DrainWorker(w)
         PROVE  SocketDiscipline'
    BY <1>1, <1>10, CollectDiscipline DEF HandleWorker, DrainWorker
  <1>11. CASE \E w \in Workers : WorkerStep(w) \/ CommandStep(w) \/ WorkerCrash(w)
    BY <1>1, <1>11, WorkerDiscipline
  <1>12. CASE \E r \in Cmds : Setpgid(r)
    BY <1>2, <1>12 DEF Setpgid
  <1>13. QED
    BY <1>1, <1>3, <1>4, <1>5, <1>6, <1>7, <1>8, <1>9, <1>10, <1>11, <1>12
       DEF Next, Loop, Exited

-----------------------------------------------------------------------------

\* The sockets of worker_pool.cpp keep their discipline in every behaviour,
\* and with it every variable keeps its type.
THEOREM LoopDiscipline == Spec => [](TypeOK /\ SocketDiscipline)
  <1>1. Init => TypeOK /\ SocketDiscipline
    BY InitTypeOK, InitDiscipline
  <1>2. (TypeOK /\ SocketDiscipline) /\ [Next]_vars => (TypeOK /\ SocketDiscipline)'
    BY NextTypeOK, NextDiscipline
  <1>3. QED
    BY <1>1, <1>2, PTL DEF Spec

\* Type correctness of the event loop, the pool and the workers.
THEOREM LoopTypes == Spec => []TypeOK
  BY LoopDiscipline, PTL

\* The protocol on the socketpairs between coordinator and workers.
THEOREM LoopSockets == Spec => []SocketDiscipline
  BY LoopDiscipline, PTL

\* One step kills only a command whose cancellation has been handled.
LEMMA NextKills ==
  TypeOK /\ SocketDiscipline /\ KillsOnlyCancelled /\ [Next]_vars => KillsOnlyCancelled'
  <1>1. SUFFICES ASSUME TypeOK, SocketDiscipline, KillsOnlyCancelled, [Next]_vars
                 PROVE  KillsOnlyCancelled'
    OBVIOUS
  <1>2. ASSUME cancelled \subseteq cancelled', cmd' = cmd PROVE KillsOnlyCancelled'
    BY <1>1, <1>2 DEF KillsOnlyCancelled
  <1>3. ASSUME NEW w \in Workers,
               WorkerStart(w) \/ WorkerFinish(w) \/ MissedEnds(w) \/ WorkerCrash(w)
        PROVE  KillsOnlyCancelled'
    <2>1. cancelled' = cancelled
      BY <1>3 DEF WorkerStart, WorkerFinish, MissedEnds, WorkerCrash
    <2>2. \A r \in Cmds : cmd'[r] = "killed" => cmd[r] = "killed"
      BY <1>1, <1>3 DEF TypeOK, WorkerStart, WorkerFinish, MissedEnds, WorkerCrash
    <2>3. QED
      BY <1>1, <2>1, <2>2 DEF KillsOnlyCancelled
  <1>4. ASSUME NEW w \in Workers, WorkerCancelled(w) PROVE KillsOnlyCancelled'
    <2>1. cur[w] \in cancelled
      BY <1>1, <1>4 DEF SocketDiscipline, Disciplined, Runs, WorkerCancelled
    <2>2. cancelled' = cancelled
      BY <1>4 DEF WorkerCancelled
    <2>3. \A r \in Cmds : cmd'[r] = "killed" => cmd[r] = "killed" \/ r = cur[w]
      BY <1>1, <1>4 DEF TypeOK, WorkerCancelled
    <2>4. QED
      BY <1>1, <2>1, <2>2, <2>3 DEF KillsOnlyCancelled
  <1>5. CASE UNCHANGED vars
    BY <1>2, <1>5 DEF vars
  <1>6. CASE Client
    BY <1>2, <1>6 DEF Client, ClientSend, ClientCancel, ClientClose
  <1>7. CASE \/ TopStop \/ TopPass \/ LinesDone \/ PollNothing \/ PollReturns
             \/ PollInterrupted \/ PollFails \/ HandleDone \/ DrainDone \/ SigTerm
             \/ TopDispatchBuffered \/ Fill \/ FillOverflow
             \/ \E t \in Tools : HandleTool(t) \/ HandleToolUnread(t) \/ ToolFinish(t)
    BY <1>2, <1>7 DEF TopStop, TopPass, LinesDone, PollNothing, PollReturns,
       PollInterrupted, PollFails, HandleDone, DrainDone, SigTerm, TopDispatchBuffered,
       Fill, FillOverflow, HandleTool, HandleToolUnread, ToolFinish
  <1>8. CASE \/ LineCmdDispatch \/ LineCmdBuffer \/ LineTool \/ LineToolInline
             \/ LineToolThrow \/ LineSync \/ LineCancel
    BY <1>2, <1>8 DEF LineCmdDispatch, LineCmdBuffer, LineTool, LineToolInline,
       LineToolThrow, LineSync, LineCancel
  <1>9. ASSUME NEW w \in Workers,
               \/ HandleWorker(w) \/ DrainWorker(w) \/ WorkerSkip(w) \/ KillMisses(w)
               \/ WorkerReaps(w)
        PROVE  KillsOnlyCancelled'
    BY <1>2, <1>9 DEF HandleWorker, DrainWorker, WorkerSkip, KillMisses, WorkerReaps
  <1>10. ASSUME NEW r \in Cmds, Setpgid(r) PROVE KillsOnlyCancelled'
    <2>1. cancelled' = cancelled /\ \A q \in Cmds : cmd'[q] = "killed" => cmd[q] = "killed"
      BY <1>1, <1>10 DEF TypeOK, Setpgid
    <2>2. QED
      BY <1>1, <2>1 DEF KillsOnlyCancelled
  <1>11. QED
    BY <1>1, <1>3, <1>4, <1>5, <1>6, <1>7, <1>8, <1>9, <1>10
       DEF Next, Loop, WorkerStep, CommandStep, Exited

\* No command is killed that its client did not give up on: a cancel marker
\* that arrives too late never stops the worker's next command.
THEOREM LoopKillsOnlyCancelled == Spec => []KillsOnlyCancelled
  <1>1. Init => KillsOnlyCancelled
    BY DEF Init, KillsOnlyCancelled
  <1>2. QED
    BY <1>1, NextKills, LoopDiscipline, PTL DEF Spec

\* An entry written for r, when it is r's own, keeps every reply an own one.
LEMMA WriteOwn ==
  ASSUME TypeOK, ReplyIsOwn, NEW r \in Reqs \cup {None}, NEW b, Write(r, b),
         r \in Reqs => b \in {r, Crash}
  PROVE  ReplyIsOwn'
  <1>1. SUFFICES ASSUME NEW q \in Reqs, NEW i \in DOMAIN out'[q]
                 PROVE  out'[q][i] \in {q, Crash}
    BY DEF ReplyIsOwn
  <1>2. CASE q # r
    BY <1>1, <1>2 DEF TypeOK, ReplyIsOwn, Write
  <1>3. CASE q = r
    <2>1. out[q] \in Seq(Reqs \cup {None, Crash}) /\ out'[q] = Append(out[q], b)
      BY <1>3 DEF TypeOK, Write
    <2>2. /\ DOMAIN out[q] = 1..Len(out[q]) /\ Len(out[q]) \in Nat
          /\ DOMAIN out'[q] = 1..(Len(out[q]) + 1)
          /\ \A j \in 1..Len(out[q]) : out'[q][j] = out[q][j]
          /\ out'[q][Len(out[q]) + 1] = b
      BY <2>1
    <2>3. i \in DOMAIN out[q] \/ i = Len(out[q]) + 1
      BY <1>1, <2>2
    <2>4. CASE i \in DOMAIN out[q]
      BY <2>2, <2>4 DEF ReplyIsOwn
    <2>5. CASE i = Len(out[q]) + 1
      BY <1>3, <2>2, <2>5
    <2>6. QED
      BY <2>3, <2>4, <2>5
  <1>4. QED
    BY <1>2, <1>3

\* One step writes to a request only its own result or the crash notice.
LEMMA NextReplyIsOwn ==
  TypeOK /\ SocketDiscipline /\ ReplyIsOwn /\ [Next]_vars => ReplyIsOwn'
  <1>1. SUFFICES ASSUME TypeOK, SocketDiscipline, ReplyIsOwn, [Next]_vars
                 PROVE  ReplyIsOwn'
    OBVIOUS
  <1>2. ASSUME UNCHANGED out PROVE ReplyIsOwn'
    BY <1>1, <1>2 DEF ReplyIsOwn
  <1>3. CASE LineToolInline
    <2>1. Head(lines).id \in Reqs
      BY <1>1, <1>3, NextLineType DEF LineToolInline
    <2>2. QED
      BY <1>1, <1>3, <2>1, WriteOwn DEF LineToolInline
  <1>4. CASE LineSync
    <2>1. Head(lines).id \in Reqs
      BY <1>1, <1>4, NextLineType DEF LineSync
    <2>2. QED
      BY <1>1, <1>4, <2>1, WriteOwn DEF LineSync
  <1>5. CASE FillOverflow
    <2>1. None \notin Reqs
      BY MarkersAssumption
    <2>2. QED
      BY <1>1, <1>5, <2>1, WriteOwn DEF FillOverflow
  <1>6. ASSUME NEW t \in Tools, HandleTool(t) PROVE ReplyIsOwn'
    <2>1. t \in Reqs
      BY DEF Reqs
    <2>2. CASE t \in dropTool
      BY <1>2, <1>6, <2>2 DEF HandleTool
    <2>3. CASE t \notin dropTool
      BY <1>1, <1>6, <2>1, <2>3, WriteOwn DEF HandleTool
    <2>4. QED
      BY <2>2, <2>3
  <1>7. ASSUME NEW w \in Workers, HandleWorker(w) PROVE ReplyIsOwn'
    <2>1. CASE dropReply[w]
      BY <1>2, <1>7, <2>1 DEF HandleWorker
    <2>2. CASE ~dropReply[w]
      <3>1. inflight[w] \in Reqs \cup {None}
        BY <1>1 DEF TypeOK, Reqs
      <3>2. up[w] # <<>> => Head(up[w]) = inflight[w]
        BY <1>1 DEF SocketDiscipline, Disciplined
      <3>3. Write(inflight[w], IF up[w] # <<>> THEN Head(up[w]) ELSE Crash)
        BY <1>7, <2>2 DEF HandleWorker
      <3>4. QED
        BY <1>1, <3>1, <3>2, <3>3, WriteOwn
    <2>3. QED
      BY <2>1, <2>2
  <1>8. CASE UNCHANGED vars
    BY <1>2, <1>8 DEF vars
  <1>9. CASE Client
    BY <1>2, <1>9 DEF Client, ClientSend, ClientCancel, ClientClose
  <1>10. CASE \/ TopStop \/ TopPass \/ LinesDone \/ PollNothing \/ PollReturns
              \/ PollInterrupted \/ PollFails \/ HandleDone \/ DrainDone \/ SigTerm
              \/ TopDispatchBuffered \/ Fill
              \/ \E t \in Tools : HandleToolUnread(t) \/ ToolFinish(t)
    BY <1>2, <1>10 DEF TopStop, TopPass, LinesDone, PollNothing, PollReturns,
       PollInterrupted, PollFails, HandleDone, DrainDone, SigTerm, TopDispatchBuffered,
       Fill, HandleToolUnread, ToolFinish
  <1>11. CASE \/ LineCmdDispatch \/ LineCmdBuffer \/ LineTool \/ LineToolThrow
              \/ LineCancel
    BY <1>2, <1>11 DEF LineCmdDispatch, LineCmdBuffer, LineTool, LineToolThrow,
       LineCancel
  <1>12. ASSUME NEW w \in Workers,
                DrainWorker(w) \/ WorkerStep(w) \/ CommandStep(w) \/ WorkerCrash(w)
         PROVE  ReplyIsOwn'
    BY <1>2, <1>12 DEF DrainWorker, WorkerStep, WorkerSkip, WorkerStart,
       WorkerCancelled, KillMisses,
       CommandStep, WorkerReaps, WorkerFinish, MissedEnds, WorkerCrash
  <1>13. CASE \E r \in Cmds : Setpgid(r)
    BY <1>2, <1>13 DEF Setpgid
  <1>14. QED
    BY <1>1, <1>3, <1>4, <1>5, <1>6, <1>7, <1>8, <1>9, <1>10, <1>11, <1>12, <1>13
       DEF Next, Loop, Exited

\* A reply is the result of the request whose id it carries: collect() never
\* labels one command's output with another's id.
THEOREM LoopReplyIsOwn == Spec => []ReplyIsOwn
  <1>1. Init => ReplyIsOwn
    BY DEF Init, ReplyIsOwn
  <1>2. QED
    BY <1>1, NextReplyIsOwn, LoopDiscipline, PTL DEF Spec

-----------------------------------------------------------------------------
(* One outcome, and the refinement.                                        *)

\* The call of r is among the messages s; it is there once at most.
In(s, r)     == \E i \in DOMAIN s : s[i] = Call(r)
Single(s, r) == \A i, j \in DOMAIN s : s[i] = Call(r) /\ s[j] = Call(r) => i = j

\* Nothing has been done for r: it is not held, not at a worker, not at a
\* tool thread, not answered and not cancelled.
Fresh(r) ==
    /\ buffered # r /\ r \notin pending /\ r \notin cancelled
    /\ \A w \in Workers : inflight[w] # r
    /\ out[r] = <<>>

\* Each call is unread in one place at most, and then nothing has been done
\* for it; nor has anything for an id that was not sent.
UnreadOnce ==
    \A r \in Reqs :
        /\ Single(lines, r) /\ Single(stdin, r) /\ ~(In(lines, r) /\ In(stdin, r))
        /\ In(lines, r) \/ In(stdin, r) => r \in Sent /\ Fresh(r)
        /\ r \notin Sent => Fresh(r)

\* The held command has no other place and no outcome.
HeldAlone ==
    buffered # None =>
        /\ \A w \in Workers : inflight[w] # buffered
        /\ out[buffered] = <<>> /\ buffered \notin cancelled

\* A command is at one worker at most, unanswered; once it is cancelled its
\* reply will be dropped.
SlotAlone ==
    \A w \in Workers : Busy(w) =>
        /\ out[inflight[w]] = <<>>
        /\ inflight[w] \in cancelled => dropReply[w]
        /\ \A v \in Workers : inflight[v] = inflight[w] => v = w

\* The same for a tool thread.
ToolAlone ==
    \A t \in pending : out[t] = <<>> /\ (t \in cancelled => t \in dropTool)

\* What poll() reported is still owed a reply until it is handled.
ReadyOwed ==
    pc = "handle" => /\ ready \cap Workers \subseteq BusyWorkers
                     /\ ready \cap Tools \subseteq pending

OnePlace == UnreadOnce /\ HeldAlone /\ SlotAlone /\ ToolAlone /\ ReadyOwed /\ OneOutcome

-----------------------------------------------------------------------------
(* Calls in a sequence of messages.                                        *)

\* One message more.
LEMMA InAppend ==
  ASSUME NEW s \in Seq(Messages), NEW m \in Messages, NEW r
  PROVE  /\ In(Append(s, m), r) => In(s, r) \/ m = Call(r)
         /\ Single(s, r) /\ (m = Call(r) => ~In(s, r)) => Single(Append(s, m), r)
  <1> DEFINE a == Append(s, m)
  <1>1. /\ DOMAIN s = 1..Len(s) /\ Len(s) \in Nat /\ DOMAIN a = 1..(Len(s) + 1)
        /\ \A i \in 1..Len(s) : a[i] = s[i]
        /\ a[Len(s) + 1] = m
    OBVIOUS
  <1>2. \A i \in DOMAIN a : i \in DOMAIN s \/ i = Len(s) + 1
    BY <1>1
  <1> HIDE DEF a
  <1>3. In(a, r) => In(s, r) \/ m = Call(r)
    BY <1>1, <1>2 DEF In
  <1>4. Single(s, r) /\ (m = Call(r) => ~In(s, r)) => Single(a, r)
    BY <1>1, <1>2 DEF In, Single
  <1>5. QED
    BY <1>3, <1>4 DEF a

\* The first message is taken.
LEMMA InTail ==
  ASSUME NEW s \in Seq(Messages), s # <<>>, NEW r
  PROVE  /\ In(Tail(s), r) => In(s, r)
         /\ Single(s, r) => Single(Tail(s), r)
         /\ Head(s) = Call(r) => In(s, r)
         /\ Head(s) = Call(r) /\ Single(s, r) => ~In(Tail(s), r)
  <1> DEFINE a == Tail(s)
  <1>1. /\ DOMAIN s = 1..Len(s) /\ Len(s) \in Nat \ {0} /\ DOMAIN a = 1..(Len(s) - 1)
        /\ \A i \in 1..(Len(s) - 1) : a[i] = s[i + 1]
        /\ Head(s) = s[1]
    OBVIOUS
  <1>2. /\ 1 \in DOMAIN s
        /\ \A i \in DOMAIN a : i + 1 \in DOMAIN s /\ a[i] = s[i + 1] /\ i + 1 # 1
        /\ \A i, j \in DOMAIN a : i + 1 = j + 1 => i = j
    BY <1>1
  <1>3. Head(s) = s[1]
    BY <1>1
  <1> HIDE DEF a
  <1>4. /\ In(a, r) => In(s, r)
        /\ Single(s, r) => Single(a, r)
        /\ Head(s) = Call(r) => In(s, r)
        /\ Head(s) = Call(r) /\ Single(s, r) => ~In(a, r)
    BY <1>2, <1>3 DEF In, Single
  <1>5. QED
    BY <1>4 DEF a

\* A prefix of what was in the pipe follows what was read before.
LEMMA InConcat ==
  ASSUME NEW s \in Seq(Messages), NEW u \in Seq(Messages), NEW n \in 0..Len(u), NEW r
  PROVE  /\ In(s \o SubSeq(u, 1, n), r) => In(s, r) \/ In(u, r)
         /\ Single(s, r) /\ Single(u, r) /\ ~(In(s, r) /\ In(u, r))
               => Single(s \o SubSeq(u, 1, n), r)
  <1> DEFINE a == s \o SubSeq(u, 1, n)
  <1>1. /\ SubSeq(u, 1, n) \in Seq(Messages) /\ Len(SubSeq(u, 1, n)) = n
        /\ \A i \in 1..n : SubSeq(u, 1, n)[i] = u[i]
    OBVIOUS
  <1>2. /\ DOMAIN s = 1..Len(s) /\ Len(s) \in Nat /\ DOMAIN u = 1..Len(u) /\ Len(u) \in Nat
        /\ DOMAIN a = 1..(Len(s) + n)
        /\ \A i \in DOMAIN a : a[i] = IF i <= Len(s) THEN s[i] ELSE SubSeq(u, 1, n)[i - Len(s)]
    BY <1>1
  <1> HIDE DEF a
  <1>3. \A i \in DOMAIN a :
           \/ i \in DOMAIN s /\ a[i] = s[i]
           \/ i - Len(s) \in DOMAIN u /\ a[i] = u[i - Len(s)]
    <2>1. TAKE i \in DOMAIN a
    <2>2. CASE i <= Len(s)
      BY <1>2, <2>1, <2>2
    <2>3. CASE ~(i <= Len(s))
      <3>1. i - Len(s) \in 1..n /\ a[i] = SubSeq(u, 1, n)[i - Len(s)]
        BY <1>2, <2>1, <2>3
      <3>2. a[i] = u[i - Len(s)] /\ i - Len(s) \in DOMAIN u
        BY <1>1, <1>2, <3>1
      <3>3. QED
        BY <3>2
    <2>4. QED
      BY <2>2, <2>3
  <1>4. \A i, j \in DOMAIN a : i - Len(s) = j - Len(s) => i = j
    BY <1>2
  <1>5. In(a, r) => In(s, r) \/ In(u, r)
    BY <1>3 DEF In
  <1>6. Single(s, r) /\ Single(u, r) /\ ~(In(s, r) /\ In(u, r)) => Single(a, r)
    BY <1>3, <1>4 DEF In, Single
  <1>7. QED
    BY <1>5, <1>6 DEF a

-----------------------------------------------------------------------------
(* Every step keeps ids in one place.                                      *)

\* Initially nothing has been sent.
LEMMA InitPlace == Init => OnePlace
  <1>1. SUFFICES ASSUME Init PROVE OnePlace
    OBVIOUS
  <1>2. \A r \in Reqs : Fresh(r) /\ out[r] = <<>>
    <2>1. TAKE r \in Reqs
    <2>2. r # None
      BY MarkersAssumption
    <2>3. QED
      BY <1>1, <2>2 DEF Init, Fresh, Reqs
  <1>3. \A r \in Reqs : /\ ~In(lines, r) /\ ~In(stdin, r)
                        /\ Single(lines, r) /\ Single(stdin, r)
    BY <1>1 DEF Init, In, Single
  <1>4. UnreadOnce
    BY <1>2, <1>3 DEF UnreadOnce
  <1>5. HeldAlone /\ SlotAlone /\ ToolAlone /\ ReadyOwed
    BY <1>1 DEF Init, HeldAlone, SlotAlone, Busy, ToolAlone, ReadyOwed
  <1>6. OneOutcome
    BY <1>1, <1>2 DEF Init, OneOutcome
  <1>7. QED
    BY <1>4, <1>5, <1>6 DEF OnePlace

\* A step that moves no request.
LEMMA QuietPlace ==
  ASSUME OnePlace,
         UNCHANGED <<sent, stdin, lines, buffered, pending, dropTool, inflight,
                     dropReply, out, cancelled>>,
         pc' = "handle" => pc = "handle" /\ ready' \subseteq ready
  PROVE  OnePlace'
  <1>1. UnreadOnce'
    BY DEF OnePlace, UnreadOnce, Sent, Fresh, In, Single
  <1>2. HeldAlone' /\ SlotAlone' /\ ToolAlone' /\ OneOutcome'
    BY DEF OnePlace, HeldAlone, SlotAlone, Busy, ToolAlone, OneOutcome
  <1>3. ReadyOwed'
    BY DEF OnePlace, ReadyOwed, BusyWorkers, Busy
  <1>4. QED
    BY <1>1, <1>2, <1>3 DEF OnePlace

\* How UnreadOnce survives a step that takes no call but that of r from the
\* input, and does something for r only (for no request when r is None).
LEMMA UnreadKept ==
  ASSUME UnreadOnce, NEW r, sent' = sent,
         r \in Reqs => r \in Sent /\ ~In(lines', r) /\ ~In(stdin', r),
         \A q \in Reqs : /\ Single(lines', q) /\ Single(stdin', q)
                         /\ ~(In(lines', q) /\ In(stdin', q))
                         /\ In(lines', q) \/ In(stdin', q) => In(lines, q) \/ In(stdin, q),
         \A q \in Reqs : q # r /\ Fresh(q) => Fresh(q)'
  PROVE  UnreadOnce'
  <1>1. Sent' = Sent
    BY DEF Sent
  <1>2. ASSUME NEW q \in Reqs
        PROVE  /\ Single(lines, q)' /\ Single(stdin, q)' /\ ~(In(lines, q) /\ In(stdin, q))'
               /\ (In(lines, q) \/ In(stdin, q))' => q \in Sent' /\ Fresh(q)'
               /\ q \notin Sent' => Fresh(q)'
    <2>1. Single(lines, q)' /\ Single(stdin, q)' /\ ~(In(lines, q) /\ In(stdin, q))'
      BY DEF Single, In, Call
    <2>2. ASSUME (In(lines, q) \/ In(stdin, q))' PROVE q \in Sent' /\ Fresh(q)'
      <3>1. In(lines', q) \/ In(stdin', q)
        BY <2>2 DEF In, Call
      <3>2. In(lines, q) \/ In(stdin, q)
        BY <3>1
      <3>3. q # r
        BY <3>1
      <3>4. q \in Sent /\ Fresh(q)
        BY <3>2 DEF UnreadOnce
      <3>5. QED
        BY <1>1, <3>3, <3>4
    <2>3. ASSUME q \notin Sent' PROVE Fresh(q)'
      <3>1. q # r /\ Fresh(q)
        BY <1>1, <2>3 DEF UnreadOnce
      <3>2. QED
        BY <3>1
    <2>4. QED
      BY <2>1, <2>2, <2>3
  <1>3. QED
    BY <1>2 DEF UnreadOnce

\* The line loop takes the first message: what was a call is no longer unread.
LEMMA TakeLine ==
  ASSUME TypeOK, UnreadOnce, NEW kind, NEW ids, NextLine(kind, ids), stdin' = stdin
  PROVE  /\ \A q \in Reqs : /\ Single(lines', q) /\ Single(stdin', q)
                            /\ ~(In(lines', q) /\ In(stdin', q))
                            /\ In(lines', q) \/ In(stdin', q) => In(lines, q) \/ In(stdin, q)
         /\ kind = "call" =>
               LET r == Head(lines).id
               IN  r \in Sent /\ Fresh(r) /\ ~In(lines', r) /\ ~In(stdin', r)
  <1>1. lines \in Seq(Messages) /\ lines # <<>> /\ lines' = Tail(lines)
    BY DEF TypeOK, NextLine
  <1>2. \A q \in Reqs : /\ Single(lines', q) /\ Single(stdin', q)
                        /\ ~(In(lines', q) /\ In(stdin', q))
                        /\ In(lines', q) \/ In(stdin', q) => In(lines, q) \/ In(stdin, q)
    BY <1>1, InTail DEF UnreadOnce
  <1>3. ASSUME kind = "call"
        PROVE  LET r == Head(lines).id
               IN  r \in Sent /\ Fresh(r) /\ ~In(lines', r) /\ ~In(stdin', r)
    <2>1. Head(lines) \in Messages /\ Head(lines).kind = "call"
      BY <1>1, <1>3, TailType DEF NextLine
    <2>2. PICK r \in Reqs : r = Head(lines).id
      BY <2>1 DEF Messages
    <2>3. Head(lines) = Call(r)
      BY <2>1, <2>2 DEF Messages, Call
    <2>4. In(lines, r) /\ ~In(lines', r)
      BY <1>1, <2>3, InTail DEF UnreadOnce
    <2>5. r \in Sent /\ Fresh(r) /\ ~In(stdin, r)
      BY <2>4 DEF UnreadOnce
    <2>6. QED
      BY <2>2, <2>4, <2>5
  <1>4. QED
    BY <1>2, <1>3

\* The ids sent, after one more.
LEMMA SendAdds ==
  ASSUME TypeOK, NEW r \in Reqs, ClientSend(r)
  PROVE  Sent' = Sent \cup {r}
  <1>1. sent \in Seq(Reqs) /\ sent' = Append(sent, r)
    BY DEF TypeOK, ClientSend
  <1>2. /\ DOMAIN sent = 1..Len(sent) /\ Len(sent) \in Nat
        /\ DOMAIN sent' = 1..(Len(sent) + 1)
        /\ \A i \in 1..Len(sent) : sent'[i] = sent[i]
        /\ sent'[Len(sent) + 1] = r
    BY <1>1
  <1>3. \A i \in DOMAIN sent' : i \in DOMAIN sent \/ i = Len(sent) + 1
    BY <1>2
  <1>4. Sent' \subseteq Sent \cup {r}
    BY <1>2, <1>3 DEF Sent
  <1>5. Len(sent) + 1 \in DOMAIN sent' /\ \A i \in DOMAIN sent : i \in DOMAIN sent'
    BY <1>2
  <1>6. Sent \cup {r} \subseteq Sent'
    BY <1>2, <1>5 DEF Sent
  <1>7. QED
    BY <1>4, <1>6

\* What the client does: a new id goes into the pipe; a cancellation is not a
\* call.
LEMMA ClientPlace == TypeOK /\ OnePlace /\ Client => OnePlace'
  <1>1. SUFFICES ASSUME TypeOK, OnePlace, Client PROVE OnePlace'
    OBVIOUS
  <1>2. ASSUME NEW m \in Messages, stdin' = Append(stdin, m), lines' = lines,
               UNCHANGED <<pc, ready, buffered, pending, dropTool, inflight, dropReply,
                           out, cancelled>>,
               Sent \subseteq Sent',
               \A r \in Reqs : m = Call(r) => r \notin Sent /\ r \in Sent'
        PROVE  OnePlace'
    <2>1. stdin \in Seq(Messages)
      BY <1>1 DEF TypeOK
    <2>2. \A q \in Reqs : Fresh(q)' <=> Fresh(q)
      BY <1>2 DEF Fresh
    <2>3. ASSUME NEW q \in Reqs
          PROVE  /\ Single(lines', q) /\ Single(stdin', q)
                 /\ ~(In(lines', q) /\ In(stdin', q))
                 /\ In(lines', q) \/ In(stdin', q) => q \in Sent' /\ Fresh(q)
                 /\ q \notin Sent' => Fresh(q)
      <3>1. /\ Single(lines, q) /\ Single(stdin, q) /\ ~(In(lines, q) /\ In(stdin, q))
            /\ In(lines, q) \/ In(stdin, q) => q \in Sent /\ Fresh(q)
            /\ q \notin Sent => Fresh(q)
        BY <1>1 DEF OnePlace, UnreadOnce
      <3>2. m = Call(q) => ~In(lines, q) /\ ~In(stdin, q) /\ Fresh(q) /\ q \in Sent'
        BY <1>2, <3>1
      <3>3. /\ In(stdin', q) => In(stdin, q) \/ m = Call(q)
            /\ Single(stdin', q)
        BY <1>2, <2>1, <3>1, <3>2, InAppend
      <3>4. QED
        BY <1>2, <3>1, <3>2, <3>3
    <2>4. UnreadOnce'
      BY <2>2, <2>3 DEF UnreadOnce, In, Single, Call
    <2>5. HeldAlone' /\ SlotAlone' /\ ToolAlone' /\ OneOutcome' /\ ReadyOwed'
      BY <1>1, <1>2 DEF OnePlace, HeldAlone, SlotAlone, Busy, ToolAlone, OneOutcome,
                        ReadyOwed, BusyWorkers
    <2>6. QED
      BY <2>4, <2>5 DEF OnePlace
  <1>3. ASSUME NEW r \in Reqs, ClientSend(r) PROVE OnePlace'
    <2>1. sent \in Seq(Reqs) /\ sent' = Append(sent, r) /\ r \notin Sent
      BY <1>1, <1>3 DEF TypeOK, ClientSend
    <2>2. Sent' = Sent \cup {r}
      BY <1>1, <1>3, SendAdds
    <2>3. Call(r) \in Messages /\ \A q \in Reqs : Call(r) = Call(q) => q = r
      BY DEF Call, Messages
    <2>4. stdin' = Append(stdin, Call(r)) /\ lines' = lines
          /\ UNCHANGED <<pc, ready, buffered, pending, dropTool, inflight, dropReply,
                         out, cancelled>>
      BY <1>3 DEF ClientSend
    <2>5. QED
      BY <1>2, <2>1, <2>2, <2>3, <2>4
  <1>4. ASSUME NEW r \in Reqs, ClientCancel(r) PROVE OnePlace'
    <2>1. CancelOf(r) \in Messages /\ \A q \in Reqs : CancelOf(r) # Call(q)
      BY DEF Call, CancelOf, Messages
    <2>2. Sent' = Sent
      BY <1>4 DEF ClientCancel, Sent
    <2>3. stdin' = Append(stdin, CancelOf(r)) /\ lines' = lines
          /\ UNCHANGED <<pc, ready, buffered, pending, dropTool, inflight, dropReply,
                         out, cancelled>>
      BY <1>4 DEF ClientCancel
    <2>4. QED
      BY <1>2, <2>1, <2>2, <2>3
  <1>5. CASE ClientClose
    BY <1>1, <1>5, QuietPlace DEF ClientClose
  <1>6. QED
    BY <1>1, <1>3, <1>4, <1>5 DEF Client

\* One more reply, for a request that has none, was not cancelled, and is in
\* no other place any longer.
LEMMA WriteOnce ==
  ASSUME TypeOK, OneOutcome, NEW r \in Reqs \cup {None}, NEW b, Write(r, b),
         r \in Reqs => out[r] = <<>> /\ r \notin cancelled', cancelled' = cancelled
  PROVE  /\ OneOutcome'
         /\ \A q \in Reqs : q # r => out'[q] = out[q]
  <1>1. \A q \in Reqs : q # r => out'[q] = out[q]
    BY DEF TypeOK, Write
  <1>2. r \in Reqs => out'[r] = Append(<<>>, b)
    BY DEF TypeOK, Write
  <1>3. ASSUME NEW q \in Reqs
        PROVE  Len(out'[q]) <= 1 /\ (q \in cancelled' => out'[q] = <<>>)
    <2>1. CASE q # r
      <3>1. out'[q] = out[q]
        BY <1>1, <2>1
      <3>2. Len(out[q]) <= 1 /\ (q \in cancelled => out[q] = <<>>)
        BY DEF OneOutcome
      <3>3. QED
        BY <3>1, <3>2
    <2>2. CASE q = r
      <3>1. Append(<<>>, b) = <<b>>
        OBVIOUS
      <3>2. Len(<<b>>) = 1
        OBVIOUS
      <3>3. out'[q] = <<b>>
        BY <1>2, <2>2, <3>1
      <3>4. Len(out'[q]) <= 1
        BY <3>2, <3>3
      <3>5. QED
        BY <2>2, <3>4
    <2>3. QED
      BY <2>1, <2>2
  <1>4. OneOutcome'
    BY <1>3 DEF OneOutcome
  <1>5. QED
    BY <1>1, <1>4

\* LineReader::fill moves unread calls from the pipe to the buffer, all of
\* them or, on overflow, a part.
LEMMA FillPlace == TypeOK /\ OnePlace /\ (Fill \/ FillOverflow) => OnePlace'
  <1>1. SUFFICES ASSUME TypeOK, OnePlace, Fill \/ FillOverflow PROVE OnePlace'
    OBVIOUS
  <1>2. lines \in Seq(Messages) /\ stdin \in Seq(Messages) /\ stdin' = <<>>
    BY <1>1 DEF TypeOK, Fill, FillOverflow
  <1>3. PICK n \in 0..Len(stdin) : lines' = lines \o SubSeq(stdin, 1, n)
    <2>1. CASE Fill
      <3>1. SubSeq(stdin, 1, Len(stdin)) = stdin /\ Len(stdin) \in 0..Len(stdin)
        BY <1>2
      <3>2. QED
        BY <2>1, <3>1 DEF Fill
    <2>2. CASE FillOverflow
      <3>1. PICK n \in 0..(Len(stdin) - 1) : lines' = lines \o SubSeq(stdin, 1, n)
        BY <2>2 DEF FillOverflow
      <3>2. n \in 0..Len(stdin)
        BY <1>2, <3>1
      <3>3. QED
        BY <3>1, <3>2
    <2>3. QED
      BY <1>1, <2>1, <2>2
  <1>4. /\ UNCHANGED <<sent, pc, buffered, pending, dropTool, inflight, dropReply, cancelled>>
        /\ ready' \subseteq ready
        /\ \A q \in Reqs : out'[q] = out[q]
    <2>1. CASE Fill
      BY <2>1 DEF Fill
    <2>2. CASE FillOverflow
      <3>1. None \notin Reqs
        BY MarkersAssumption
      <3>2. QED
        BY <1>1, <2>2, <3>1 DEF TypeOK, FillOverflow, Write
    <2>3. QED
      BY <1>1, <2>1, <2>2
  <1>5. \A q \in Reqs : Fresh(q)' <=> Fresh(q)
    BY <1>4 DEF Fresh
  <1>6. Sent' = Sent
    BY <1>4 DEF Sent
  <1>7. ASSUME NEW q \in Reqs
        PROVE  /\ Single(lines', q) /\ Single(stdin', q) /\ ~In(stdin', q)
               /\ In(lines', q) => In(lines, q) \/ In(stdin, q)
    <2>1. Single(lines, q) /\ Single(stdin, q) /\ ~(In(lines, q) /\ In(stdin, q))
      BY <1>1 DEF OnePlace, UnreadOnce
    <2>2. Single(lines', q) /\ (In(lines', q) => In(lines, q) \/ In(stdin, q))
      BY <1>2, <1>3, <2>1, InConcat
    <2>3. Single(stdin', q) /\ ~In(stdin', q)
      BY <1>2 DEF In, Single
    <2>4. QED
      BY <2>2, <2>3
  <1>8. UnreadOnce'
    <2>1. ASSUME NEW q \in Reqs
          PROVE  /\ In(lines', q) \/ In(stdin', q) => q \in Sent' /\ Fresh(q)'
                 /\ q \notin Sent' => Fresh(q)'
      BY <1>1, <1>5, <1>6, <1>7 DEF OnePlace, UnreadOnce
    <2>2. QED
      BY <1>7, <2>1 DEF UnreadOnce, In, Single, Call
  <1>9. \A r \in Cmds \cup Tools : r \in Reqs
    BY DEF Reqs
  <1>10. HeldAlone' /\ SlotAlone' /\ ToolAlone' /\ OneOutcome'
    <2>1. HeldAlone' /\ OneOutcome'
      BY <1>1, <1>4, <1>9 DEF TypeOK, OnePlace, HeldAlone, OneOutcome
    <2>2. SlotAlone'
      BY <1>1, <1>4, <1>9 DEF TypeOK, OnePlace, SlotAlone, Busy
    <2>3. ToolAlone'
      BY <1>1, <1>4, <1>9 DEF TypeOK, OnePlace, ToolAlone
    <2>4. QED
      BY <2>1, <2>2, <2>3
  <1>11. ReadyOwed'
    BY <1>1, <1>4 DEF OnePlace, ReadyOwed, BusyWorkers, Busy
  <1>12. QED
    BY <1>8, <1>10, <1>11 DEF OnePlace

\* try_dispatch: a command with no place of its own gets an idle worker's
\* slot, or is lost with a dead one.
LEMMA DispatchSlot ==
  ASSUME TypeOK, SlotAlone, NEW r \in Cmds, TryDispatch(r),
         out[r] = <<>>, r \notin cancelled, \A w \in Workers : inflight[w] # r,
         UNCHANGED <<dropReply, out, cancelled>>
  PROVE  /\ SlotAlone'
         /\ \A w \in Workers : inflight'[w] = inflight[w] \/ inflight'[w] = r
  <1>1. PICK w \in Workers :
           /\ First(w, Idle)
           /\ IF Alive(w)
              THEN /\ down' = [down EXCEPT ![w] = Append(@, r)]
                   /\ inflight' = [inflight EXCEPT ![w] = r]
                   /\ dispatched' = Append(dispatched, r)
              ELSE UNCHANGED <<down, inflight, dispatched>>
    BY DEF TryDispatch
  <1>2. CASE ~Alive(w)
    BY <1>1, <1>2 DEF SlotAlone, Busy
  <1>3. CASE Alive(w)
    <2>1. /\ inflight'[w] = r
          /\ \A v \in Workers : v # w => inflight'[v] = inflight[v]
      BY <1>1, <1>3 DEF TypeOK
    <2>2. ASSUME NEW v \in Workers, Busy(v)'
          PROVE  /\ out'[inflight'[v]] = <<>>
                 /\ inflight'[v] \in cancelled' => dropReply'[v]
                 /\ \A u \in Workers : inflight'[u] = inflight'[v] => u = v
      <3>1. CASE v = w
        BY <2>1, <3>1
      <3>2. CASE v # w
        BY <2>1, <2>2, <3>2 DEF SlotAlone, Busy
      <3>3. QED
        BY <3>1, <3>2
    <2>3. SlotAlone'
      BY <2>2 DEF SlotAlone
    <2>4. QED
      BY <2>1, <2>3
  <1>4. QED
    BY <1>2, <1>3

\* The held command is dispatched.
LEMMA TopPlace == TypeOK /\ OnePlace /\ TopDispatchBuffered => OnePlace'
  <1>1. SUFFICES ASSUME TypeOK, OnePlace, TopDispatchBuffered PROVE OnePlace'
    OBVIOUS
  <1>2. PICK r \in Cmds : r = buffered
    BY <1>1 DEF TypeOK, TopDispatchBuffered
  <1>3. r # None /\ r \in Reqs /\ r \notin pending
    BY <1>1, <1>2, KindsAssumption, MarkersAssumption DEF TypeOK, Reqs
  <1>4. /\ \A w \in Workers : inflight[w] # r
        /\ out[r] = <<>> /\ r \notin cancelled
    BY <1>1, <1>2, <1>3 DEF OnePlace, HeldAlone
  <1>5. /\ TryDispatch(r) /\ buffered' = None /\ pc' = "lines"
        /\ UNCHANGED <<sent, stdin, lines, pending, dropTool, dropReply, out, cancelled>>
    BY <1>1, <1>2 DEF TopDispatchBuffered
  <1>6. /\ SlotAlone'
        /\ \A w \in Workers : inflight'[w] = inflight[w] \/ inflight'[w] = r
    BY <1>1, <1>4, <1>5, DispatchSlot DEF OnePlace
  <1>7. ~Fresh(r) /\ \A q \in Reqs : q # r /\ Fresh(q) => Fresh(q)'
    <2>1. None \notin Reqs
      BY MarkersAssumption
    <2>2. QED
      BY <1>2, <1>5, <1>6, <2>1 DEF Fresh
  <1>8. UnreadOnce'
    <2>1. r \in Sent /\ ~In(lines, r) /\ ~In(stdin, r)
      BY <1>1, <1>3, <1>7 DEF OnePlace, UnreadOnce
    <2>2. \A q \in Reqs : /\ Single(lines', q) /\ Single(stdin', q)
                          /\ ~(In(lines', q) /\ In(stdin', q))
                          /\ In(lines', q) \/ In(stdin', q) => In(lines, q) \/ In(stdin, q)
      BY <1>1, <1>5 DEF OnePlace, UnreadOnce
    <2>3. ~In(lines', r) /\ ~In(stdin', r) /\ sent' = sent /\ UnreadOnce
      BY <1>1, <1>5, <2>1 DEF OnePlace
    <2>4. QED
      BY <1>7, <2>1, <2>2, <2>3, UnreadKept
  <1>9. HeldAlone' /\ ToolAlone' /\ ReadyOwed' /\ OneOutcome'
    BY <1>1, <1>5 DEF OnePlace, HeldAlone, ToolAlone, ReadyOwed, OneOutcome
  <1>10. QED
    BY <1>6, <1>8, <1>9 DEF OnePlace

\* A line is answered, or dropped by an exception, on the spot.
LEMMA SpotPlace ==
  TypeOK /\ OnePlace /\ (LineToolInline \/ LineToolThrow \/ LineSync) => OnePlace'
  <1>1. SUFFICES ASSUME TypeOK, OnePlace, LineToolInline \/ LineToolThrow \/ LineSync
                 PROVE  OnePlace'
    OBVIOUS
  <1> DEFINE r == Head(lines).id
  <1>2. PICK ids : NextLine("call", ids)
    BY <1>1 DEF LineToolInline, LineToolThrow, LineSync
  <1>3. /\ UNCHANGED <<sent, stdin, buffered, pending, dropTool, inflight, dropReply, cancelled>>
        /\ pc' # "handle"
        /\ Write(r, r) \/ out' = out
    BY <1>1, <1>2 DEF LineToolInline, LineToolThrow, LineSync, NextLine
  <1>4. UnreadOnce /\ HeldAlone /\ SlotAlone /\ ToolAlone /\ OneOutcome
    BY <1>1 DEF OnePlace
  <1>5. /\ \A q \in Reqs : /\ Single(lines', q) /\ Single(stdin', q)
                           /\ ~(In(lines', q) /\ In(stdin', q))
                           /\ In(lines', q) \/ In(stdin', q) => In(lines, q) \/ In(stdin, q)
        /\ r \in Sent /\ Fresh(r) /\ ~In(lines', r) /\ ~In(stdin', r)
    BY <1>1, <1>2, <1>3, <1>4, TakeLine
  <1>6. r \in Reqs
    BY <1>1, <1>2, NextLineType
  <1> HIDE DEF r
  <1>7. OneOutcome' /\ \A q \in Reqs : q # r => out'[q] = out[q]
    <2>1. CASE out' = out
      BY <1>3, <1>4, <2>1 DEF OneOutcome
    <2>2. CASE Write(r, r)
      <3>1. out[r] = <<>> /\ r \notin cancelled'
        BY <1>3, <1>5 DEF Fresh
      <3>2. QED
        BY <1>1, <1>3, <1>4, <1>6, <2>2, <3>1, WriteOnce
    <2>3. QED
      BY <1>3, <2>1, <2>2
  <1>8. UnreadOnce'
    <2>1. \A q \in Reqs : q # r /\ Fresh(q) => Fresh(q)'
      BY <1>3, <1>7 DEF Fresh
    <2>2. QED
      BY <1>3, <1>4, <1>5, <2>1, UnreadKept
  <1>9. HeldAlone' /\ SlotAlone' /\ ToolAlone'
    <2>1. \A c \in Cmds \cup Tools : c \in Reqs
      BY DEF Reqs
    <2>2. /\ buffered # r /\ r \notin pending
          /\ \A w \in Workers : inflight[w] # r
      BY <1>5 DEF Fresh
    <2>3. HeldAlone'
      BY <1>1, <1>3, <1>4, <1>7, <2>1, <2>2 DEF TypeOK, HeldAlone
    <2>4. SlotAlone'
      BY <1>1, <1>3, <1>4, <1>7, <2>1, <2>2 DEF TypeOK, SlotAlone, Busy
    <2>5. ToolAlone'
      BY <1>1, <1>3, <1>4, <1>7, <2>1, <2>2 DEF TypeOK, ToolAlone
    <2>6. QED
      BY <2>3, <2>4, <2>5
  <1>10. ReadyOwed'
    BY <1>3 DEF ReadyOwed
  <1>11. QED
    BY <1>7, <1>8, <1>9, <1>10 DEF OnePlace

\* A line goes to a worker, to the buffer or to a thread of its own.
LEMMA StartPlace ==
  TypeOK /\ OnePlace /\ (LineCmdDispatch \/ LineCmdBuffer \/ LineTool) => OnePlace'
  <1>1. SUFFICES ASSUME TypeOK, OnePlace, LineCmdDispatch \/ LineCmdBuffer \/ LineTool
                 PROVE  OnePlace'
    OBVIOUS
  <1> DEFINE r == Head(lines).id
  <1>2. PICK ids : NextLine("call", ids)
    BY <1>1 DEF LineCmdDispatch, LineCmdBuffer, LineTool
  <1>3. /\ UNCHANGED <<sent, stdin, dropTool, dropReply, out, cancelled>>
        /\ pc' # "handle"
    BY <1>1, <1>2 DEF LineCmdDispatch, LineCmdBuffer, LineTool, NextLine
  <1>4. UnreadOnce /\ HeldAlone /\ SlotAlone /\ ToolAlone /\ OneOutcome
    BY <1>1 DEF OnePlace
  <1>5. /\ \A q \in Reqs : /\ Single(lines', q) /\ Single(stdin', q)
                           /\ ~(In(lines', q) /\ In(stdin', q))
                           /\ In(lines', q) \/ In(stdin', q) => In(lines, q) \/ In(stdin, q)
        /\ r \in Sent /\ Fresh(r) /\ ~In(lines', r) /\ ~In(stdin', r)
    BY <1>1, <1>2, <1>3, <1>4, TakeLine
  <1>6. /\ buffered # r /\ r \notin pending /\ r \notin cancelled /\ out[r] = <<>>
        /\ \A w \in Workers : inflight[w] # r
    BY <1>5 DEF Fresh
  <1>7. /\ HeldAlone' /\ SlotAlone' /\ ToolAlone'
        /\ \A q \in Reqs : q # r /\ Fresh(q) => Fresh(q)'
    <2>1. CASE LineCmdDispatch
      <3>1. r \in Cmds /\ TryDispatch(r) /\ UNCHANGED <<buffered, pending>>
        BY <2>1 DEF LineCmdDispatch, NextLine
      <3> HIDE DEF r
      <3>2. /\ SlotAlone'
            /\ \A w \in Workers : inflight'[w] = inflight[w] \/ inflight'[w] = r
        BY <1>1, <1>3, <1>4, <1>6, <3>1, DispatchSlot
      <3>3. HeldAlone'
        BY <1>3, <1>4, <1>6, <3>1, <3>2 DEF HeldAlone
      <3>4. ToolAlone'
        BY <1>3, <1>4, <3>1 DEF ToolAlone
      <3>5. \A q \in Reqs : q # r /\ Fresh(q) => Fresh(q)'
        BY <1>3, <3>1, <3>2 DEF Fresh
      <3>6. QED
        BY <3>2, <3>3, <3>4, <3>5
    <2>2. CASE LineCmdBuffer
      <3>1. buffered' = r /\ UNCHANGED <<pending, inflight>>
        BY <2>2 DEF LineCmdBuffer
      <3> HIDE DEF r
      <3>2. HeldAlone'
        BY <1>3, <1>6, <3>1 DEF HeldAlone
      <3>3. SlotAlone' /\ ToolAlone'
        BY <1>3, <1>4, <3>1 DEF SlotAlone, Busy, ToolAlone
      <3>4. \A q \in Reqs : q # r /\ Fresh(q) => Fresh(q)'
        BY <1>3, <3>1 DEF Fresh
      <3>5. QED
        BY <3>2, <3>3, <3>4
    <2>3. CASE LineTool
      <3>1. pending' = pending \cup {r} /\ UNCHANGED <<buffered, inflight>>
        BY <2>3 DEF LineTool
      <3> HIDE DEF r
      <3>2. HeldAlone' /\ SlotAlone'
        BY <1>3, <1>4, <3>1 DEF HeldAlone, SlotAlone, Busy
      <3>3. ToolAlone'
        BY <1>3, <1>4, <1>6, <3>1 DEF ToolAlone
      <3>4. \A q \in Reqs : q # r /\ Fresh(q) => Fresh(q)'
        BY <1>3, <3>1 DEF Fresh
      <3>5. QED
        BY <3>2, <3>3, <3>4
    <2>4. QED
      BY <1>1, <2>1, <2>2, <2>3
  <1> HIDE DEF r
  <1>8. UnreadOnce'
    BY <1>3, <1>4, <1>5, <1>7, UnreadKept
  <1>9. ReadyOwed' /\ OneOutcome'
    BY <1>3, <1>4 DEF ReadyOwed, OneOutcome
  <1>10. QED
    BY <1>7, <1>8, <1>9 DEF OnePlace

\* cancel_in_flight: the request is dropped where it is, if it is anywhere.
LEMMA CancelPlace == TypeOK /\ OnePlace /\ LineCancel => OnePlace'
  <1>1. SUFFICES ASSUME TypeOK, OnePlace, LineCancel PROVE OnePlace'
    OBVIOUS
  <1> DEFINE r == Head(lines).id
  <1>2. NextLine("cancel", Reqs)
    BY <1>1 DEF LineCancel
  <1>3. /\ UNCHANGED <<sent, stdin, pending, inflight, out>>
        /\ pc' # "handle" /\ r \in Reqs
    BY <1>1, <1>2 DEF LineCancel, NextLine
  <1>4. UnreadOnce /\ HeldAlone /\ SlotAlone /\ ToolAlone /\ OneOutcome
    BY <1>1 DEF OnePlace
  <1>5. \A q \in Reqs : /\ Single(lines', q) /\ Single(stdin', q)
                        /\ ~(In(lines', q) /\ In(stdin', q))
                        /\ In(lines', q) \/ In(stdin', q) => In(lines, q) \/ In(stdin, q)
    BY <1>1, <1>2, <1>3, <1>4, TakeLine
  <1>6. /\ \A c \in Cmds : c \notin Tools /\ c # None
        /\ \A c \in Reqs : c # None
    BY KindsAssumption, MarkersAssumption DEF Reqs
  <1>7. /\ HeldAlone' /\ SlotAlone' /\ ToolAlone' /\ OneOutcome'
        /\ \A q \in Reqs : Fresh(q) => Fresh(q)'
    <2>1. CASE /\ buffered = r
               /\ buffered' = None /\ cancelled' = cancelled \cup {r}
               /\ UNCHANGED <<dropTool, dropReply, down>>
      <3> HIDE DEF r
      <3>1. /\ \A w \in Workers : inflight[w] # r
            /\ out[r] = <<>> /\ r \in Cmds
        BY <1>1, <1>3, <1>4, <1>6, <2>1 DEF TypeOK, HeldAlone
      <3>2. HeldAlone' /\ OneOutcome'
        BY <1>3, <1>4, <2>1, <3>1 DEF HeldAlone, OneOutcome
      <3>3. SlotAlone'
        BY <1>3, <1>4, <2>1, <3>1 DEF SlotAlone, Busy
      <3>4. ToolAlone'
        BY <1>1, <1>3, <1>4, <1>6, <2>1, <3>1 DEF TypeOK, ToolAlone
      <3>5. \A q \in Reqs : Fresh(q) => Fresh(q)'
        BY <1>3, <1>6, <2>1 DEF Fresh
      <3>6. QED
        BY <3>2, <3>3, <3>4, <3>5
    <2>2. CASE /\ buffered # r /\ PoolCancel(r)
               /\ cancelled' = cancelled \cup {r}
               /\ UNCHANGED <<buffered, dropTool>>
      <3> HIDE DEF r
      <3>1. PICK w \in Workers : /\ inflight[w] = r
                                 /\ dropReply' = [dropReply EXCEPT ![w] = TRUE]
        BY <2>2 DEF PoolCancel, First, Holders
      <3>2. Busy(w) /\ r \in Cmds
        BY <1>1, <1>3, <1>6, <3>1 DEF TypeOK, Busy
      <3>3. out[r] = <<>> /\ \A v \in Workers : inflight[v] = r => v = w
        BY <1>4, <3>1, <3>2 DEF SlotAlone
      <3>4. dropReply'[w] = TRUE /\ \A v \in Workers : v # w => dropReply'[v] = dropReply[v]
        BY <1>1, <3>1 DEF TypeOK
      <3>5. HeldAlone' /\ OneOutcome'
        BY <1>3, <1>4, <2>2, <3>3 DEF HeldAlone, OneOutcome
      <3>6. SlotAlone'
        <4>1. ASSUME NEW v \in Workers, Busy(v)'
              PROVE  /\ out'[inflight'[v]] = <<>>
                     /\ inflight'[v] \in cancelled' => dropReply'[v]
                     /\ \A u \in Workers : inflight'[u] = inflight'[v] => u = v
          <5>1. Busy(v) /\ inflight'[v] = inflight[v] /\ out' = out
            BY <1>3, <4>1 DEF Busy
          <5>2. CASE v = w
            BY <1>3, <3>1, <3>3, <3>4, <5>1, <5>2
          <5>3. CASE v # w
            BY <1>3, <1>4, <2>2, <3>3, <3>4, <5>1, <5>3 DEF SlotAlone
          <5>4. QED
            BY <5>2, <5>3
        <4>2. QED
          BY <4>1 DEF SlotAlone
      <3>7. ToolAlone'
        BY <1>1, <1>3, <1>4, <1>6, <2>2, <3>2 DEF TypeOK, ToolAlone
      <3>8. \A q \in Reqs : Fresh(q) => Fresh(q)'
        BY <1>3, <2>2, <3>1 DEF Fresh
      <3>9. QED
        BY <3>5, <3>6, <3>7, <3>8
    <2>3. CASE /\ buffered # r /\ Holders(r) = {}
               /\ dropTool' = dropTool \cup ({r} \cap pending)
               /\ cancelled' = cancelled \cup ({r} \cap pending)
               /\ UNCHANGED <<buffered, dropReply, down>>
      <3> HIDE DEF r
      <3>1. \A q \in cancelled' : q \in cancelled \/ (q = r /\ r \in pending)
        BY <2>3
      <3>2. HeldAlone'
        BY <1>3, <1>4, <2>3 DEF HeldAlone
      <3>3. OneOutcome'
        BY <1>3, <1>4, <2>3 DEF ToolAlone, OneOutcome
      <3>4. SlotAlone'
        <4>1. \A w \in Workers : inflight[w] # r
          BY <2>3 DEF Holders
        <4>2. QED
          BY <1>3, <1>4, <2>3, <4>1 DEF SlotAlone, Busy
      <3>5. ToolAlone'
        BY <1>3, <1>4, <2>3 DEF ToolAlone
      <3>6. \A q \in Reqs : Fresh(q) => Fresh(q)'
        BY <1>3, <2>3 DEF Fresh
      <3>7. QED
        BY <3>2, <3>3, <3>4, <3>5, <3>6
    <2>4. QED
      BY <1>1, <2>1, <2>2, <2>3 DEF LineCancel
  <1> HIDE DEF r
  <1>8. UnreadOnce'
    <2>1. None \notin Reqs
      BY <1>6
    <2>2. QED
      BY <1>3, <1>4, <1>5, <1>7, <2>1, UnreadKept
  <1>9. ReadyOwed'
    BY <1>3 DEF ReadyOwed
  <1>10. QED
    BY <1>7, <1>8, <1>9 DEF OnePlace

\* What UnreadOnce asks of a step that reads nothing.
LEMMA UnreadSame ==
  ASSUME UnreadOnce, UNCHANGED <<sent, lines, stdin>>,
         \A q \in Reqs : Fresh(q) => Fresh(q)'
  PROVE  UnreadOnce'
  BY DEF UnreadOnce, Sent, In, Single, Call

\* collect(w): the slot is freed, and the request answered unless its reply
\* was to be dropped (DrainWorker answers nothing).
LEMMA CollectPlace ==
  ASSUME TypeOK, OnePlace, NEW w \in Workers, Busy(w),
         CollectReply(w) \/ CollectCrash(w),
         NEW b, (~dropReply[w] /\ Write(inflight[w], b)) \/ out' = out,
         UNCHANGED <<sent, stdin, lines, buffered, pending, dropTool, cancelled>>,
         pc' = "handle" => pc = "handle" /\ ready' = ready \ {w}
  PROVE  OnePlace'
  <1> DEFINE r == inflight[w]
  <1>1. UnreadOnce /\ HeldAlone /\ SlotAlone /\ ToolAlone /\ ReadyOwed /\ OneOutcome
    BY DEF OnePlace
  <1>2. /\ inflight'[w] = None
        /\ \A v \in Workers : v # w => inflight'[v] = inflight[v] /\ dropReply'[v] = dropReply[v]
    BY DEF TypeOK, CollectReply, CollectCrash
  <1>3. r \in Cmds /\ r \in Reqs /\ r \notin Tools /\ None \notin Reqs
    BY KindsAssumption, MarkersAssumption DEF TypeOK, Busy, Reqs
  <1>4. /\ out[r] = <<>> /\ (r \in cancelled => dropReply[w])
        /\ \A v \in Workers : inflight[v] = r => v = w
    BY <1>1 DEF SlotAlone
  <1>5. (~dropReply[w] /\ Write(r, b)) \/ out' = out
    OBVIOUS
  <1>6. inflight[w] = r
    OBVIOUS
  <1> HIDE DEF r
  <1>7. OneOutcome' /\ \A q \in Reqs : q # r => out'[q] = out[q]
    <2>1. CASE out' = out
      BY <1>1, <2>1 DEF OneOutcome
    <2>2. CASE ~dropReply[w] /\ Write(r, b)
      BY <1>1, <1>3, <1>4, <2>2, WriteOnce
    <2>3. QED
      BY <1>5, <2>1, <2>2
  <1>8. \A c \in Cmds \cup Tools : c \in Reqs
    BY DEF Reqs
  <1>9. UnreadOnce'
    <2>1. \A v \in Workers : inflight'[v] = inflight[v] \/ inflight'[v] = None
      BY <1>2
    <2>2. \A q \in Reqs : Fresh(q) => q # r
      BY <1>6 DEF Fresh
    <2>3. \A q \in Reqs : Fresh(q) => Fresh(q)'
      BY <1>3, <1>7, <2>1, <2>2 DEF Fresh
    <2>4. QED
      BY <1>1, <2>3, UnreadSame
  <1>10. HeldAlone'
    <2>1. SUFFICES ASSUME buffered # None
                   PROVE  /\ \A v \in Workers : inflight'[v] # buffered
                          /\ out'[buffered] = <<>> /\ buffered \notin cancelled
      BY DEF HeldAlone
    <2>2. /\ \A v \in Workers : inflight[v] # buffered
          /\ out[buffered] = <<>> /\ buffered \notin cancelled
      BY <1>1, <2>1 DEF HeldAlone
    <2>3. buffered \in Reqs /\ buffered # r
      BY <1>6, <1>8, <2>1, <2>2 DEF TypeOK
    <2>4. QED
      BY <1>2, <1>7, <2>1, <2>2, <2>3
  <1>11. SlotAlone'
    <2>1. ASSUME NEW v \in Workers, Busy(v)'
          PROVE  /\ out'[inflight'[v]] = <<>>
                 /\ inflight'[v] \in cancelled' => dropReply'[v]
                 /\ \A u \in Workers : inflight'[u] = inflight'[v] => u = v
      <3>1. v # w /\ Busy(v) /\ inflight'[v] = inflight[v] /\ dropReply'[v] = dropReply[v]
        BY <1>2, <2>1 DEF Busy
      <3>2. /\ out[inflight[v]] = <<>>
            /\ inflight[v] \in cancelled => dropReply[v]
            /\ \A u \in Workers : inflight[u] = inflight[v] => u = v
        BY <1>1, <3>1 DEF SlotAlone
      <3>3. inflight[v] \in Reqs /\ inflight[v] # r /\ inflight[v] # None
        BY <1>4, <1>8, <3>1 DEF TypeOK, Busy
      <3>4. out'[inflight'[v]] = <<>>
        BY <1>7, <3>1, <3>2, <3>3
      <3>5. \A u \in Workers : inflight'[u] = inflight'[v] => u = v
        BY <1>2, <3>1, <3>2, <3>3
      <3>6. QED
        BY <3>1, <3>2, <3>4, <3>5
    <2>2. QED
      BY <2>1 DEF SlotAlone
  <1>12. ToolAlone'
    BY <1>1, <1>3, <1>7, <1>8 DEF TypeOK, ToolAlone
  <1>13. ReadyOwed'
    <2>1. SUFFICES ASSUME pc' = "handle"
                   PROVE  /\ ready' \cap Workers \subseteq BusyWorkers'
                          /\ ready' \cap Tools \subseteq pending'
      BY DEF ReadyOwed
    <2>2. pc = "handle" /\ ready' = ready \ {w}
      BY <2>1
    <2>3. \A v \in ready : (v \in Workers => Busy(v)) /\ (v \in Tools => v \in pending)
      BY <1>1, <2>2 DEF ReadyOwed, BusyWorkers
    <2>4. \A v \in Workers : v # w /\ Busy(v) => Busy(v)'
      BY <1>2 DEF Busy
    <2>5. QED
      BY <2>2, <2>3, <2>4 DEF BusyWorkers
  <1>14. QED
    BY <1>7, <1>9, <1>10, <1>11, <1>12, <1>13 DEF OnePlace

\* A worker's end of the line, in the loop or in the catch block.
LEMMA WorkerPlace ==
  ASSUME TypeOK, OnePlace, NEW w \in Workers, HandleWorker(w) \/ DrainWorker(w)
  PROVE  OnePlace'
  <1>1. CASE HandleWorker(w)
    <2>1. Busy(w)
      BY <1>1 DEF HandleWorker, First, OnePlace, ReadyOwed, BusyWorkers
    <2> DEFINE b == IF up[w] # <<>> THEN Head(up[w]) ELSE Crash
    <2>2. /\ CollectReply(w) \/ CollectCrash(w)
          /\ (~dropReply[w] /\ Write(inflight[w], b)) \/ out' = out
          /\ UNCHANGED <<sent, stdin, lines, buffered, pending, dropTool, cancelled>>
          /\ pc' = "handle" => pc = "handle" /\ ready' = ready \ {w}
      BY <1>1 DEF HandleWorker
    <2> HIDE DEF b
    <2>3. QED
      BY <2>1, <2>2, CollectPlace
  <1>2. CASE DrainWorker(w)
    <2>1. Busy(w)
      BY <1>2 DEF DrainWorker, First, BusyWorkers
    <2>2. /\ CollectReply(w) \/ CollectCrash(w)
          /\ out' = out /\ pc' = "drain"
          /\ UNCHANGED <<sent, stdin, lines, buffered, pending, dropTool, cancelled>>
      BY <1>2 DEF DrainWorker
    <2>3. pc' = "handle" => pc = "handle" /\ ready' = ready \ {w}
      BY <2>2
    <2>4. QED
      BY <2>1, <2>2, <2>3, CollectPlace
  <1>3. QED
    BY <1>1, <1>2

\* A tool thread's reply, or none when it was cancelled.
LEMMA ToolPlace ==
  ASSUME TypeOK, OnePlace, NEW t \in Tools, HandleTool(t) \/ HandleToolUnread(t)
  PROVE  OnePlace'
  <1>1. UnreadOnce /\ HeldAlone /\ SlotAlone /\ ToolAlone /\ ReadyOwed /\ OneOutcome
    BY DEF OnePlace
  <1>2. /\ t \in Reqs /\ t \notin Cmds /\ t # None /\ t \in pending
        /\ \A c \in Cmds \cup Tools : c \in Reqs
    BY <1>1, KindsAssumption, MarkersAssumption DEF Reqs, HandleTool, HandleToolUnread, ReadyOwed
  <1>3. out[t] = <<>> /\ (t \in cancelled => t \in dropTool)
    BY <1>1, <1>2 DEF ToolAlone
  <1>4. /\ UNCHANGED <<sent, stdin, lines, buffered, inflight, dropReply, cancelled, pc>>
        /\ pending' = pending \ {t} /\ dropTool' = dropTool \ {t} /\ ready' = ready \ {t}
        /\ (t \notin dropTool /\ Write(t, t)) \/ out' = out
    BY DEF HandleTool, HandleToolUnread
  <1>5. OneOutcome' /\ \A q \in Reqs : q # t => out'[q] = out[q]
    <2>1. CASE out' = out
      BY <1>1, <1>4, <2>1 DEF OneOutcome
    <2>2. CASE t \notin dropTool /\ Write(t, t)
      BY <1>1, <1>2, <1>3, <1>4, <2>2, WriteOnce
    <2>3. QED
      BY <1>4, <2>1, <2>2
  <1>6. UnreadOnce'
    <2>1. \A q \in Reqs : Fresh(q) => Fresh(q)'
      BY <1>2, <1>4, <1>5 DEF Fresh
    <2>2. QED
      BY <1>1, <1>4, <2>1, UnreadSame
  <1>7. HeldAlone'
    BY <1>1, <1>2, <1>4, <1>5 DEF TypeOK, HeldAlone
  <1>8. SlotAlone'
    BY <1>1, <1>2, <1>4, <1>5 DEF TypeOK, SlotAlone, Busy
  <1>9. ToolAlone'
    BY <1>1, <1>2, <1>4, <1>5 DEF TypeOK, ToolAlone
  <1>10. ReadyOwed'
    BY <1>1, <1>4 DEF ReadyOwed, BusyWorkers, Busy
  <1>11. QED
    BY <1>5, <1>6, <1>7, <1>8, <1>9, <1>10 DEF OnePlace

\* poll() reports what is owed; the catch block forgets it.
LEMMA PollPlace == TypeOK /\ OnePlace /\ (PollReturns \/ DrainDone) => OnePlace'
  <1>1. SUFFICES ASSUME TypeOK, OnePlace, PollReturns \/ DrainDone PROVE OnePlace'
    OBVIOUS
  <1>2. UnreadOnce /\ HeldAlone /\ SlotAlone /\ ToolAlone /\ OneOutcome
    BY <1>1 DEF OnePlace
  <1>3. CASE PollReturns
    <2>1. /\ UNCHANGED <<sent, stdin, lines, buffered, pending, dropTool, inflight,
                         dropReply, out, cancelled>>
          /\ ready' = Ready
      BY <1>3 DEF PollReturns
    <2>2. UnreadOnce' /\ HeldAlone' /\ SlotAlone' /\ ToolAlone' /\ OneOutcome'
      <3>1. \A q \in Reqs : Fresh(q) => Fresh(q)'
        BY <2>1 DEF Fresh
      <3>2. UnreadOnce'
        BY <1>2, <2>1, <3>1, UnreadSame
      <3>3. QED
        BY <1>2, <2>1, <3>2 DEF HeldAlone, SlotAlone, Busy, ToolAlone, OneOutcome
    <2>3. ReadyOwed'
      <3>1. \A v \in Ready : (v \in Workers => Busy(v)) /\ (v \in Tools => v \in pending)
        <4>1. /\ None \notin Workers /\ None \notin Tools
              /\ \A v \in Workers : v \notin Tools
          BY MarkersAssumption DEF Reqs
        <4>2. \A v \in Ready : v \in BusyWorkers \/ v \in pending \/ v = None
          BY DEF Ready, BusyWorkers
        <4>3. pending \subseteq Tools
          BY <1>1 DEF TypeOK
        <4>4. QED
          BY <4>1, <4>2, <4>3 DEF BusyWorkers
      <3>2. QED
        BY <2>1, <3>1 DEF ReadyOwed, BusyWorkers, Busy
    <2>4. QED
      BY <2>2, <2>3 DEF OnePlace
  <1>4. CASE DrainDone
    <2>1. /\ UNCHANGED <<sent, stdin, lines, inflight, dropReply, out, cancelled>>
          /\ pending' = {} /\ buffered' = None /\ pc' = "top"
      BY <1>4 DEF DrainDone
    <2>2. \A q \in Reqs : Fresh(q) => Fresh(q)'
      <3>1. None \notin Reqs
        BY MarkersAssumption
      <3>2. QED
        BY <2>1, <3>1 DEF Fresh
    <2>3. UnreadOnce'
      BY <1>2, <2>1, <2>2, UnreadSame
    <2>4. HeldAlone' /\ SlotAlone' /\ ToolAlone' /\ OneOutcome' /\ ReadyOwed'
      BY <1>2, <2>1 DEF HeldAlone, SlotAlone, Busy, ToolAlone, OneOutcome, ReadyOwed
    <2>5. QED
      BY <2>3, <2>4 DEF OnePlace
  <1>5. QED
    BY <1>1, <1>3, <1>4

\* Every step keeps each id in one place.
LEMMA NextPlace == TypeOK /\ OnePlace /\ [Next]_vars => OnePlace'
  <1>1. SUFFICES ASSUME TypeOK, OnePlace, [Next]_vars PROVE OnePlace'
    OBVIOUS
  <1>2. CASE UNCHANGED vars
    BY <1>1, <1>2, QuietPlace DEF vars
  <1>3. CASE Client
    BY <1>1, <1>3, ClientPlace
  <1>4. CASE \/ TopStop \/ TopPass \/ LinesDone \/ PollNothing \/ PollInterrupted \/ PollFails
             \/ HandleDone
    <2>1. /\ UNCHANGED <<sent, stdin, lines, buffered, pending, dropTool, inflight,
                         dropReply, out, cancelled>>
          /\ pc' # "handle"
      BY <1>4 DEF TopStop, TopPass, LinesDone, PollNothing, PollInterrupted, PollFails, HandleDone
    <2>2. QED
      BY <1>1, <2>1, QuietPlace
  <1>5. CASE SigTerm
    <2>1. /\ UNCHANGED <<sent, stdin, lines, buffered, pending, dropTool, inflight,
                         dropReply, out, cancelled, ready>>
          /\ pc' = "handle" => pc = "handle"
      BY <1>5 DEF SigTerm
    <2>2. QED
      BY <1>1, <2>1, QuietPlace
  <1>6. CASE TopDispatchBuffered
    BY <1>1, <1>6, TopPlace
  <1>7. CASE LineCmdDispatch \/ LineCmdBuffer \/ LineTool
    BY <1>1, <1>7, StartPlace
  <1>8. CASE LineToolInline \/ LineToolThrow \/ LineSync
    BY <1>1, <1>8, SpotPlace
  <1>9. CASE LineCancel
    BY <1>1, <1>9, CancelPlace
  <1>10. CASE PollReturns \/ DrainDone
    BY <1>1, <1>10, PollPlace
  <1>11. CASE Fill \/ FillOverflow
    BY <1>1, <1>11, FillPlace
  <1>12. ASSUME NEW w \in Workers, HandleWorker(w) \/ DrainWorker(w) PROVE OnePlace'
    BY <1>1, <1>12, WorkerPlace
  <1>13. ASSUME NEW t \in Tools, HandleTool(t) \/ HandleToolUnread(t) PROVE OnePlace'
    BY <1>1, <1>13, ToolPlace
  <1>14. ASSUME NEW w \in Workers, WorkerStep(w) \/ CommandStep(w) \/ WorkerCrash(w)
         PROVE  OnePlace'
    <2>1. UNCHANGED <<sent, stdin, lines, buffered, pending, dropTool, inflight,
                      dropReply, out, cancelled, pc, ready>>
      BY <1>14 DEF WorkerStep, WorkerSkip, WorkerStart, WorkerCancelled, KillMisses,
         CommandStep, WorkerReaps, WorkerFinish, MissedEnds, WorkerCrash
    <2>2. QED
      BY <1>1, <2>1, QuietPlace
  <1>15. ASSUME NEW t \in Tools, ToolFinish(t) PROVE OnePlace'
    BY <1>1, <1>15, QuietPlace DEF ToolFinish
  <1>16. CASE \E r \in Cmds : Setpgid(r)
    BY <1>1, <1>16, QuietPlace DEF Setpgid
  <1>17. QED
    BY <1>1, <1>2, <1>3, <1>4, <1>5, <1>6, <1>7, <1>8, <1>9, <1>10, <1>11, <1>12,
       <1>13, <1>14, <1>15, <1>16 DEF Next, Loop, Exited

\* Each id is in one place at a time, whatever the loop, the workers, the
\* tool threads and the client do.
THEOREM LoopOnePlace == Spec => []OnePlace
  BY InitPlace, NextPlace, LoopTypes, PTL DEF Spec

\* A request has at most one reply, and none once it was cancelled.
THEOREM LoopOneOutcome == Spec => []OneOutcome
  <1>1. OnePlace => OneOutcome
    BY DEF OnePlace
  <1>2. QED
    BY <1>1, LoopOnePlace, PTL

-----------------------------------------------------------------------------
(* Refinement: the client's view takes a step of RpcService or none.       *)

\* A step after which r, and no other request, may have been answered or
\* cancelled; it is answered only if it had no reply.
Touches(r) ==
    /\ \A q \in Reqs : q # r => out'[q] = out[q] /\ (q \in cancelled' <=> q \in cancelled)
    /\ out'[r] = out[r] \/ (out[r] = <<>> /\ out'[r] # <<>>)
    /\ cancelled \subseteq cancelled'

\* A step that answers and cancels nothing.
Still == \A q \in Reqs : out'[q] = out[q] /\ (q \in cancelled' <=> q \in cancelled)

\* Writing a first reply touches the request it is for; one with the null id
\* touches none.
LEMMA WriteTouches ==
  ASSUME TypeOK, NEW r \in Reqs \cup {None}, NEW b, Write(r, b),
         r \in Reqs => out[r] = <<>>, cancelled' = cancelled
  PROVE  (r \in Reqs /\ Touches(r)) \/ Still
  <1>1. \A q \in Reqs : q # r => out'[q] = out[q]
    BY DEF TypeOK, Write
  <1>2. CASE r \notin Reqs
    BY <1>1, <1>2 DEF Still
  <1>3. CASE r \in Reqs
    <2>1. out'[r] = Append(<<>>, b)
      BY <1>3 DEF TypeOK, Write
    <2>2. Append(<<>>, b) # <<>>
      OBVIOUS
    <2>3. Touches(r)
      BY <1>1, <1>3, <2>1, <2>2 DEF Touches
    <2>4. QED
      BY <1>3, <2>3
  <1>4. QED
    BY <1>2, <1>3

\* No step answers or cancels more than one request.
LEMMA OneAtATime ==
  ASSUME TypeOK, OnePlace, [Next]_vars
  PROVE  Still \/ \E r \in Reqs : Touches(r)
  <1>1. ASSUME UNCHANGED <<out, cancelled>> PROVE Still
    BY <1>1 DEF Still
  <1>2. CASE LineToolInline \/ LineSync
    <2> DEFINE r == Head(lines).id
    <2>1. PICK ids : NextLine("call", ids)
      BY <1>2 DEF LineToolInline, LineSync
    <2>2. stdin' = stdin /\ cancelled' = cancelled /\ Write(r, r)
      BY <1>2 DEF LineToolInline, LineSync
    <2>3. r \in Reqs /\ Fresh(r)
      BY <2>1, <2>2, TakeLine, NextLineType DEF OnePlace
    <2>4. out[r] = <<>>
      BY <2>3 DEF Fresh
    <2> HIDE DEF r
    <2>5. QED
      BY <2>2, <2>3, <2>4, WriteTouches
  <1>3. CASE FillOverflow
    <2>1. None \notin Reqs
      BY MarkersAssumption
    <2>2. Write(None, None) /\ cancelled' = cancelled
      BY <1>3 DEF FillOverflow
    <2>3. QED
      BY <2>1, <2>2, WriteTouches
  <1>4. ASSUME NEW t \in Tools, HandleTool(t) PROVE Still \/ \E r \in Reqs : Touches(r)
    <2>1. t \in Reqs /\ t \in pending
      BY <1>4 DEF Reqs, HandleTool, OnePlace, ReadyOwed
    <2>2. out[t] = <<>>
      BY <2>1 DEF OnePlace, ToolAlone
    <2>3. CASE t \in dropTool
      BY <1>1, <1>4, <2>3 DEF HandleTool
    <2>4. CASE t \notin dropTool
      <3>1. Write(t, t) /\ cancelled' = cancelled
        BY <1>4, <2>4 DEF HandleTool
      <3>2. QED
        BY <2>1, <2>2, <3>1, WriteTouches
    <2>5. QED
      BY <2>3, <2>4
  <1>5. ASSUME NEW w \in Workers, HandleWorker(w) PROVE Still \/ \E r \in Reqs : Touches(r)
    <2>1. CASE dropReply[w]
      BY <1>1, <1>5, <2>1 DEF HandleWorker
    <2>2. CASE ~dropReply[w]
      <3> DEFINE b == IF up[w] # <<>> THEN Head(up[w]) ELSE Crash
      <3>1. Write(inflight[w], b) /\ cancelled' = cancelled
        BY <1>5, <2>2 DEF HandleWorker
      <3>2. Busy(w)
        BY <1>5 DEF HandleWorker, First, OnePlace, ReadyOwed, BusyWorkers
      <3>3. inflight[w] \in Reqs /\ out[inflight[w]] = <<>>
        BY <3>2 DEF TypeOK, Busy, Reqs, OnePlace, SlotAlone
      <3> HIDE DEF b
      <3>4. QED
        BY <3>1, <3>3, WriteTouches
    <2>3. QED
      BY <2>1, <2>2
  <1>6. CASE LineCancel
    <2> DEFINE r == Head(lines).id
    <2>1. r \in Reqs /\ out' = out
      BY <1>6 DEF LineCancel, NextLine
    <2>2. cancelled' = cancelled \cup {r} \/ cancelled' = cancelled \cup ({r} \cap pending)
      BY <1>6 DEF LineCancel
    <2> HIDE DEF r
    <2>3. Touches(r)
      BY <2>1, <2>2 DEF Touches
    <2>4. QED
      BY <2>1, <2>3
  <1>7. CASE UNCHANGED vars
    BY <1>1, <1>7 DEF vars
  <1>8. CASE Client
    BY <1>1, <1>8 DEF Client, ClientSend, ClientCancel, ClientClose
  <1>9. CASE \/ TopStop \/ TopPass \/ LinesDone \/ PollNothing \/ PollReturns
             \/ PollInterrupted \/ PollFails \/ HandleDone \/ DrainDone \/ SigTerm
             \/ TopDispatchBuffered \/ Fill
             \/ \E t \in Tools : HandleToolUnread(t) \/ ToolFinish(t)
    BY <1>1, <1>9 DEF TopStop, TopPass, LinesDone, PollNothing, PollReturns,
       PollInterrupted, PollFails, HandleDone, DrainDone, SigTerm, TopDispatchBuffered,
       Fill, HandleToolUnread, ToolFinish
  <1>10. CASE LineCmdDispatch \/ LineCmdBuffer \/ LineTool \/ LineToolThrow
    BY <1>1, <1>10 DEF LineCmdDispatch, LineCmdBuffer, LineTool, LineToolThrow
  <1>11. ASSUME NEW w \in Workers,
                DrainWorker(w) \/ WorkerStep(w) \/ CommandStep(w) \/ WorkerCrash(w)
         PROVE  Still
    BY <1>1, <1>11 DEF DrainWorker, WorkerStep, WorkerSkip, WorkerStart,
       WorkerCancelled, KillMisses,
       CommandStep, WorkerReaps, WorkerFinish, MissedEnds, WorkerCrash
  <1>12. CASE \E r \in Cmds : Setpgid(r)
    BY <1>1, <1>12 DEF Setpgid
  <1>13. QED
    BY <1>2, <1>3, <1>4, <1>5, <1>6, <1>7, <1>8, <1>9, <1>10, <1>11, <1>12
       DEF Next, Loop, Exited

\* A client sends a new id, or nothing is sent.
LEMMA SendOne ==
  ASSUME TypeOK, [Next]_vars
  PROVE  \/ Sent' = Sent
         \/ \E r \in Reqs : r \notin Sent /\ Sent' = Sent \cup {r} /\ Still
  <1>1. ASSUME sent' = sent PROVE Sent' = Sent
    BY <1>1 DEF Sent
  <1>2. ASSUME NEW r \in Reqs, ClientSend(r)
        PROVE  r \notin Sent /\ Sent' = Sent \cup {r} /\ Still
    <2>1. r \notin Sent /\ Still
      BY <1>2 DEF ClientSend, Still
    <2>2. Sent' = Sent \cup {r}
      BY <1>2, SendAdds
    <2>3. QED
      BY <2>1, <2>2
  <1>3. CASE UNCHANGED vars
    BY <1>1, <1>3 DEF vars
  <1>4. CASE Loop
    BY <1>1, <1>4 DEF Loop, TopStop, TopDispatchBuffered, TopPass, LineCmdDispatch,
       LineCmdBuffer, LineTool, LineToolInline, LineToolThrow, LineSync, LineCancel,
       LinesDone, PollNothing, PollReturns, PollInterrupted, PollFails, Fill, FillOverflow,
       HandleDone, DrainDone, HandleWorker, DrainWorker, HandleTool, HandleToolUnread
  <1>5. CASE Client
    BY <1>1, <1>2, <1>5 DEF Client, ClientCancel, ClientClose
  <1>6. CASE SigTerm \/ Exited
    BY <1>1, <1>6 DEF SigTerm, Exited, vars
  <1>7. ASSUME NEW w \in Workers, WorkerStep(w) \/ CommandStep(w) \/ WorkerCrash(w)
        PROVE  Sent' = Sent
    BY <1>1, <1>7 DEF WorkerStep, WorkerSkip, WorkerStart, WorkerCancelled, KillMisses,
       CommandStep, WorkerReaps, WorkerFinish, MissedEnds, WorkerCrash
  <1>8. ASSUME NEW t \in Tools, ToolFinish(t) PROVE Sent' = Sent
    BY <1>1, <1>8 DEF ToolFinish
  <1>9. CASE \E r \in Cmds : Setpgid(r)
    BY <1>1, <1>9 DEF Setpgid
  <1>10. QED
    BY <1>2, <1>3, <1>4, <1>5, <1>6, <1>7, <1>8, <1>9 DEF Next

\* The view of one request depends on that request only.
LEMMA ViewSame ==
  ASSUME NEW q \in Reqs, q \in Sent' <=> q \in Sent, out'[q] = out[q],
         q \in cancelled' <=> q \in cancelled
  PROVE  ClientView'[q] = ClientView[q]
  BY DEF ClientView

\* A change of one request's view.
LEMMA ViewSettles ==
  ASSUME NEW r \in Reqs, NEW s, ClientView'[r] = s,
         \A q \in Reqs : q # r => ClientView'[q] = ClientView[q]
  PROVE  ClientView' = [ClientView EXCEPT ![r] = s]
  <1>1. ClientView = [q \in Reqs |-> ClientView[q]] /\ ClientView' = [q \in Reqs |-> ClientView'[q]]
    BY DEF ClientView
  <1>2. QED
    BY <1>1

\* A view that does not change anywhere.
LEMMA ViewStill ==
  ASSUME \A q \in Reqs : ClientView'[q] = ClientView[q]
  PROVE  ClientView' = ClientView
  <1>1. ClientView = [q \in Reqs |-> ClientView[q]] /\ ClientView' = [q \in Reqs |-> ClientView'[q]]
    BY DEF ClientView
  <1>2. QED
    BY <1>1

\* A sequence of at most one element that is not empty.
LEMMA Singleton ==
  ASSUME NEW S, NEW s \in Seq(S), s # <<>>, Len(s) <= 1
  PROVE  1 \in DOMAIN s /\ s = <<s[1]>>
  <1>1. Len(s) \in Nat \ {0} /\ DOMAIN s = 1..Len(s)
    OBVIOUS
  <1>2. Len(s) = 1
    BY <1>1
  <1>3. QED
    BY <1>1, <1>2

\* A first reply is the request's result or the crash notice, and nothing else.
LEMMA FirstReply ==
  ASSUME TypeOK', OneOutcome', ReplyIsOwn', NEW r \in Reqs, out'[r] # <<>>
  PROVE  out'[r] = <<r>> \/ out'[r] = <<Crash>>
  <1>1. out'[r] \in Seq(Reqs \cup {None, Crash}) /\ Len(out'[r]) <= 1
    BY DEF TypeOK, OneOutcome
  <1>2. 1 \in DOMAIN out'[r] /\ out'[r] = <<out'[r][1]>>
    BY <1>1, Singleton
  <1>3. out'[r][1] \in {r, Crash}
    BY <1>2 DEF ReplyIsOwn
  <1>4. QED
    BY <1>2, <1>3

\* A step of the server is a step of RpcService, or the client sees none.
LEMMA NextService ==
  ASSUME TypeOK, TypeOK', OnePlace, OnePlace', ReplyIsOwn', [Next]_vars
  PROVE  [Service!Next]_ClientView
  <1>1. OneOutcome /\ OneOutcome' /\ UnreadOnce
    BY DEF OnePlace
  <1>2. ASSUME Sent' = Sent, Still PROVE ClientView' = ClientView
    <2>1. \A q \in Reqs : ClientView'[q] = ClientView[q]
      BY <1>2, ViewSame DEF Still
    <2>2. QED
      BY <2>1, ViewStill
  <1>3. ASSUME NEW r \in Reqs, r \notin Sent, Sent' = Sent \cup {r}, Still
        PROVE  Service!Next
    <2>1. out[r] = <<>> /\ r \notin cancelled
      BY <1>1, <1>3 DEF UnreadOnce, Fresh
    <2>2. ClientView[r] = "new" /\ ClientView'[r] = "asked"
      BY <1>3, <2>1 DEF ClientView, Still
    <2>3. \A q \in Reqs : q # r => ClientView'[q] = ClientView[q]
      BY <1>3, ViewSame DEF Still
    <2>4. ClientView' = [ClientView EXCEPT ![r] = "asked"]
      BY <2>2, <2>3, ViewSettles
    <2>5. Service!Ask(r)
      BY <2>2, <2>4 DEF Service!Ask
    <2>6. QED
      BY <2>5 DEF Service!Next
  <1>4. ASSUME NEW r \in Reqs, Sent' = Sent, Touches(r)
        PROVE  Service!Next \/ ClientView' = ClientView
    <2>1. \A q \in Reqs : q # r => ClientView'[q] = ClientView[q]
      BY <1>4, ViewSame DEF Touches
    <2>2. ASSUME ClientView'[r] = ClientView[r] PROVE ClientView' = ClientView
      <3>1. \A q \in Reqs : ClientView'[q] = ClientView[q]
        BY <2>1, <2>2
      <3>2. QED
        BY <3>1, ViewStill
    <2>3. ASSUME NEW s \in {"answered", "failed", "cancelled"},
                 ClientView[r] = "asked", ClientView'[r] = s
          PROVE  Service!Next
      <3>1. ClientView' = [ClientView EXCEPT ![r] = s]
        BY <2>1, <2>3, ViewSettles
      <3>2. Service!Settle(r, s)
        BY <2>3, <3>1 DEF Service!Settle
      <3>3. Service!Answer(r) \/ Service!Fail(r) \/ Service!GiveUp(r)
        BY <2>3, <3>2 DEF Service!Answer, Service!Fail, Service!GiveUp
      <3>4. QED
        BY <3>3 DEF Service!Next
    <2>4. CASE r \notin Sent
      <3>1. ClientView'[r] = ClientView[r]
        BY <1>4, <2>4 DEF ClientView
      <3>2. QED
        BY <2>2, <3>1
    <2>5. CASE r \in cancelled
      <3>1. r \in cancelled' /\ out[r] = <<>> /\ out'[r] = <<>>
        BY <1>1, <1>4, <2>5 DEF Touches, OneOutcome
      <3>2. ClientView'[r] = ClientView[r]
        BY <1>4, <2>5, <3>1, ViewSame
      <3>3. QED
        BY <2>2, <3>2
    <2>6. CASE r \in Sent /\ r \notin cancelled /\ r \in cancelled'
      <3>1. out'[r] = <<>> /\ out[r] = <<>>
        BY <1>1, <1>4, <2>6 DEF Touches, OneOutcome
      <3>2. ClientView[r] = "asked" /\ ClientView'[r] = "cancelled"
        BY <1>4, <2>6, <3>1 DEF ClientView
      <3>3. QED
        BY <2>3, <3>2
    <2>7. CASE r \in Sent /\ r \notin cancelled /\ r \notin cancelled'
      <3>1. CASE out'[r] = out[r]
        <4>1. ClientView'[r] = ClientView[r]
          BY <1>4, <2>7, <3>1, ViewSame
        <4>2. QED
          BY <2>2, <4>1
      <3>2. CASE out[r] = <<>> /\ out'[r] # <<>>
        <4>1. out'[r] = <<r>> \/ out'[r] = <<Crash>>
          BY <1>1, <3>2, FirstReply
        <4>2. r # Crash /\ <<r>> # <<Crash>>
          BY MarkersAssumption
        <4>3. ClientView[r] = "asked"
          BY <2>7, <3>2 DEF ClientView
        <4>4. ClientView'[r] \in {"answered", "failed"}
          BY <1>4, <2>7, <3>2, <4>1, <4>2 DEF ClientView
        <4>5. QED
          BY <2>3, <4>3, <4>4
      <3>3. QED
        BY <1>4, <3>1, <3>2 DEF Touches
    <2>8. QED
      BY <2>4, <2>5, <2>6, <2>7
  <1>5. QED
    BY <1>2, <1>3, <1>4, OneAtATime, SendOne

\* The event loop with its pool, workers and tool threads implements the
\* service a client is promised: each request is settled once, by its own
\* result, the crash notice or a cancellation.
THEOREM LoopImplementsService == Spec => ImplementsService
  <1>1. Init => Service!Init
    <2>1. SUFFICES ASSUME Init PROVE ClientView = [r \in Reqs |-> "new"]
      BY DEF Service!Init
    <2>2. Sent = {}
      BY <2>1 DEF Init, Sent
    <2>3. QED
      BY <2>2 DEF ClientView
  <1>2. QED
    BY <1>1, NextService, LoopTypes, LoopOnePlace, LoopReplyIsOwn, PTL
       DEF Spec, ImplementsService, Service!Spec

-----------------------------------------------------------------------------
(***************************************************************************)
(* The loop's books: what in_flight counts, what the loop sleeps with and  *)
(* what it leaves with.                                                    *)
(***************************************************************************)

\* A command is held only while no worker is idle, except between collect()
\* and the dispatch at the top; and the loop sleeps with lines unread only
\* while it holds one.
HeldWaits ==
    /\ pc \in {"lines", "poll"} /\ buffered # None => Idle = {}
    /\ pc = "poll" /\ buffered = None => lines = <<>>

\* in_flight covers what is owed, which is finite.
Counted == InFlightCovers /\ IsFiniteSet(pending)

\* The inductive form of Accounting.
Books == Counted /\ HeldWaits /\ ExitOwesNothing /\ BusyIsOwed

-----------------------------------------------------------------------------
(* Counting busy slots.                                                    *)

\* The slots are finitely many.
LEMMA BusyFinite == IsFiniteSet(BusyWorkers) /\ Cardinality(BusyWorkers) \in Nat
  <1>1. IsFiniteSet(Workers)
    BY FS_Interval, WorkersAssumption DEF Workers
  <1>2. BusyWorkers \subseteq Workers
    BY DEF BusyWorkers
  <1>3. QED
    BY <1>1, <1>2, FS_Subset, FS_CardinalityType

\* try_dispatch makes one more slot busy, or none.
LEMMA DispatchCount ==
  ASSUME TypeOK, NEW r \in Cmds, TryDispatch(r)
  PROVE  /\ IsFiniteSet(BusyWorkers') /\ Cardinality(BusyWorkers') \in Nat
         /\ Cardinality(BusyWorkers') <= Cardinality(BusyWorkers) + 1
  <1>1. PICK w \in Workers : inflight' = inflight \/ inflight' = [inflight EXCEPT ![w] = r]
    BY DEF TryDispatch
  <1>2. BusyWorkers' = BusyWorkers \/ BusyWorkers' = BusyWorkers \cup {w}
    <2>1. CASE inflight' = inflight
      BY <2>1 DEF BusyWorkers, Busy
    <2>2. CASE inflight' = [inflight EXCEPT ![w] = r]
      <3>1. r # None
        BY MarkersAssumption DEF Reqs
      <3>2. \A v \in Workers : inflight'[v] = IF v = w THEN r ELSE inflight[v]
        BY <2>2 DEF TypeOK
      <3>3. QED
        BY <3>1, <3>2 DEF BusyWorkers, Busy
    <2>3. QED
      BY <1>1, <2>1, <2>2
  <1>3. CASE BusyWorkers' = BusyWorkers
    BY <1>3, BusyFinite
  <1>4. CASE BusyWorkers' = BusyWorkers \cup {w}
    <2>1. /\ IsFiniteSet(BusyWorkers \cup {w})
          /\ \/ Cardinality(BusyWorkers \cup {w}) = Cardinality(BusyWorkers)
             \/ Cardinality(BusyWorkers \cup {w}) = Cardinality(BusyWorkers) + 1
      BY BusyFinite, FS_AddElement
    <2>2. QED
      BY <1>4, <2>1, BusyFinite
  <1>5. QED
    BY <1>2, <1>3, <1>4

\* collect() makes one slot idle.
LEMMA CollectCount ==
  ASSUME TypeOK, NEW w \in BusyWorkers, CollectReply(w) \/ CollectCrash(w)
  PROVE  /\ BusyWorkers' = BusyWorkers \ {w}
         /\ IsFiniteSet(BusyWorkers') /\ Cardinality(BusyWorkers') \in Nat
         /\ Cardinality(BusyWorkers') = Cardinality(BusyWorkers) - 1
  <1>1. w \in Workers /\ inflight' = [inflight EXCEPT ![w] = None]
    BY DEF BusyWorkers, CollectReply, CollectCrash
  <1>2. \A v \in Workers : inflight'[v] = IF v = w THEN None ELSE inflight[v]
    BY <1>1 DEF TypeOK
  <1>3. BusyWorkers' = BusyWorkers \ {w}
    BY <1>1, <1>2 DEF BusyWorkers, Busy
  <1>4. QED
    BY <1>3, BusyFinite, FS_RemoveElement, FS_CardinalityType

-----------------------------------------------------------------------------
(* A busy worker holds its request: preserved by every step.               *)

\* What BusyIsOwed says of one worker.
Owed(w) ==
    Busy(w) /\ Alive(w) =>
        \/ \E i \in DOMAIN down[w] : down[w][i] = inflight[w]
        \/ cur[w] = inflight[w]
        \/ up[w] = <<inflight[w]>>

\* A worker whose slot, process and socket do not change keeps its request.
LEMMA OwedSame ==
  ASSUME NEW w \in Workers, Owed(w), inflight'[w] = inflight[w], proc'[w] = proc[w],
         cur'[w] = cur[w], down'[w] = down[w], up'[w] = up[w]
  PROVE  Owed(w)'
  BY DEF Owed, Busy, Alive, Runs

\* A request or a marker behind what is in the socket changes nothing for
\* what is in front.
LEMMA OwedAppend ==
  ASSUME TypeOK, NEW w \in Workers, Owed(w), NEW m \in Cmds \cup {Cancel},
         down'[w] = Append(down[w], m), proc'[w] = proc[w], cur'[w] = cur[w],
         up'[w] = up[w], inflight'[w] \in {inflight[w], m}
  PROVE  Owed(w)'
  <1>1. down[w] \in Seq(Cmds \cup {Cancel})
    BY DEF TypeOK
  <1>2. /\ Len(down[w]) + 1 \in DOMAIN down'[w]
        /\ down'[w][Len(down[w]) + 1] = m
        /\ \A i \in DOMAIN down[w] : i \in DOMAIN down'[w] /\ down'[w][i] = down[w][i]
    BY <1>1
  <1>3. CASE inflight'[w] = m
    BY <1>2, <1>3 DEF Owed
  <1>4. CASE inflight'[w] = inflight[w]
    BY <1>2, <1>4 DEF Owed, Busy, Alive, Runs
  <1>5. QED
    BY <1>3, <1>4

\* The steps of a worker that keep it alive.
LEMMA OwedWorker ==
  ASSUME TypeOK, SocketDiscipline, NEW w \in Workers, Owed(w),
         \/ WorkerSkip(w) \/ WorkerStart(w) \/ WorkerFinish(w)
         \/ KillMisses(w) \/ WorkerReaps(w)
  PROVE  Owed(w)'
  <1>1. /\ down[w] \in Seq(Cmds \cup {Cancel}) /\ up[w] \in Seq(Cmds)
        /\ inflight[w] \in Cmds \cup {None} /\ Disciplined(w) /\ Cancel \notin Cmds
    BY MarkersAssumption DEF TypeOK, SocketDiscipline, Reqs
  <1>2. CASE WorkerSkip(w)
    <2>1. /\ down'[w] = Tail(down[w]) /\ down[w] # <<>> /\ Head(down[w]) = Cancel
          /\ proc' = proc /\ cur' = cur /\ up' = up /\ inflight' = inflight
      BY <1>2 DEF WorkerSkip, TypeOK
    <2>2. ASSUME NEW i \in DOMAIN down[w], down[w][i] = inflight[w], Busy(w)
          PROVE  i - 1 \in DOMAIN down'[w] /\ down'[w][i - 1] = inflight[w]
      <3>1. down[w][1] # inflight[w]
        BY <1>1, <2>1, <2>2, MarkersAssumption DEF Busy
      <3>2. QED
        BY <1>1, <2>1, <2>2, <3>1
    <2>3. QED
      BY <2>1, <2>2 DEF Owed, Busy, Alive, Runs
  <1>3. CASE WorkerStart(w)
    <2>1. /\ cur'[w] = Head(down[w]) /\ inflight' = inflight
          /\ down[w] # <<>> /\ Head(down[w]) # Cancel
      BY <1>3 DEF WorkerStart, TypeOK
    <2>2. Head(down[w]) = inflight[w]
      BY <1>1, <2>1 DEF Disciplined
    <2>3. QED
      BY <2>1, <2>2 DEF Owed
  <1>4. CASE WorkerFinish(w)
    <2>1. up'[w] = Append(up[w], cur[w]) /\ inflight' = inflight /\ Runs(w)
      BY <1>4 DEF WorkerFinish, TypeOK, Runs
    <2>2. up[w] = <<>> /\ cur[w] = inflight[w]
      BY <1>1, <2>1 DEF Disciplined
    <2>3. QED
      BY <2>1, <2>2 DEF Owed
  <1>5. CASE KillMisses(w) \/ WorkerReaps(w)
    <2>1. Runs(w) /\ cur' = cur /\ inflight' = inflight
      BY <1>5 DEF KillMisses, WorkerReaps, Runs
    <2>2. cur[w] = inflight[w]
      BY <1>1, <2>1 DEF Disciplined
    <2>3. QED
      BY <2>1, <2>2 DEF Owed
  <1>6. QED
    BY <1>2, <1>3, <1>4, <1>5

\* Every step keeps a busy worker and its request together.
LEMMA NextOwed ==
  TypeOK /\ SocketDiscipline /\ BusyIsOwed /\ [Next]_vars => BusyIsOwed'
  <1>1. SUFFICES ASSUME TypeOK, SocketDiscipline, [Next]_vars,
                        NEW w \in Workers, Owed(w)
                 PROVE  Owed(w)'
    BY DEF BusyIsOwed, Owed
  <1>2. ASSUME UNCHANGED <<inflight, proc, cur, down, up>> PROVE Owed(w)'
    BY <1>1, <1>2, OwedSame
  <1>3. CASE UNCHANGED vars
    BY <1>2, <1>3 DEF vars
  <1>4. CASE Client
    BY <1>2, <1>4 DEF Client, ClientSend, ClientCancel, ClientClose
  <1>5. CASE \/ TopStop \/ TopPass \/ LinesDone \/ PollNothing \/ PollInterrupted \/ PollFails
             \/ HandleDone \/ SigTerm \/ PollReturns \/ DrainDone \/ Fill \/ FillOverflow
             \/ LineCmdBuffer \/ LineTool \/ LineToolInline \/ LineToolThrow \/ LineSync
    BY <1>2, <1>5 DEF TopStop, TopPass, LinesDone, PollNothing, PollInterrupted, PollFails, HandleDone,
       SigTerm, PollReturns, DrainDone, Fill, FillOverflow, LineCmdBuffer, LineTool,
       LineToolInline, LineToolThrow, LineSync
  <1>6. CASE TopDispatchBuffered \/ LineCmdDispatch
    <2>1. PICK r \in Cmds : TryDispatch(r)
      <3>1. CASE TopDispatchBuffered
        BY <1>1, <3>1 DEF TopDispatchBuffered, TypeOK
      <3>2. CASE LineCmdDispatch
        BY <1>1, <3>2 DEF LineCmdDispatch, NextLine
      <3>3. QED
        BY <1>6, <3>1, <3>2
    <2>2. UNCHANGED <<proc, cur, up>>
      BY <1>6 DEF TopDispatchBuffered, LineCmdDispatch
    <2>3. PICK v \in Workers :
             \/ UNCHANGED <<down, inflight>>
             \/ /\ down' = [down EXCEPT ![v] = Append(@, r)]
                /\ inflight' = [inflight EXCEPT ![v] = r]
      BY <2>1 DEF TryDispatch
    <2>4. CASE UNCHANGED <<down, inflight>>
      BY <1>2, <2>2, <2>4
    <2>5. CASE /\ down' = [down EXCEPT ![v] = Append(@, r)]
               /\ inflight' = [inflight EXCEPT ![v] = r]
      <3>1. CASE v = w
        <4>1. down'[w] = Append(down[w], r) /\ inflight'[w] = r
          BY <1>1, <2>5, <3>1 DEF TypeOK
        <4>2. QED
          BY <1>1, <2>1, <2>2, <4>1, OwedAppend
      <3>2. CASE v # w
        BY <1>1, <2>2, <2>5, <3>2, OwedSame
      <3>3. QED
        BY <3>1, <3>2
    <2>6. QED
      BY <2>3, <2>4, <2>5
  <1>7. CASE LineCancel
    <2>1. UNCHANGED <<inflight, proc, cur, up>>
      BY <1>7 DEF LineCancel
    <2>2. down'[w] = down[w] \/ down'[w] = Append(down[w], Cancel)
      <3>1. CASE down' = down
        BY <3>1
      <3>2. CASE PoolCancel(Head(lines).id)
        <4>1. PICK v \in Workers :
                 down' = [down EXCEPT ![v] = IF Alive(v) THEN Append(@, Cancel) ELSE @]
          BY <3>2 DEF PoolCancel
        <4>2. QED
          BY <1>1, <4>1 DEF TypeOK
      <3>3. QED
        BY <1>7, <3>1, <3>2 DEF LineCancel
    <2>3. CASE down'[w] = down[w]
      BY <1>1, <2>1, <2>3, OwedSame
    <2>4. CASE down'[w] = Append(down[w], Cancel)
      BY <1>1, <2>1, <2>4, OwedAppend
    <2>5. QED
      BY <2>2, <2>3, <2>4
  <1>8. ASSUME NEW v \in Workers, HandleWorker(v) \/ DrainWorker(v) PROVE Owed(w)'
    <2>1. CollectReply(v) \/ CollectCrash(v)
      BY <1>8 DEF HandleWorker, DrainWorker
    <2>2. CASE v = w
      <3>1. inflight'[w] = None
        BY <1>1, <2>1, <2>2 DEF CollectReply, CollectCrash, TypeOK
      <3>2. QED
        BY <3>1 DEF Owed, Busy
    <2>3. CASE v # w
      <3>1. /\ inflight'[w] = inflight[w] /\ proc'[w] = proc[w] /\ cur'[w] = cur[w]
            /\ down'[w] = down[w] /\ up'[w] = up[w]
        BY <1>1, <2>1, <2>3 DEF CollectReply, CollectCrash, TypeOK
      <3>2. QED
        BY <1>1, <3>1, OwedSame
    <2>4. QED
      BY <2>2, <2>3
  <1>9. ASSUME NEW t \in Tools, HandleTool(t) \/ HandleToolUnread(t) \/ ToolFinish(t) PROVE Owed(w)'
    BY <1>2, <1>9 DEF HandleTool, HandleToolUnread, ToolFinish
  <1>10. ASSUME NEW v \in Workers, WorkerStep(v) \/ CommandStep(v) \/ WorkerCrash(v)
         PROVE  Owed(w)'
    <2>1. CASE v # w
      <3>1. /\ inflight'[w] = inflight[w] /\ proc'[w] = proc[w] /\ cur'[w] = cur[w]
            /\ down'[w] = down[w] /\ up'[w] = up[w]
        BY <1>1, <1>10, <2>1 DEF WorkerStep, WorkerSkip, WorkerStart, WorkerCancelled, KillMisses,
           CommandStep, WorkerReaps, WorkerFinish, MissedEnds, WorkerCrash, TypeOK
      <3>2. QED
        BY <1>1, <3>1, OwedSame
    <2>2. CASE v = w /\ (WorkerCancelled(v) \/ MissedEnds(v) \/ WorkerCrash(v))
      <3>1. proc'[w] = "dead"
        BY <1>1, <2>2 DEF WorkerCancelled, MissedEnds, WorkerCrash, TypeOK
      <3>2. QED
        BY <3>1 DEF Owed, Alive, Runs
    <2>3. CASE v = w /\ (\/ WorkerSkip(v) \/ WorkerStart(v) \/ WorkerFinish(v)
                         \/ KillMisses(v) \/ WorkerReaps(v))
      BY <1>1, <2>3, OwedWorker
    <2>4. QED
      BY <1>10, <2>1, <2>2, <2>3 DEF WorkerStep, CommandStep
  <1>11. CASE \E r \in Cmds : Setpgid(r)
    BY <1>2, <1>11 DEF Setpgid
  <1>12. QED
    BY <1>1, <1>3, <1>4, <1>5, <1>6, <1>7, <1>8, <1>9, <1>10, <1>11 DEF Next, Loop, Exited

-----------------------------------------------------------------------------
(* in_flight covers what is owed.                                          *)

\* Every step keeps the counter at or above the number of replies owed.
LEMMA NextCounted == TypeOK /\ OnePlace /\ Counted /\ [Next]_vars => Counted'
  <1>1. SUFFICES ASSUME TypeOK, OnePlace, Counted, [Next]_vars PROVE Counted'
    OBVIOUS
  <1>2. /\ IsFiniteSet(pending) /\ Cardinality(pending) \in Nat /\ inFlight \in Int
        /\ inFlight >= Cardinality(BusyWorkers) + Cardinality(pending)
        /\ IsFiniteSet(BusyWorkers) /\ Cardinality(BusyWorkers) \in Nat
    BY <1>1, BusyFinite, FS_CardinalityType DEF Counted, InFlightCovers, TypeOK
  <1>3. ASSUME UNCHANGED <<inflight, pending, inFlight>> PROVE Counted'
    BY <1>2, <1>3 DEF Counted, InFlightCovers, BusyWorkers, Busy
  <1>4. CASE UNCHANGED vars
    BY <1>3, <1>4 DEF vars
  <1>5. CASE Client
    BY <1>3, <1>5 DEF Client, ClientSend, ClientCancel, ClientClose
  <1>6. CASE \/ TopStop \/ TopPass \/ LinesDone \/ PollNothing \/ PollInterrupted \/ PollFails
             \/ HandleDone \/ SigTerm \/ PollReturns \/ Fill \/ FillOverflow \/ LineCancel
             \/ LineCmdBuffer \/ LineToolInline \/ LineToolThrow \/ LineSync
    BY <1>3, <1>6 DEF TopStop, TopPass, LinesDone, PollNothing, PollInterrupted, PollFails, HandleDone,
       SigTerm, PollReturns, Fill, FillOverflow, LineCancel, LineCmdBuffer,
       LineToolInline, LineToolThrow, LineSync
  <1>7. CASE TopDispatchBuffered \/ LineCmdDispatch
    <2>1. PICK r \in Cmds : TryDispatch(r)
      <3>1. CASE TopDispatchBuffered
        BY <1>1, <3>1 DEF TopDispatchBuffered, TypeOK
      <3>2. CASE LineCmdDispatch
        BY <1>1, <3>2 DEF LineCmdDispatch, NextLine
      <3>3. QED
        BY <1>7, <3>1, <3>2
    <2>2. inFlight' = inFlight + 1 /\ pending' = pending
      BY <1>7 DEF TopDispatchBuffered, LineCmdDispatch
    <2>3. /\ Cardinality(BusyWorkers') \in Nat
          /\ Cardinality(BusyWorkers') <= Cardinality(BusyWorkers) + 1
      BY <1>1, <2>1, DispatchCount
    <2>4. QED
      BY <1>2, <2>2, <2>3 DEF Counted, InFlightCovers
  <1>8. CASE LineTool
    <2>1. inFlight' = inFlight + 1 /\ pending' = pending \cup {Head(lines).id}
          /\ inflight' = inflight
      BY <1>8 DEF LineTool
    <2>2. /\ IsFiniteSet(pending') /\ Cardinality(pending') \in Nat
          /\ Cardinality(pending') <= Cardinality(pending) + 1
      BY <1>2, <2>1, FS_AddElement, FS_CardinalityType
    <2>3. QED
      BY <1>2, <2>1, <2>2 DEF Counted, InFlightCovers, BusyWorkers, Busy
  <1>9. CASE DrainDone
    <2>1. pending' = {} /\ inFlight' = 0 /\ inflight' = inflight /\ Idle = Workers
      BY <1>9 DEF DrainDone
    <2>2. BusyWorkers' = {}
      BY <2>1 DEF BusyWorkers, Busy, Idle
    <2>3. Cardinality({}) = 0 /\ IsFiniteSet({})
      BY FS_EmptySet
    <2>4. QED
      BY <2>1, <2>2, <2>3 DEF Counted, InFlightCovers
  <1>10. ASSUME NEW w \in Workers, HandleWorker(w) \/ DrainWorker(w) PROVE Counted'
    <2>1. w \in BusyWorkers
      <3>1. CASE HandleWorker(w)
        BY <1>1, <3>1 DEF HandleWorker, First, OnePlace, ReadyOwed
      <3>2. CASE DrainWorker(w)
        BY <3>2 DEF DrainWorker, First
      <3>3. QED
        BY <1>10, <3>1, <3>2
    <2>2. /\ CollectReply(w) \/ CollectCrash(w)
          /\ inFlight' = inFlight - 1 /\ pending' = pending
      BY <1>10 DEF HandleWorker, DrainWorker
    <2>3. Cardinality(BusyWorkers') = Cardinality(BusyWorkers) - 1
      BY <1>1, <2>1, <2>2, CollectCount
    <2>4. QED
      BY <1>2, <2>2, <2>3 DEF Counted, InFlightCovers
  <1>11. ASSUME NEW t \in Tools, HandleTool(t) \/ HandleToolUnread(t) PROVE Counted'
    <2>1. /\ t \in pending /\ pending' = pending \ {t} /\ inFlight' = inFlight - 1
          /\ inflight' = inflight
      BY <1>1, <1>11 DEF HandleTool, HandleToolUnread, OnePlace, ReadyOwed
    <2>2. /\ IsFiniteSet(pending \ {t})
          /\ Cardinality(pending \ {t}) = Cardinality(pending) - 1
      BY <1>2, <2>1, FS_RemoveElement
    <2>3. BusyWorkers' = BusyWorkers
      BY <2>1 DEF BusyWorkers, Busy
    <2>4. QED
      BY <1>2, <2>1, <2>2, <2>3 DEF Counted, InFlightCovers
  <1>12. ASSUME NEW w \in Workers, WorkerStep(w) \/ CommandStep(w) \/ WorkerCrash(w)
         PROVE  Counted'
    BY <1>3, <1>12 DEF WorkerStep, WorkerSkip, WorkerStart, WorkerCancelled, KillMisses,
       CommandStep, WorkerReaps, WorkerFinish, MissedEnds, WorkerCrash
  <1>13. ASSUME NEW t \in Tools, ToolFinish(t) PROVE Counted'
    BY <1>3, <1>13 DEF ToolFinish
  <1>14. CASE \E r \in Cmds : Setpgid(r)
    BY <1>3, <1>14 DEF Setpgid
  <1>15. QED
    BY <1>1, <1>4, <1>5, <1>6, <1>7, <1>8, <1>9, <1>10, <1>11, <1>12, <1>13, <1>14
       DEF Next, Loop, Exited

-----------------------------------------------------------------------------
(* The loop sleeps and leaves only when it may.                            *)

\* A step that leaves the line buffer, the held command and the slots alone,
\* and the loop where it is or on its way to the top.
LEMMA HeldSame ==
  ASSUME HeldWaits, ExitOwesNothing, UNCHANGED <<lines, buffered, inflight, pending, stop>>,
         pc' = pc \/ pc' \notin {"lines", "poll", "exited"}
  PROVE  HeldWaits' /\ ExitOwesNothing'
  BY DEF HeldWaits, ExitOwesNothing, Idle, BusyWorkers, Busy

\* A step inside the line loop after which no more workers are idle.
LEMMA HeldInLines ==
  ASSUME HeldWaits, pc = "lines", pc' = pc, Idle' \subseteq Idle, buffered' \in {buffered, None}
  PROVE  HeldWaits' /\ ExitOwesNothing'
  BY DEF HeldWaits, ExitOwesNothing

\* try_dispatch makes no worker idle.
LEMMA DispatchIdle ==
  ASSUME TypeOK, NEW r \in Cmds, TryDispatch(r)
  PROVE  Idle' \subseteq Idle
  <1>1. r # None
    BY MarkersAssumption DEF Reqs
  <1>2. PICK w \in Workers : inflight' = inflight \/ inflight' = [inflight EXCEPT ![w] = r]
    BY DEF TryDispatch
  <1>3. \A v \in Workers : inflight'[v] = None => inflight[v] = None
    BY <1>1, <1>2 DEF TypeOK
  <1>4. QED
    BY <1>3 DEF Idle, Busy

\* Every step keeps a held command from waiting beside an idle worker, and the
\* loop from leaving while something is owed.
LEMMA NextHeld ==
  TypeOK /\ Counted /\ HeldWaits /\ ExitOwesNothing /\ [Next]_vars
     => HeldWaits' /\ ExitOwesNothing'
  <1>1. SUFFICES ASSUME TypeOK, Counted, HeldWaits, ExitOwesNothing, [Next]_vars
                 PROVE  HeldWaits' /\ ExitOwesNothing'
    OBVIOUS
  <1>2. CASE UNCHANGED vars
    BY <1>1, <1>2, HeldSame DEF vars
  <1>3. CASE Client
    BY <1>1, <1>3, HeldSame DEF Client, ClientSend, ClientCancel, ClientClose
  <1>4. CASE HandleDone \/ PollReturns \/ PollInterrupted \/ PollFails
    BY <1>1, <1>4, HeldSame DEF HandleDone, PollReturns, PollInterrupted, PollFails
  <1>5. CASE TopStop \/ SigTerm
    BY <1>1, <1>5 DEF TopStop, SigTerm, HeldWaits, ExitOwesNothing, Idle, Busy
  <1>6. CASE TopPass
    BY <1>6 DEF TopPass, HeldWaits, ExitOwesNothing, Idle, Busy
  <1>7. CASE TopDispatchBuffered
    BY <1>7 DEF TopDispatchBuffered, HeldWaits, ExitOwesNothing
  <1>8. CASE LineCmdDispatch
    <2>1. Head(lines).id \in Cmds /\ TryDispatch(Head(lines).id) /\ pc = "lines" /\ pc' = pc
          /\ buffered' = buffered
      BY <1>8 DEF LineCmdDispatch, NextLine
    <2>2. QED
      BY <1>1, <2>1, DispatchIdle, HeldInLines
  <1>9. CASE LineTool \/ LineToolInline \/ LineSync \/ LineCancel
    <2>1. pc = "lines" /\ pc' = pc /\ inflight' = inflight /\ buffered' \in {buffered, None}
      BY <1>9 DEF LineTool, LineToolInline, LineSync, LineCancel, NextLine
    <2>2. Idle' = Idle
      BY <2>1 DEF Idle, Busy
    <2>3. QED
      BY <1>1, <2>1, <2>2, HeldInLines
  <1>10. CASE LineToolThrow
    BY <1>10 DEF LineToolThrow, HeldWaits, ExitOwesNothing
  <1>11. CASE LineCmdBuffer
    <2>1. /\ pc' = "poll" /\ inflight' = inflight /\ Idle = {} /\ buffered' \in Cmds
      BY <1>11 DEF LineCmdBuffer, NextLine
    <2>2. buffered' # None /\ Idle' = {}
      BY <2>1, MarkersAssumption DEF Reqs, Idle, Busy
    <2>3. QED
      BY <2>1, <2>2 DEF HeldWaits, ExitOwesNothing
  <1>12. CASE LinesDone
    <2>1. /\ pc = "lines" /\ lines = <<>> /\ lines' = lines /\ buffered' = buffered
          /\ inflight' = inflight /\ pending' = pending
          /\ pc' = IF eof /\ inFlight = 0 /\ buffered = None THEN "exited" ELSE "poll"
      BY <1>12 DEF LinesDone
    <2>2. HeldWaits'
      BY <1>1, <2>1 DEF HeldWaits, Idle, Busy
    <2>3. ASSUME inFlight = 0 PROVE BusyWorkers = {} /\ pending = {}
      <3>1. /\ IsFiniteSet(pending) /\ Cardinality(pending) \in Nat
            /\ 0 >= Cardinality(BusyWorkers) + Cardinality(pending)
            /\ IsFiniteSet(BusyWorkers) /\ Cardinality(BusyWorkers) \in Nat
        BY <1>1, <2>3, BusyFinite, FS_CardinalityType DEF Counted, InFlightCovers
      <3>2. Cardinality(BusyWorkers) = 0 /\ Cardinality(pending) = 0
        BY <3>1
      <3>3. QED
        BY <3>1, <3>2, FS_EmptySet
    <2>4. ExitOwesNothing'
      BY <2>1, <2>3 DEF ExitOwesNothing, BusyWorkers, Busy
    <2>5. QED
      BY <2>2, <2>4
  <1>13. CASE PollNothing
    <2>1. /\ pc = "poll" /\ pc' = "exited" /\ Polled = {}
          /\ UNCHANGED <<lines, buffered, inflight, pending>>
      BY <1>13 DEF PollNothing
    <2>2. BusyWorkers = {} /\ pending = {}
      BY <2>1 DEF Polled
    <2>3. Idle # {}
      BY <2>2, WorkersAssumption DEF Idle, BusyWorkers, Workers
    <2>4. buffered = None /\ lines = <<>>
      BY <1>1, <2>1, <2>3 DEF HeldWaits
    <2>5. QED
      BY <2>1, <2>2, <2>4 DEF HeldWaits, ExitOwesNothing, BusyWorkers, Busy
  <1>14. CASE Fill \/ FillOverflow
    BY <1>14 DEF Fill, FillOverflow, HeldWaits, ExitOwesNothing
  <1>15. CASE DrainDone
    BY <1>15 DEF DrainDone, HeldWaits, ExitOwesNothing
  <1>16. ASSUME NEW w \in Workers, HandleWorker(w) \/ DrainWorker(w)
         PROVE  HeldWaits' /\ ExitOwesNothing'
    BY <1>16 DEF HandleWorker, DrainWorker, HeldWaits, ExitOwesNothing
  <1>17. ASSUME NEW t \in Tools, HandleTool(t) \/ HandleToolUnread(t)
         PROVE  HeldWaits' /\ ExitOwesNothing'
    BY <1>17 DEF HandleTool, HandleToolUnread, HeldWaits, ExitOwesNothing
  <1>18. ASSUME NEW w \in Workers, WorkerStep(w) \/ CommandStep(w) \/ WorkerCrash(w)
         PROVE  HeldWaits' /\ ExitOwesNothing'
    BY <1>1, <1>18, HeldSame DEF WorkerStep, WorkerSkip, WorkerStart, WorkerCancelled, KillMisses,
       CommandStep, WorkerReaps, WorkerFinish, MissedEnds, WorkerCrash
  <1>19. ASSUME NEW t \in Tools, ToolFinish(t) PROVE HeldWaits' /\ ExitOwesNothing'
    BY <1>1, <1>19, HeldSame DEF ToolFinish
  <1>20. CASE \E r \in Cmds : Setpgid(r)
    BY <1>1, <1>20, HeldSame DEF Setpgid
  <1>21. QED
    BY <1>1, <1>2, <1>3, <1>4, <1>5, <1>6, <1>7, <1>8, <1>9, <1>10, <1>11, <1>12, <1>13,
       <1>14, <1>15, <1>16, <1>17, <1>18, <1>19, <1>20 DEF Next, Loop, Exited

\* Initially nothing is owed.
LEMMA InitBooks == Init => Books
  <1>1. SUFFICES ASSUME Init PROVE Books
    OBVIOUS
  <1>2. BusyWorkers = {} /\ pending = {} /\ inFlight = 0 /\ pc = "top"
    BY <1>1 DEF Init, BusyWorkers, Busy
  <1>3. Cardinality({}) = 0 /\ IsFiniteSet({})
    BY FS_EmptySet
  <1>4. BusyIsOwed
    BY <1>2 DEF BusyIsOwed, BusyWorkers
  <1>5. QED
    BY <1>2, <1>3, <1>4 DEF Books, Counted, InFlightCovers, HeldWaits, ExitOwesNothing

\* The inductive invariant holds throughout.
THEOREM LoopBooks == Spec => []Books
  <1>1. TypeOK /\ SocketDiscipline /\ OnePlace /\ Books /\ [Next]_vars => Books'
    BY NextOwed, NextCounted, NextHeld DEF Books
  <1>2. QED
    BY <1>1, InitBooks, LoopTypes, LoopSockets, LoopOnePlace, PTL DEF Spec

\* The books of the loop are right: in_flight covers what is owed, the loop
\* ends by itself with nothing owed (after a signal or a failure of poll(2) it
\* leaves at once), and a busy worker has its request, for any number of
\* workers, requests and disturbances.
THEOREM LoopAccounting == Spec => []Accounting
  <1>1. Books => Accounting
    BY DEF Books, Counted, Accounting
  <1>2. QED
    BY <1>1, LoopBooks, PTL

-----------------------------------------------------------------------------
(* Commands start in the order sent.                                       *)

\* The client sent x before y.
SentBefore(x, y) == \E a, b \in DOMAIN sent : a < b /\ sent[a] = x /\ sent[b] = y

\* The calls of a sequence of messages are in the order sent.
Sorted(s) ==
    \A i, j \in DOMAIN s : \A x, y \in Reqs :
        i < j /\ s[i] = Call(x) /\ s[j] = Call(y) => SentBefore(x, y)

\* The command has been handed to a worker.
Started(x) == \E i \in DOMAIN dispatched : dispatched[i] = x

\* A request that is not unread any more, and may still be followed by another.
Taken(x) == Started(x) \/ (buffered # None /\ x = buffered)

\* Dispatched, held, read and unread requests are in the order sent.
InOrder ==
    /\ DispatchInOrder /\ Sorted(lines) /\ Sorted(stdin)
    /\ \A x \in Reqs : Taken(x) => x \in Sent
    /\ \A x, y \in Reqs :
          /\ Started(x) /\ buffered # None /\ y = buffered => SentBefore(x, y)
          /\ Taken(x) /\ (In(lines, y) \/ In(stdin, y)) => SentBefore(x, y)
          /\ In(lines, x) /\ In(stdin, y) => SentBefore(x, y)

\* A step that sends nothing keeps the order of sending.
LEMMA BeforeSame ==
  ASSUME sent' = sent, NEW x, NEW y
  PROVE  SentBefore(x, y)' <=> SentBefore(x, y)
  BY DEF SentBefore

\* One request more is sent after all others.
LEMMA BeforeSend ==
  ASSUME TypeOK, NEW r \in Reqs, ClientSend(r), NEW x, NEW y
  PROVE  /\ SentBefore(x, y) => SentBefore(x, y)'
         /\ x \in Sent => SentBefore(x, r)'
  <1>1. sent \in Seq(Reqs) /\ sent' = Append(sent, r)
    BY DEF TypeOK, ClientSend
  <1>2. /\ \A i \in DOMAIN sent : i \in DOMAIN sent' /\ sent'[i] = sent[i] /\ i < Len(sent) + 1
        /\ Len(sent) + 1 \in DOMAIN sent' /\ sent'[Len(sent) + 1] = r
    BY <1>1
  <1>3. QED
    BY <1>2 DEF SentBefore, Sent

\* A step that dispatches nothing, sends nothing and takes nothing new from
\* the input keeps the order.
LEMMA OrderKept ==
  ASSUME InOrder, sent' = sent, dispatched' = dispatched, buffered' \in {buffered, None},
         Sorted(lines'), Sorted(stdin'),
         \A y \in Reqs : /\ In(stdin', y) => In(stdin, y)
                         /\ In(lines', y) => In(lines, y) \/ In(stdin, y),
         \A x, y \in Reqs : In(lines', x) /\ In(stdin', y) => SentBefore(x, y)
  PROVE  InOrder'
  <1>1. \A x, y : SentBefore(x, y)' <=> SentBefore(x, y)
    BY BeforeSame
  <1>2. Sent' = Sent /\ \A x : Taken(x)' => Taken(x)
    BY DEF Sent, Taken, Started
  <1>3. \A x : Started(x)' <=> Started(x)
    BY DEF Started
  <1>4. DispatchInOrder'
    BY DEF InOrder, DispatchInOrder
  <1>5. (Sorted(lines) /\ Sorted(stdin))'
    BY <1>1 DEF Sorted, Call
  <1>6. \A y : /\ In(lines, y)' <=> In(lines', y)
               /\ In(stdin, y)' <=> In(stdin', y)
    BY DEF In, Call
  <1>7. \A x \in Reqs : Taken(x)' => x \in Sent'
    BY <1>2 DEF InOrder
  <1>8. ASSUME NEW x \in Reqs, NEW y \in Reqs
        PROVE  /\ Started(x)' /\ buffered' # None /\ y = buffered' => SentBefore(x, y)'
               /\ Taken(x)' /\ (In(lines, y)' \/ In(stdin, y)') => SentBefore(x, y)'
               /\ In(lines, x)' /\ In(stdin, y)' => SentBefore(x, y)'
    BY <1>1, <1>2, <1>3, <1>6 DEF InOrder
  <1>9. QED
    BY <1>4, <1>5, <1>7, <1>8 DEF InOrder

\* The parts of a sorted sequence are sorted.
LEMMA SortedTail ==
  ASSUME NEW s \in Seq(Messages), s # <<>>, Sorted(s)
  PROVE  /\ Sorted(Tail(s))
         /\ \A x, y \in Reqs : Head(s) = Call(x) /\ In(Tail(s), y) => SentBefore(x, y)
  <1> DEFINE a == Tail(s)
  <1>1. /\ Head(s) = s[1] /\ 1 \in DOMAIN s
        /\ \A i \in DOMAIN a : i + 1 \in DOMAIN s /\ a[i] = s[i + 1] /\ 1 < i + 1
        /\ \A i, j \in DOMAIN a : i < j => i + 1 < j + 1
    OBVIOUS
  <1> HIDE DEF a
  <1>2. Sorted(a)
    BY <1>1 DEF Sorted
  <1>3. ASSUME NEW x \in Reqs, NEW y \in Reqs, Head(s) = Call(x), In(a, y) PROVE SentBefore(x, y)
    <2>1. PICK i \in DOMAIN a : a[i] = Call(y)
      BY <1>3 DEF In
    <2>2. QED
      BY <1>1, <1>3, <2>1 DEF Sorted
  <1>4. QED
    BY <1>2, <1>3 DEF a

\* What the line loop does without starting anything: the first message goes.
LEMMA OrderTake ==
  ASSUME TypeOK, InOrder, lines # <<>>, lines' = Tail(lines), stdin' = stdin, sent' = sent,
         dispatched' = dispatched, buffered' \in {buffered, None}
  PROVE  InOrder'
  <1>1. lines \in Seq(Messages)
    BY DEF TypeOK
  <1>2. Sorted(lines')
    BY <1>1, SortedTail DEF InOrder
  <1>3. \A y : In(lines', y) => In(lines, y)
    BY <1>1, InTail
  <1>4. QED
    BY <1>2, <1>3, OrderKept DEF InOrder

\* LineReader::fill moves a prefix of the pipe behind the buffer.
LEMMA OrderFill ==
  ASSUME TypeOK, InOrder, Fill \/ FillOverflow
  PROVE  InOrder'
  <1>1. /\ lines \in Seq(Messages) /\ stdin \in Seq(Messages) /\ stdin' = <<>>
        /\ sent' = sent /\ dispatched' = dispatched /\ buffered' = buffered
    BY DEF TypeOK, Fill, FillOverflow
  <1>2. PICK n \in 0..Len(stdin) : lines' = lines \o SubSeq(stdin, 1, n)
    <2>1. CASE Fill
      <3>1. SubSeq(stdin, 1, Len(stdin)) = stdin /\ Len(stdin) \in 0..Len(stdin)
        BY <1>1
      <3>2. QED
        BY <2>1, <3>1 DEF Fill
    <2>2. CASE FillOverflow
      <3>1. PICK n \in 0..(Len(stdin) - 1) : lines' = lines \o SubSeq(stdin, 1, n)
        BY <2>2 DEF FillOverflow
      <3>2. n \in 0..Len(stdin)
        BY <1>1, <3>1
      <3>3. QED
        BY <3>1, <3>2
    <2>3. QED
      BY <2>1, <2>2
  <1>3. \A y : In(lines', y) => In(lines, y) \/ In(stdin, y)
    BY <1>1, <1>2, InConcat
  <1>4. ~\E y \in Reqs : In(stdin', y)
    BY <1>1 DEF In
  <1>5. Sorted(stdin')
    BY <1>1 DEF Sorted
  <1>6. Sorted(lines')
    <2> DEFINE a == lines \o SubSeq(stdin, 1, n)
               k == Len(lines)
    <2>1. /\ SubSeq(stdin, 1, n) \in Seq(Messages) /\ Len(SubSeq(stdin, 1, n)) = n
          /\ \A i \in 1..n : SubSeq(stdin, 1, n)[i] = stdin[i]
      BY <1>1, <1>2
    <2>2. /\ DOMAIN lines = 1..k /\ k \in Nat /\ DOMAIN stdin = 1..Len(stdin)
          /\ Len(stdin) \in Nat /\ DOMAIN a = 1..(k + n)
          /\ \A i \in DOMAIN a : a[i] = IF i <= k THEN lines[i] ELSE SubSeq(stdin, 1, n)[i - k]
      BY <1>1, <1>2, <2>1
    <2> HIDE DEF a, k
    <2>3. \A i \in DOMAIN a : i <= k => i \in DOMAIN lines /\ a[i] = lines[i]
      <3>1. TAKE i \in DOMAIN a
      <3>2. i \in 1..(k + n) /\ n \in Nat
        BY <1>2, <2>2, <3>1
      <3>3. HAVE i <= k
      <3>4. i \in 1..k
        BY <2>2, <3>2, <3>3
      <3>5. QED
        BY <2>2, <3>3, <3>4
    <2>4. \A i \in DOMAIN a : ~(i <= k) => i - k \in DOMAIN stdin /\ a[i] = stdin[i - k]
      <3>1. TAKE i \in DOMAIN a
      <3>2. HAVE ~(i <= k)
      <3>3. i - k \in 1..n
        BY <1>2, <2>2, <3>1, <3>2
      <3>4. i - k \in DOMAIN stdin
        BY <1>2, <2>2, <3>3
      <3>5. QED
        BY <2>1, <2>2, <3>2, <3>3, <3>4
    <2>5. ASSUME NEW i \in DOMAIN a, NEW j \in DOMAIN a, i < j, NEW x \in Reqs, NEW y \in Reqs,
                 a[i] = Call(x), a[j] = Call(y)
          PROVE  SentBefore(x, y)
      <3>1. CASE j <= k
        <4>1. i <= k
          BY <2>2, <2>5, <3>1
        <4>2. QED
          BY <2>3, <2>5, <3>1, <4>1 DEF InOrder, Sorted
      <3>2. CASE i <= k /\ ~(j <= k)
        BY <2>3, <2>4, <2>5, <3>2 DEF InOrder, In
      <3>3. CASE ~(i <= k)
        <4>1. ~(j <= k) /\ i - k < j - k
          BY <2>2, <2>5, <3>3
        <4>2. QED
          BY <2>4, <2>5, <3>3, <4>1 DEF InOrder, Sorted
      <3>4. QED
        BY <3>1, <3>2, <3>3
    <2>6. Sorted(a)
      BY <2>5 DEF Sorted
    <2>7. QED
      BY <1>2, <2>6 DEF a
  <1>7. QED
    BY <1>1, <1>3, <1>4, <1>5, <1>6, OrderKept

\* A new request is the last of all; a cancellation is not a request.
LEMMA OrderClient ==
  ASSUME TypeOK, UnreadOnce, InOrder, Client
  PROVE  InOrder'
  <1>1. /\ stdin \in Seq(Messages) /\ UNCHANGED <<lines, dispatched, buffered>>
    BY DEF TypeOK, Client, ClientSend, ClientCancel, ClientClose
  <1>2. CASE ClientClose
    <2>1. stdin' = stdin /\ sent' = sent
      BY <1>2 DEF ClientClose
    <2>2. QED
      BY <1>1, <2>1, OrderKept DEF InOrder
  <1>3. ASSUME NEW m \in Messages, stdin' = Append(stdin, m)
        PROVE  /\ \A i \in DOMAIN stdin' : \/ i \in DOMAIN stdin /\ stdin'[i] = stdin[i]
                                           \/ i = Len(stdin) + 1 /\ stdin'[i] = m
               /\ \A i \in DOMAIN stdin : i < Len(stdin) + 1
    BY <1>1, <1>3
  <1>4. ASSUME NEW r \in Reqs, ClientCancel(r) PROVE InOrder'
    <2>1. sent' = sent /\ stdin' = Append(stdin, CancelOf(r)) /\ CancelOf(r) \in Messages
      BY <1>4 DEF ClientCancel, CancelOf, Messages
    <2>2. \A y : CancelOf(r) # Call(y)
      BY DEF CancelOf, Call
    <2>3. \A y : In(stdin', y) => In(stdin, y)
      BY <1>1, <2>1, <2>2, InAppend
    <2>4. Sorted(stdin')
      BY <1>3, <2>1, <2>2 DEF Sorted, InOrder
    <2>5. QED
      BY <1>1, <2>1, <2>3, <2>4, OrderKept DEF InOrder
  <1>5. ASSUME NEW r \in Reqs, ClientSend(r) PROVE InOrder'
    <2>1. stdin' = Append(stdin, Call(r)) /\ Call(r) \in Messages
      BY <1>5 DEF ClientSend, Call, Messages
    <2>2. \A y : Call(y) = Call(r) => y = r
      BY DEF Call
    <2>3. \A y : In(stdin', y) => In(stdin, y) \/ y = r
      BY <1>1, <2>1, <2>2, InAppend
    <2>4. \A x, y : /\ SentBefore(x, y) => SentBefore(x, y)'
                    /\ x \in Sent => SentBefore(x, r)'
      BY <1>5, BeforeSend
    <2>5. Sent' = Sent \cup {r}
      BY <1>5, SendAdds
    <2>6. \A x \in Reqs : Taken(x) \/ In(lines, x) \/ In(stdin, x) => x \in Sent
      BY DEF InOrder, UnreadOnce
    <2>7. \A x : /\ Taken(x)' <=> Taken(x)
                 /\ Started(x)' <=> Started(x)
                 /\ In(lines, x)' <=> In(lines, x)
                 /\ In(stdin, x)' <=> In(stdin', x)
      BY <1>1 DEF Taken, Started, In, Call
    <2>8. DispatchInOrder'
      <3>1. ASSUME NEW i \in DOMAIN dispatched, NEW j \in DOMAIN dispatched, i < j
            PROVE  SentBefore(dispatched[i], dispatched[j])'
        <4>1. PICK x, y : x = dispatched[i] /\ y = dispatched[j]
          OBVIOUS
        <4>2. SentBefore(x, y)
          BY <3>1, <4>1 DEF InOrder, DispatchInOrder, SentBefore
        <4>3. SentBefore(x, y)'
          BY <2>4, <4>2
        <4>4. QED
          BY <1>1, <4>1, <4>3 DEF SentBefore
      <3>2. QED
        BY <1>1, <3>1 DEF DispatchInOrder, SentBefore
    <2>9. Sorted(lines)'
      BY <1>1, <2>4 DEF InOrder, Sorted, Call
    <2>10. Sorted(stdin)'
      <3>1. ASSUME NEW i \in DOMAIN stdin', NEW j \in DOMAIN stdin', i < j,
                   NEW x \in Reqs, NEW y \in Reqs, stdin'[i] = Call(x), stdin'[j] = Call(y)
            PROVE  SentBefore(x, y)'
        <4>1. i \in DOMAIN stdin /\ stdin'[i] = stdin[i]
          <5>1. /\ Len(stdin) \in Nat /\ DOMAIN stdin = 1..Len(stdin)
                /\ DOMAIN stdin' = 1..(Len(stdin) + 1)
            BY <1>1, <2>1
          <5>2. i # Len(stdin) + 1
            BY <3>1, <5>1
          <5>3. QED
            BY <1>3, <2>1, <5>2
        <4>2. x \in Sent
          BY <2>6, <3>1, <4>1 DEF In
        <4>3. CASE j \in DOMAIN stdin /\ stdin'[j] = stdin[j]
          BY <2>4, <3>1, <4>1, <4>3 DEF InOrder, Sorted
        <4>4. CASE stdin'[j] = Call(r)
          BY <2>2, <2>4, <3>1, <4>2, <4>4
        <4>5. QED
          BY <1>3, <2>1, <4>3, <4>4
      <3>2. QED
        BY <3>1 DEF Sorted, Call
    <2>11. \A x, y \in Reqs :
              /\ Started(x)' /\ buffered' # None /\ y = buffered' => SentBefore(x, y)'
              /\ Taken(x)' /\ (In(lines, y)' \/ In(stdin, y)') => SentBefore(x, y)'
              /\ In(lines, x)' /\ In(stdin, y)' => SentBefore(x, y)'
      BY <1>1, <2>3, <2>4, <2>6, <2>7 DEF InOrder
    <2>12. QED
      BY <2>5, <2>6, <2>7, <2>8, <2>9, <2>10, <2>11 DEF InOrder
  <1>6. QED
    BY <1>2, <1>4, <1>5 DEF Client

\* A command handed to a worker, or held, comes after what was handed out and
\* before what is unread.
LEMMA OrderStart ==
  ASSUME TypeOK, InOrder, NEW r \in Cmds, r \in Sent, sent' = sent, stdin' = stdin,
         lines \in Seq(Messages),
         \A x \in Reqs : Started(x) => SentBefore(x, r),
         \A y \in Reqs : In(lines', y) \/ In(stdin', y) => SentBefore(r, y),
         \A y \in Reqs : In(lines', y) => In(lines, y),
         Sorted(lines'),
         \/ /\ dispatched' = Append(dispatched, r) \/ dispatched' = dispatched
            /\ buffered' = None
         \/ dispatched' = dispatched /\ buffered' = r
  PROVE  InOrder'
  <1>1. \A x, y : SentBefore(x, y)' <=> SentBefore(x, y)
    BY BeforeSame
  <1>2. Sent' = Sent /\ r \in Reqs /\ dispatched \in Seq(Cmds)
    BY DEF Sent, Reqs, TypeOK
  <1>3. \A i \in DOMAIN dispatched' :
           \/ i \in DOMAIN dispatched /\ dispatched'[i] = dispatched[i]
           \/ dispatched'[i] = r /\ \A j \in DOMAIN dispatched' : ~(i < j)
    <2>1. CASE dispatched' = dispatched
      BY <2>1
    <2>2. CASE dispatched' = Append(dispatched, r)
      <3>1. /\ Len(dispatched) \in Nat /\ DOMAIN dispatched = 1..Len(dispatched)
            /\ DOMAIN dispatched' = 1..(Len(dispatched) + 1)
            /\ dispatched'[Len(dispatched) + 1] = r
            /\ \A i \in 1..Len(dispatched) : dispatched'[i] = dispatched[i]
        BY <1>2, <2>2
      <3>2. QED
        BY <3>1
    <2>3. QED
      BY <2>1, <2>2
  <1>4. /\ \A x : Started(x)' => Started(x) \/ x = r
        /\ buffered' # None => \A x : Started(x)' => Started(x)
    BY <1>3 DEF Started
  <1>5. \A x : Taken(x)' => Started(x) \/ x = r
    BY <1>4 DEF Taken
  <1>6. \A x : Started(x) => Taken(x)
    BY DEF Taken
  <1>7. DispatchInOrder'
    <2>1. ASSUME NEW i \in DOMAIN dispatched', NEW j \in DOMAIN dispatched', i < j
          PROVE  SentBefore(dispatched'[i], dispatched'[j])
      <3>1. i \in DOMAIN dispatched /\ dispatched'[i] = dispatched[i]
        BY <1>3, <2>1
      <3>2. CASE dispatched'[j] = r
        <4>1. dispatched[i] \in Reqs
          BY <1>2, <3>1 DEF Reqs
        <4>2. QED
          BY <3>1, <3>2, <4>1 DEF Started
      <3>3. CASE j \in DOMAIN dispatched /\ dispatched'[j] = dispatched[j]
        BY <2>1, <3>1, <3>3 DEF InOrder, DispatchInOrder, SentBefore
      <3>4. QED
        BY <1>3, <3>2, <3>3
    <2>2. QED
      BY <1>1, <2>1 DEF DispatchInOrder, SentBefore
  <1>8. (Sorted(lines) /\ Sorted(stdin))'
    BY <1>1 DEF InOrder, Sorted, Call
  <1>9. \A y : /\ In(lines, y)' <=> In(lines', y)
               /\ In(stdin, y)' <=> In(stdin', y)
    BY DEF In, Call
  <1>10. \A x \in Reqs : Taken(x)' => x \in Sent'
    BY <1>2, <1>5, <1>6 DEF InOrder
  <1>11. ASSUME NEW x \in Reqs, NEW y \in Reqs
         PROVE  /\ Started(x)' /\ buffered' # None /\ y = buffered' => SentBefore(x, y)'
                /\ Taken(x)' /\ (In(lines, y)' \/ In(stdin, y)') => SentBefore(x, y)'
                /\ In(lines, x)' /\ In(stdin, y)' => SentBefore(x, y)'
    BY <1>1, <1>4, <1>5, <1>6, <1>9 DEF InOrder
  <1>12. QED
    BY <1>7, <1>8, <1>10, <1>11 DEF InOrder

\* A command taken from the line buffer comes before what is left there.
LEMMA OrderHead ==
  ASSUME TypeOK, UnreadOnce, InOrder, NextLine("call", Cmds), stdin' = stdin
  PROVE  LET r == Head(lines).id
         IN  /\ r \in Cmds /\ r \in Sent /\ lines \in Seq(Messages)
             /\ \A x \in Reqs : Taken(x) => SentBefore(x, r)
             /\ \A y \in Reqs : In(lines', y) \/ In(stdin', y) => SentBefore(r, y)
             /\ \A y \in Reqs : In(lines', y) => In(lines, y)
             /\ Sorted(lines')
  <1>1. /\ lines \in Seq(Messages) /\ lines # <<>> /\ lines' = Tail(lines)
        /\ Head(lines).kind = "call" /\ Head(lines).id \in Cmds
    BY DEF TypeOK, NextLine
  <1>2. PICK r \in Cmds : r = Head(lines).id
    BY <1>1
  <1>3. r \in Reqs /\ Head(lines) = Call(r)
    <2>1. Head(lines) \in Messages
      BY <1>1, TailType
    <2>2. QED
      BY <1>1, <1>2, <2>1 DEF Messages, Call, Reqs
  <1>4. In(lines, r) /\ \A y : In(lines', y) => In(lines, y)
    BY <1>1, <1>3, InTail
  <1>5. Sorted(lines') /\ \A y \in Reqs : In(lines', y) => SentBefore(r, y)
    BY <1>1, <1>3, SortedTail DEF InOrder
  <1>6. r \in Sent /\ \A x \in Reqs : Taken(x) => SentBefore(x, r)
    BY <1>3, <1>4 DEF InOrder, UnreadOnce
  <1>7. \A y \in Reqs : In(stdin', y) => SentBefore(r, y)
    BY <1>3, <1>4 DEF InOrder
  <1>8. QED
    BY <1>1, <1>2, <1>4, <1>5, <1>6, <1>7

\* Every step keeps the order.
LEMMA NextOrder ==
  TypeOK /\ OnePlace /\ HeldWaits /\ InOrder /\ [Next]_vars => InOrder'
  <1>1. SUFFICES ASSUME TypeOK, OnePlace, HeldWaits, InOrder, [Next]_vars PROVE InOrder'
    OBVIOUS
  <1>2. UnreadOnce
    BY <1>1 DEF OnePlace
  <1>3. ASSUME UNCHANGED <<sent, lines, stdin, dispatched>>, buffered' \in {buffered, None}
        PROVE  InOrder'
    BY <1>1, <1>3, OrderKept DEF InOrder
  <1>4. CASE UNCHANGED vars
    BY <1>3, <1>4 DEF vars
  <1>5. CASE Client
    BY <1>1, <1>2, <1>5, OrderClient
  <1>6. CASE \/ TopStop \/ TopPass \/ LinesDone \/ PollNothing \/ PollInterrupted \/ PollFails
             \/ HandleDone \/ SigTerm \/ PollReturns \/ DrainDone
    BY <1>3, <1>6 DEF TopStop, TopPass, LinesDone, PollNothing, PollInterrupted, PollFails, HandleDone,
       SigTerm, PollReturns, DrainDone
  <1>7. CASE LineTool \/ LineToolInline \/ LineToolThrow \/ LineSync \/ LineCancel
    BY <1>1, <1>7, OrderTake DEF LineTool, LineToolInline, LineToolThrow, LineSync, LineCancel,
       NextLine
  <1>8. CASE Fill \/ FillOverflow
    BY <1>1, <1>8, OrderFill
  <1>9. CASE TopDispatchBuffered
    <2>1. /\ buffered # None /\ TryDispatch(buffered) /\ buffered' = None
          /\ UNCHANGED <<sent, stdin, lines>>
      BY <1>9 DEF TopDispatchBuffered
    <2>2. buffered \in Cmds /\ buffered \in Reqs /\ lines \in Seq(Messages)
      BY <1>1, <2>1 DEF TypeOK, Reqs
    <2>3. dispatched' = Append(dispatched, buffered) \/ dispatched' = dispatched
      BY <2>1 DEF TryDispatch
    <2>4. Taken(buffered)
      BY <2>1 DEF Taken
    <2>5. QED
      BY <1>1, <2>1, <2>2, <2>3, <2>4, OrderStart DEF InOrder
  <1>10. CASE LineCmdDispatch
    <2> DEFINE r == Head(lines).id
    <2>1. /\ NextLine("call", Cmds) /\ Idle # {} /\ TryDispatch(r) /\ buffered' = buffered
          /\ UNCHANGED <<sent, stdin>>
      BY <1>10 DEF LineCmdDispatch
    <2>2. buffered' = None
      BY <1>1, <2>1 DEF HeldWaits, NextLine
    <2>3. dispatched' = Append(dispatched, r) \/ dispatched' = dispatched
      BY <2>1 DEF TryDispatch
    <2>4. /\ r \in Cmds /\ r \in Sent /\ lines \in Seq(Messages)
          /\ \A x \in Reqs : Taken(x) => SentBefore(x, r)
          /\ \A y \in Reqs : In(lines', y) \/ In(stdin', y) => SentBefore(r, y)
          /\ \A y \in Reqs : In(lines', y) => In(lines, y)
          /\ Sorted(lines')
      BY <1>1, <1>2, <2>1, OrderHead
    <2>5. \A x \in Reqs : Started(x) => SentBefore(x, r)
      BY <2>4 DEF Taken
    <2> HIDE DEF r
    <2>6. QED
      BY <1>1, <2>1, <2>2, <2>3, <2>4, <2>5, OrderStart
  <1>11. CASE LineCmdBuffer
    <2> DEFINE r == Head(lines).id
    <2>1. /\ NextLine("call", Cmds) /\ buffered' = r /\ dispatched' = dispatched
          /\ UNCHANGED <<sent, stdin>>
      BY <1>11 DEF LineCmdBuffer
    <2>2. /\ r \in Cmds /\ r \in Sent /\ lines \in Seq(Messages)
          /\ \A x \in Reqs : Taken(x) => SentBefore(x, r)
          /\ \A y \in Reqs : In(lines', y) \/ In(stdin', y) => SentBefore(r, y)
          /\ \A y \in Reqs : In(lines', y) => In(lines, y)
          /\ Sorted(lines')
      BY <1>1, <1>2, <2>1, OrderHead
    <2>3. \A x \in Reqs : Started(x) => SentBefore(x, r)
      BY <2>2 DEF Taken
    <2> HIDE DEF r
    <2>4. QED
      BY <1>1, <2>1, <2>2, <2>3, OrderStart
  <1>12. ASSUME NEW w \in Workers,
                \/ HandleWorker(w) \/ DrainWorker(w) \/ WorkerStep(w) \/ CommandStep(w)
                \/ WorkerCrash(w)
         PROVE  InOrder'
    BY <1>3, <1>12 DEF HandleWorker, DrainWorker, WorkerStep, WorkerSkip, WorkerStart,
       WorkerCancelled, KillMisses,
       CommandStep, WorkerReaps, WorkerFinish, MissedEnds, WorkerCrash
  <1>13. ASSUME NEW t \in Tools, HandleTool(t) \/ HandleToolUnread(t) \/ ToolFinish(t) PROVE InOrder'
    BY <1>3, <1>13 DEF HandleTool, HandleToolUnread, ToolFinish
  <1>14. CASE \E r \in Cmds : Setpgid(r)
    BY <1>3, <1>14 DEF Setpgid
  <1>15. QED
    BY <1>1, <1>4, <1>5, <1>6, <1>7, <1>8, <1>9, <1>10, <1>11, <1>12, <1>13, <1>14
       DEF Next, Loop, Exited

\* Initially nothing has been sent.
LEMMA InitOrder == Init => InOrder
  <1>1. SUFFICES ASSUME Init PROVE InOrder
    OBVIOUS
  <1>2. /\ lines = <<>> /\ stdin = <<>> /\ dispatched = <<>> /\ buffered = None
    BY <1>1 DEF Init
  <1>3. QED
    BY <1>2 DEF InOrder, DispatchInOrder, Sorted, Taken, Started, In

\* Commands reach the workers in the order the client sent them, whatever is
\* held, cancelled, overwritten or lost on the way.
THEOREM LoopDispatchInOrder == Spec => []DispatchInOrder
  <1>1. Books => HeldWaits
    BY DEF Books
  <1>2. InOrder => DispatchInOrder
    BY DEF InOrder
  <1>3. QED
    BY <1>1, <1>2, InitOrder, NextOrder, LoopBooks, LoopTypes, LoopOnePlace, PTL DEF Spec

=============================================================================
