---------------------------- MODULE TerminalLog ----------------------------
(***************************************************************************)
(* The raw log of a terminal session (src/terminal.cpp): every byte the    *)
(* PTY produced, kept in a bounded ring and addressed by absolute cursors. *)
(* A byte is its absolute position, so the log is the interval             *)
(* base .. base+len-1 of the positions produced so far.                    *)
(*                                                                         *)
(* All operations hold the session's mutex, so each is one step.  Callers  *)
(* are of three kinds: those that pass no cursor and share the session's   *)
(* read_cursor, the followers in Readers, each of which passes the         *)
(* next_cursor of its own previous result, and those that pass any other   *)
(* cursor, also one the session has not reached yet.  terminal_kill's last *)
(* read, from position 0, moves nothing.                                   *)
(***************************************************************************)
EXTENDS Integers

CONSTANTS
    Limit,      \* log_limit_bytes; 0 = unbounded
    SlackMin,   \* kLogSlackMin
    MaxTotal,   \* bound on the bytes a session produces
    Readers     \* callers that track a cursor of their own

ASSUME LogAssumption ==
    Limit \in Nat /\ SlackMin \in Nat /\ MaxTotal \in Nat

Slack == IF Limit \div 8 > SlackMin THEN Limit \div 8 ELSE SlackMin

VARIABLES
    base,       \* log_base
    len,        \* log.size()
    dropped,
    readCursor, \* read_cursor
    over,       \* the reader thread has recorded the end of the process
    cleared,    \* reap_session has emptied the log
    cursor,     \* next_cursor of each follower's last result
    produced,   \* bytes published by the reader thread (history)
    delivered,  \* positions returned to callers without a cursor (history)
    reported,   \* positions declared dropped to them (history)
    taken,      \* positions an explicit read moved read_cursor over (history)
    seen, lost  \* what each follower got, and was told it lost (history)

logVars  == <<base, len, dropped>>
histVars == <<delivered, reported, taken, seen, lost>>
logState == <<logVars, readCursor, over, cleared, cursor, produced, histVars>>

Positions == 0..(MaxTotal - 1)

LogTypeOK ==
    /\ base \in Nat /\ len \in Nat /\ dropped \in Nat /\ readCursor \in Nat
    /\ over \in BOOLEAN /\ cleared \in BOOLEAN
    /\ cursor \in [Readers -> Nat] /\ produced \in 0..MaxTotal
    /\ {delivered, reported, taken} \subseteq SUBSET Positions
    /\ seen \in [Readers -> SUBSET Positions]
    /\ lost \in [Readers -> SUBSET Positions]

LogInit ==
    /\ base = 0 /\ len = 0 /\ dropped = 0 /\ readCursor = 0
    /\ over = FALSE /\ cleared = FALSE
    /\ cursor = [r \in Readers |-> 0] /\ produced = 0
    /\ delivered = {} /\ reported = {} /\ taken = {}
    /\ seen = [r \in Readers |-> {}] /\ lost = [r \in Readers |-> {}]

Total == base + len     \* total_bytes()

-----------------------------------------------------------------------------
(* log_append, from publish(): n fresh bytes, and the front is dropped     *)
(* back to the limit once the ring is over limit + slack.                  *)

\* Mutant: one byte too many is dropped.
ExcessOneMore(n) ==
    IF Limit > 0 /\ len + n > Limit + Slack THEN len + n - Limit + 1 ELSE 0

Excess(n) == IF Limit > 0 /\ len + n > Limit + Slack THEN len + n - Limit ELSE 0

Publish(n) ==
    /\ ~over /\ n > 0 /\ produced + n <= MaxTotal
    /\ produced' = produced + n
    /\ base' = base + Excess(n)
    /\ dropped' = dropped + Excess(n)
    /\ len' = len + n - Excess(n)
    /\ UNCHANGED <<readCursor, over, cleared, cursor, histVars>>

\* publish(true): the slave side is gone and the child is reaped.
Exit ==
    /\ ~over /\ over' = TRUE
    /\ UNCHANGED <<logVars, readCursor, cleared, cursor, produced, histVars>>

-----------------------------------------------------------------------------
(* log_slice(cursor): the window [begin, end) and the truncated flag.      *)

\* Mutant: the flag is set one byte late.
TruncatedLate(c) == c + 1 < base
Truncated(c) == c < base
Begin(c) == IF c < base THEN base ELSE IF c > Total THEN Total ELSE c
Window(c) == Begin(c)..(Total - 1)
Gap(c) == IF Truncated(c) THEN c..(base - 1) ELSE {}

\* read_locked at c and advance_read_cursor.
Read(c) ==
    /\ readCursor' = IF Total > readCursor THEN Total ELSE readCursor
    /\ UNCHANGED <<logVars, over, cleared, produced>>

\* A read without a cursor (terminal_read, terminal_send, terminal_create).
ReadOn ==
    /\ Read(readCursor)
    /\ delivered' = delivered \cup Window(readCursor)
    /\ reported' = reported \cup Gap(readCursor)
    /\ UNCHANGED <<taken, cursor, seen, lost>>

\* A read at an explicit cursor consumes what the callers without one had
\* still to get.
Explicit ==
    /\ taken' = taken \cup readCursor..(Total - 1)
    /\ UNCHANGED <<delivered, reported>>

\* Any cursor is accepted, however far ahead.
ReadAt(c) == Read(c) /\ Explicit /\ UNCHANGED <<cursor, seen, lost>>

\* A follower reads at its own cursor and keeps next_cursor.
Follow(r) ==
    /\ Read(cursor[r]) /\ Explicit
    /\ cursor' = [cursor EXCEPT ![r] = Total]
    /\ seen' = [seen EXCEPT ![r] = @ \cup Window(cursor[r])]
    /\ lost' = [lost EXCEPT ![r] = @ \cup Gap(cursor[r])]

\* reap_session, from terminal_sweep in any tool thread, once the session has
\* exited: the bytes go, log_base and read_cursor stay.  A thread that looked
\* the session up before goes on reading it.
Reap ==
    /\ over /\ ~cleared
    /\ cleared' = TRUE /\ len' = 0
    /\ UNCHANGED <<base, dropped, readCursor, over, cursor, produced, histVars>>

-----------------------------------------------------------------------------

LogNext ==
    \/ \E n \in 1..MaxTotal : Publish(n)
    \/ Exit \/ ReadOn \/ Reap
    \/ \E c \in 0..MaxTotal : ReadAt(c)
    \/ \E r \in Readers : Follow(r)

LogSpec == LogInit /\ [][LogNext]_logState

-----------------------------------------------------------------------------
(* Properties.                                                             *)

\* The ring accounts for every byte produced, keeps at least `limit` of them
\* once it has dropped any, and never more than limit + slack.
RingAccounting ==
    /\ base = dropped
    /\ ~cleared => Total = produced
    /\ ~cleared /\ base > 0 => len >= Limit
    /\ Limit > 0 => len <= Limit + Slack

\* substr() in log_slice never starts beyond the retained bytes.
SliceInBounds ==
    \A c \in 0..MaxTotal : Begin(c) - base \in 0..len

\* Callers without a cursor: every byte below the session's read position was
\* returned to one of them exactly once, or declared dropped, or an explicit
\* read moved the position over it.  Nothing else is missed, by trims or by the
\* sweep that empties the log.
PollExact ==
    /\ delivered \cup reported \cup taken = 0..(readCursor - 1)
    /\ delivered \cap reported = {} /\ taken \cap (delivered \cup reported) = {}
    /\ reported \subseteq 0..(dropped - 1)

\* As long as no sweep has emptied the log, a follower has received every byte
\* below its cursor exactly once, or has been told that it was dropped, and
\* nothing is declared dropped that was still in the ring.
FollowerExact ==
    ~cleared => \A r \in Readers :
        /\ seen[r] \cup lost[r] = 0..(cursor[r] - 1)
        /\ seen[r] \cap lost[r] = {}
        /\ lost[r] \subseteq 0..(dropped - 1)

\* Both: whoever reads misses nothing, gets nothing twice, and is told of what
\* was dropped, however the other callers read.
ReadersExact == PollExact /\ FollowerExact

\* The session's read position never moves backwards, and neither does the
\* cursor of a follower as long as no sweep has emptied the log (after one
\* log_slice sends it back to log_base, with no truncation reported).
CursorsForward ==
    [][/\ readCursor' >= readCursor
       /\ ~cleared => \A r \in Readers : cursor'[r] >= cursor[r]]_logState
=============================================================================
