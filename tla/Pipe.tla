-------------------------------- MODULE Pipe --------------------------------
(***************************************************************************)
(* The pipe service of Foundation, src/foundation/services/pipe/main.c:       *)
(* byte rings between a read end and a write end, and one table of requests    *)
(* that wait for data or room.                                               *)
(*                                                                         *)
(* The service has one thread.  A request or a CLIENT_GONE is one step that     *)
(* changes the tables; the scan of waiting requests it triggers (settle) then   *)
(* takes one step per answer, because callers may be killed between two of      *)
(* them; the result in an answer is not kept.  A byte is named by the write it  *)
(* comes from and its place in it.  Requests whose answer changes no state      *)
(* (ST_STAT, ST_SYNC, unknown operations) are not modelled.  Some names begin   *)
(* with Pipe or pipe_ so that a module can extend DiskCache too.                *)
(***************************************************************************)
EXTENDS Naturals, Sequences, FiniteSets

CONSTANTS
  NPipes,     \* PIPES
  NPending,   \* PENDING
  PipeSize,   \* PIPE_SIZE, which is also the longest request
  NCalls,     \* bound: the calls made, each with a token of its own, numbered in their order
  MaxBadge    \* bound: the badges given out (0x7FFFFFFF in the code)

ASSUME PipeAssumption ==
  /\ NPipes \in Nat \ {0} /\ NPending \in Nat /\ PipeSize \in Nat \ {0}
  /\ NCalls \in Nat /\ MaxBadge \in Nat

VARIABLES
  pipes,       \* pipes[i]: id, read_badge, write_badge, head, count, buf
  pending,     \* pending[j]: badge (0: free), call (its token), op, max
  next_badge,
  next_id,
  scan,        \* settle: the rounds left, the pipe and the next entry; the pipe client_gone may free after it
  call,        \* call[c]: whether a call was made and waits, and the badge it waits on
  gone,        \* badges whose CLIENT_GONE was received
  owed         \* owed[i]: the bytes written and not yet read, in order (not in the code)

pipe_vars == <<pipes, pending, next_badge, next_id, scan, call, gone, owed>>

Slots   == 1 .. NPipes
Calls   == 1 .. NCalls
Entries == 1 .. NPending
Zero    == <<0, 0>>
Bytes   == (Calls \X (1 .. PipeSize)) \cup {Zero}

NoPipe == [id |-> 0, read_badge |-> 0, write_badge |-> 0, head |-> 0, count |-> 0,
           buf |-> [k \in 0 .. PipeSize - 1 |-> Zero]]
Free   == [badge |-> 0, call |-> 0, op |-> "none", max |-> 0]
NoScan   == [round |-> 0, pipe |-> 1, slot |-> 1, gone |-> 0]
Over   == [state |-> "over", badge |-> 0]

PipeTypeOK ==
  /\ pipes \in [Slots -> [id : 0 .. MaxBadge, read_badge : 0 .. MaxBadge, write_badge : 0 .. MaxBadge,
                          head : 0 .. PipeSize - 1, count : 0 .. PipeSize,
                          buf : [0 .. PipeSize - 1 -> Bytes]]]
  /\ pending \in [Entries -> [badge : 0 .. MaxBadge, call : Calls \cup {0}, op : {"none", "read", "write"},
                              max : 0 .. PipeSize]]
  /\ next_badge \in 0 .. MaxBadge /\ next_id \in 0 .. MaxBadge
  /\ scan \in [round : 0 .. 2, pipe : Slots, slot : 1 .. NPending + 1, gone : Slots \cup {0}]
  /\ call \in [Calls -> [state : {"unused", "waiting", "over"}, badge : 0 .. MaxBadge]]
  /\ gone \subseteq 1 .. MaxBadge

\* by_badge: the pipe and the end a badge names.
ReadEnds(b)  == {i \in Slots : b # 0 /\ pipes[i].id # 0 /\ pipes[i].read_badge = b}
WriteEnds(b) == {i \in Slots : b # 0 /\ pipes[i].id # 0 /\ pipes[i].write_badge = b}

-----------------------------------------------------------------------------
(* settle.                                                                   *)

\* The k-th byte in the ring of p, from its head.
InRing(p, k) == (p.head + k - 1) % PipeSize
Content(p) == [k \in 1 .. p.count |-> p.buf[InRing(p, k)]]

\* settle_all goes twice over all pipes, client_gone once over one.
OneRound == 1
Rounds == 2

Advance(j) == scan' = [scan EXCEPT !.slot = j + 1]

\* reply: the call is over, with whatever result; a caller that was killed meanwhile needs no answer.
Reply(c) == call' = [call EXCEPT ![c] = Over]

AnswerReader(i, j) == pending[j].op = "read" /\ pending[j].badge = pipes[i].read_badge
AnswerWriter(i, j) == pending[j].op = "write" /\ pending[j].badge = pipes[i].write_badge

\* A write waits until all of it fits.
Fits(p, n) == p.count + n <= PipeSize

\* The entries that pipe i can answer now; settle comes to the next of them.  Those it passes over are
\* free, of another pipe, or have to wait on.
Answerable(i, j) ==
  /\ pending[j].badge # 0
  /\ \/ AnswerReader(i, j) /\ (pipes[i].count # 0 \/ pipes[i].write_badge = 0)
     \/ AnswerWriter(i, j) /\ (pipes[i].read_badge = 0 \/ Fits(pipes[i], pending[j].max))
Settling(i, j) ==
  /\ scan.round # 0 /\ i = scan.pipe /\ pipes[i].id # 0 /\ j >= scan.slot
  /\ Answerable(i, j)
  /\ \A k \in scan.slot .. j - 1 : ~Answerable(i, k)

\* The head moves on, around the end of the ring.
HeadStays(p, n) == p.head
HeadAfter(p, n) == (p.head + n) % PipeSize

SettleRead(i, j) ==
  LET p == pipes[i]
      n == IF p.count < pending[j].max THEN p.count ELSE pending[j].max
  IN
  /\ Settling(i, j) /\ AnswerReader(i, j) /\ p.count # 0
  /\ pipes' = [pipes EXCEPT ![i].head = HeadAfter(p, n), ![i].count = @ - n]
  /\ owed' = [owed EXCEPT ![i] = SubSeq(@, n + 1, Len(@))]
  /\ Reply(pending[j].call)
  /\ pending' = [pending EXCEPT ![j] = Free]
  /\ Advance(j)
  /\ UNCHANGED <<next_badge, next_id, gone>>

SettleEof(i, j) ==
  /\ Settling(i, j) /\ AnswerReader(i, j)
  /\ pipes[i].count = 0 /\ pipes[i].write_badge = 0
  /\ Reply(pending[j].call)
  /\ pending' = [pending EXCEPT ![j] = Free]
  /\ Advance(j)
  /\ UNCHANGED <<pipes, next_badge, next_id, gone, owed>>

SettlePeerGone(i, j) ==
  /\ Settling(i, j) /\ AnswerWriter(i, j) /\ pipes[i].read_badge = 0
  /\ Reply(pending[j].call)
  /\ pending' = [pending EXCEPT ![j] = Free]
  /\ Advance(j)
  /\ UNCHANGED <<pipes, next_badge, next_id, gone, owed>>

Data(c, n) == [k \in 1 .. n |-> <<c, k>>]

SettleWrite(i, j) ==
  LET p == pipes[i]
      n == pending[j].max
      data == Data(pending[j].call, n)
  IN
  /\ Settling(i, j) /\ AnswerWriter(i, j) /\ p.read_badge # 0 /\ Fits(p, n)
  /\ pipes' = [pipes EXCEPT ![i].count = @ + n,
                            ![i].buf = [s \in 0 .. PipeSize - 1 |->
                               IF \E k \in 1 .. n : s = InRing(p, p.count + k)
                               THEN data[CHOOSE k \in 1 .. n : s = InRing(p, p.count + k)] ELSE @[s]]]
  /\ owed' = [owed EXCEPT ![i] = @ \o data]
  /\ Reply(pending[j].call)
  /\ pending' = [pending EXCEPT ![j] = Free]
  /\ Advance(j)
  /\ UNCHANGED <<next_badge, next_id, gone>>

\* The end of settle for pipe i, which is skipped if it is free; the next pipe, or the next round.
SettleEnd(i) ==
  /\ scan.round # 0 /\ i = scan.pipe
  /\ pipes[i].id # 0 => \A k \in scan.slot .. NPending : ~Answerable(i, k)
  /\ scan' = IF scan.gone = 0 /\ i < NPipes THEN [scan EXCEPT !.slot = 1, !.pipe = i + 1]
             ELSE [scan EXCEPT !.slot = 1, !.pipe = 1, !.round = @ - 1]
  /\ UNCHANGED <<pipes, pending, next_badge, next_id, call, gone, owed>>

\* The end of client_gone: a pipe with no end is free.
FreePipe ==
  /\ scan.round = 0 /\ scan.gone # 0
  /\ pipes' = IF pipes[scan.gone].read_badge = 0 /\ pipes[scan.gone].write_badge = 0
              THEN [pipes EXCEPT ![scan.gone].id = 0] ELSE pipes
  /\ scan' = NoScan
  /\ UNCHANGED <<pending, next_badge, next_id, call, gone, owed>>

-----------------------------------------------------------------------------
(* Requests.                                                                 *)

\* queue: the first free entry.
FirstFree == CHOOSE j \in Entries : pending[j].badge = 0 /\ \A k \in 1 .. j - 1 : pending[k].badge # 0

Waits(c, b, op, max) ==
  /\ pending' = [pending EXCEPT ![FirstFree] = [badge |-> b, call |-> c, op |-> op, max |-> max]]
  /\ call' = [call EXCEPT ![c] = [state |-> "waiting", badge |-> b]]
  /\ scan' = [NoScan EXCEPT !.round = Rounds]

Refused(c) ==
  /\ Reply(c)
  /\ UNCHANGED <<pending, scan>>

Ready(c, b) ==
  /\ scan = NoScan /\ b \in 1 .. next_badge
  /\ \A d \in 1 .. c : call[d].state = "unused" <=> d = c
Room == \E j \in Entries : pending[j].badge = 0

\* ST_READ, of as much as was asked for and the reply can take; the latter may be
\* nothing.
StRead(c, b, max) ==
  /\ Ready(c, b)
  /\ IF ReadEnds(b) # {} /\ Room THEN Waits(c, b, "read", max) ELSE Refused(c)
  /\ UNCHANGED <<pipes, next_badge, next_id, gone, owed>>

\* ST_WRITE; one of no bytes is answered at once.
StWrite(c, b, len) ==
  /\ Ready(c, b)
  /\ \/ /\ WriteEnds(b) # {} /\ len # 0 /\ Room
        /\ Waits(c, b, "write", len)
     \/ /\ WriteEnds(b) # {} /\ len = 0
        /\ Reply(c)
        /\ UNCHANGED <<pending, scan>>
     \/ /\ WriteEnds(b) = {} \/ (len # 0 /\ ~Room)
        /\ Refused(c)
  /\ UNCHANGED <<pipes, next_badge, next_id, gone, owed>>

\* PIPE_OPEN, a0 = 0.  The slot is given back when the kernel has no channel left, or
\* the caller is gone before the reply.
PipeOpen ==
  LET i == CHOOSE s \in Slots : pipes[s].id = 0 /\ \A k \in 1 .. s - 1 : pipes[k].id # 0 IN
  /\ scan = NoScan /\ next_badge < MaxBadge /\ next_id < MaxBadge
  /\ \E s \in Slots : pipes[s].id = 0
  /\ next_id' = next_id + 1 /\ next_badge' = next_badge + 1
  /\ \E ok \in BOOLEAN :
       pipes' = [pipes EXCEPT ![i] = [NoPipe EXCEPT !.id = IF ok THEN next_id' ELSE 0,
                                                    !.read_badge = next_badge']]
  /\ owed' = [owed EXCEPT ![i] = <<>>]
  /\ UNCHANGED <<pending, scan, call, gone>>

\* PIPE_OPEN, a0 = 1: the pipe gets its write end only once the reply has gone out.
PipeAttach(i) ==
  /\ scan = NoScan /\ next_badge < MaxBadge
  /\ pipes[i].id # 0 /\ pipes[i].write_badge = 0
  /\ next_badge' = next_badge + 1
  /\ \E ok \in BOOLEAN :
       pipes' = IF ok THEN [pipes EXCEPT ![i].write_badge = next_badge'] ELSE pipes
  /\ UNCHANGED <<pending, next_id, scan, call, gone, owed>>

\* client_gone: the end closes, its waiting requests are dropped, those of the other
\* end are settled.
DropPending(b) == [j \in Entries |-> IF pending[j].badge = b THEN Free ELSE pending[j]]

PipeClientGone(b) ==
  LET ends == ReadEnds(b) \cup WriteEnds(b)
      i == CHOOSE s \in ends : TRUE
  IN
  /\ scan = NoScan /\ b \in 1 .. next_badge /\ b \notin gone
  /\ gone' = gone \cup {b}
  /\ IF ends = {} THEN UNCHANGED <<pipes, pending, scan>>
     ELSE /\ pipes' = IF i \in ReadEnds(b) THEN [pipes EXCEPT ![i].read_badge = 0]
                                           ELSE [pipes EXCEPT ![i].write_badge = 0]
          /\ pending' = DropPending(b)
          /\ scan' = [round |-> 1, pipe |-> i, slot |-> 1, gone |-> i]
  /\ UNCHANGED <<next_badge, next_id, call, owed>>

\* The caller's process ends while the call waits, at any moment.
Kill(c) ==
  /\ call[c].state = "waiting"
  /\ Reply(c)
  /\ UNCHANGED <<pipes, pending, next_badge, next_id, scan, gone, owed>>

-----------------------------------------------------------------------------

PipeInit ==
  /\ pipes = [i \in Slots |-> NoPipe]
  /\ pending = [j \in Entries |-> Free]
  /\ next_badge = 0 /\ next_id = 0
  /\ scan = NoScan
  /\ call = [c \in Calls |-> [state |-> "unused", badge |-> 0]]
  /\ gone = {}
  /\ owed = [i \in Slots |-> <<>>]

PipeNext ==
  \/ PipeOpen \/ FreePipe
  \/ \E i \in Slots : PipeAttach(i) \/ SettleEnd(i)
  \/ \E i \in Slots, j \in Entries :
       SettleRead(i, j) \/ SettleEof(i, j) \/ SettlePeerGone(i, j) \/ SettleWrite(i, j)
  \/ \E c \in Calls : Kill(c)
  \/ \E c \in Calls, b \in 1 .. MaxBadge, n \in 0 .. PipeSize : StRead(c, b, n) \/ StWrite(c, b, n)
  \/ \E b \in 1 .. MaxBadge : PipeClientGone(b)

PipeSpec == PipeInit /\ [][PipeNext]_pipe_vars

-----------------------------------------------------------------------------
(* Properties.                                                               *)

\* The ring holds exactly the bytes written and not yet read, in the order they were written, each
\* write in one piece, around the end of the ring; so every read, which takes the first of them,
\* gives none twice, none invented and none out of order (settle, main.c:69-90).
BytesInOrder == \A i \in Slots : pipes[i].id # 0 => Content(pipes[i]) = owed[i]

\* Once a request or a CLIENT_GONE is dealt with, no waiting request could be answered:
\* no reader waits at data or at EOF, no writer at room or without a reader
\* (settle_all and its two rounds, main.c:98).
Quiet ==
  scan = NoScan =>
    \A i \in Slots, j \in Entries :
      pipes[i].id # 0 /\ pending[j].badge # 0 =>
        /\ AnswerReader(i, j) => pipes[i].count = 0 /\ pipes[i].write_badge # 0
        /\ AnswerWriter(i, j) => pipes[i].read_badge # 0 /\ ~Fits(pipes[i], pending[j].max)

\* A waiting request belongs to an open end of a pipe in use, of the direction it
\* reads or writes in: closing an end leaves none that could be given the bytes of a
\* later pipe or block the table (client_gone, main.c:247).
PendingIsOpen ==
  \A j \in Entries : pending[j].badge # 0 =>
    IF pending[j].op = "read" THEN ReadEnds(pending[j].badge) # {} ELSE WriteEnds(pending[j].badge) # {}

\* A call that waits on an open end is in the table, once: none is overwritten or
\* forgotten, however full the table is (queue, main.c:106).
WaitersAreKept ==
  \A c \in Calls :
    /\ Cardinality({j \in Entries : pending[j].badge # 0 /\ pending[j].call = c}) <= 1
    /\ call[c].state = "waiting" /\ call[c].badge \notin gone =>
         \E j \in Entries : pending[j].badge # 0 /\ pending[j].call = c

\* The table of waiting calls is in order: every waiting call has one entry, every entry is of an open
\* end, and none is left that could be answered (settle_all, queue, client_gone).
WaitersInv == PipeTypeOK /\ PendingIsOpen /\ WaitersAreKept /\ Quiet
=============================================================================
