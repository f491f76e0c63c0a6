------------------------------ MODULE Console -------------------------------
(***************************************************************************)
(* The console service of Foundation, src/foundation/services/console/main.c: *)
(* streams of one screen and keyboard, a ring of keys typed ahead, a line       *)
(* editor, and one FIFO of requests that wait for input.                       *)
(*                                                                         *)
(* The service has one thread: it receives a request, a CLIENT_GONE or a        *)
(* time-out, deals with it, polls the keyboard and the UART and gives keys to    *)
(* the waiting requests, one per step, because callers may be killed between     *)
(* two replies.  A key is its number and its kind; a byte of a line is the       *)
(* number of its key and its place in that key's UTF-8 form.  Drawing, and       *)
(* requests that only draw or report, change none of this and are left out.      *)
(* Some names begin with Con or con_ so that a module can extend Pipe too.       *)
(***************************************************************************)
EXTENDS Naturals, Sequences, SequencesExt

CONSTANTS
  NStreams,   \* STREAMS
  NWaiting,   \* PENDING
  NKeys,      \* KEYS
  LineMax,    \* LINE_MAX
  Kinds,      \* the keys typed: among a, wide, enter, back, up, ctrl_c, ctrl_d
  Maxes,      \* the sizes of reads, which are also what the answers can hold
  NConCalls,  \* bound: the calls made, each with a token of its own, numbered in their order
  MaxOpens,   \* bound: the streams opened, and so the badges given out
  MaxTyped    \* bound: the keys typed

ASSUME ConsoleAssumption ==
  /\ NStreams \in Nat /\ NWaiting \in Nat /\ NKeys \in Nat \ {0} /\ LineMax \in Nat \ {0} /\ Maxes \subseteq Nat
  /\ NConCalls \in Nat /\ MaxOpens \in Nat /\ MaxTyped \in Nat

VARIABLES
  streams,      \* streams[i]: badge (0: free), read (FND_OPEN_READ)
  con_next_badge,
  mode,         \* "line" or "raw"
  con_pending,  \* the waiting requests, oldest first: call (its token), op, max
  break_token,  \* the call that waits for Ctrl+C (0: none) and the badge it was made on
  break_badge,
  keys, key_head, key_count,          \* the ring
  edit, ready, ready_pos, ready_eof,  \* the line being edited, the finished line and how far it is read
  todo,         \* what the thread does before it receives again
  con_call,     \* con_call[c]: whether a call was made and waits, and the badge it waits on
  con_gone,     \* badges whose CLIENT_GONE was received
  typed,        \* the number of keys typed so far (not in the code)
  ahead,        \* the keys accepted and not yet used, in order (not in the code)
  con_owed      \* the bytes of finished lines not yet read, in order (not in the code)

input == <<keys, key_head, key_count, ahead>>
line  == <<edit, ready, ready_pos, ready_eof, con_owed>>
desk  == <<streams, con_next_badge, mode, break_token, break_badge, con_gone>>
con_vars == <<desk, con_pending, input, line, todo, con_call, typed>>

ConSlots == 1 .. NStreams
ConCalls == 1 .. NConCalls
Given == 1 .. MaxOpens   \* badges
NoKey == <<0, "none">>
Poll == <<"poll", 0>>
Dispatch == <<"dispatch", 0>>
AnswerKey(c) == <<"key", c>>

----------------------------------------------------------------------------
(* Replies and keys *)

\* reply succeeds when the caller still waits; the call is over in any case.
Waiting(c) == con_call[c].state = "waiting"
ConOver == [state |-> "over", badge |-> 0]
ConReply(S) == con_call' = [c \in ConCalls |-> IF c \in S THEN ConOver ELSE con_call[c]]

\* encode: the UTF-8 form of a character
ConBytes(k) == IF k[2] = "wide" THEN <<<<k[1], 1>>, <<k[1], 2>>>> ELSE <<<<k[1], 1>>>>
IsChar(k) == k[2] \in {"a", "wide", "ctrl_c", "ctrl_d"}
IsCtrl(k) == k[2] \in {"ctrl_c", "ctrl_d"}

\* The ring: what it holds, and the oldest key taken from it (what its place holds then does not matter).
Queued == [j \in 1 .. key_count |-> keys[(key_head + j - 1) % NKeys]]
AfterTake == [head |-> (key_head + 1) % NKeys, count |-> key_count - 1, keys |-> [keys EXCEPT ![key_head] = NoKey]]
TakeKey ==
  /\ key_head' = AfterTake.head /\ key_count' = AfterTake.count /\ keys' = AfterTake.keys
  /\ ahead' = Tail(ahead)

\* The oldest key taken and put back by unget_key
KeyIsLost == AfterTake
AfterUnget ==
  LET head == (AfterTake.head + NKeys - 1) % NKeys
  IN  [head |-> head, count |-> AfterTake.count + 1, keys |-> [AfterTake.keys EXCEPT ![head] = keys[key_head]]]
PutBack ==
  /\ key_head' = AfterUnget.head /\ key_count' = AfterUnget.count /\ keys' = AfterUnget.keys
  /\ UNCHANGED ahead

----------------------------------------------------------------------------
(* dispatch, one turn of its loop at a time *)

Dispatching == todo # <<>> /\ Head(todo) = Dispatch
ReadyToServe == con_pending # <<>> /\ con_pending[1].op = "read" /\ (ready # <<>> \/ ready_eof)
KeyToServe == Dispatching /\ ~ReadyToServe /\ con_pending # <<>> /\ key_count > 0

\* serve_ready: the next bytes of the finished line go to the oldest reader, gone or not.
ServeReady ==
  LET rest == Len(ready) - ready_pos
      n    == IF rest < con_pending[1].max THEN rest ELSE con_pending[1].max
      end  == ready_pos + n = Len(ready)
  IN  /\ Dispatching /\ ReadyToServe
      /\ ConReply({con_pending[1].call})
      /\ con_owed' = SubSeq(con_owed, n + 1, Len(con_owed))
      /\ ready' = IF end THEN <<>> ELSE ready
      /\ ready_pos' = IF end THEN 0 ELSE ready_pos + n
      /\ ready_eof' = (ready_eof /\ ~end)
      /\ con_pending' = Tail(con_pending)
      /\ UNCHANGED <<desk, input, edit, todo, typed>>

\* CON_READ_KEY, or a character for ST_READ in RAW mode.  The reply fails when the reader was killed
\* or a character is longer than the answer it can take; then the key is put back.
Wanted(k) == con_pending[1].op = "key" \/ (mode = "raw" /\ IsChar(k) /\ ~IsCtrl(k))
ConFits(k) == con_pending[1].op = "key" \/ Len(ConBytes(k)) <= con_pending[1].max
HandKey ==
  /\ KeyToServe /\ Wanted(keys[key_head])
  /\ \/ /\ Waiting(con_pending[1].call) /\ ConFits(keys[key_head])
        /\ ConReply({con_pending[1].call}) /\ TakeKey
     \/ /\ ~Waiting(con_pending[1].call) \/ ~ConFits(keys[key_head])
        /\ PutBack /\ UNCHANGED con_call
  /\ con_pending' = Tail(con_pending)
  /\ UNCHANGED <<desk, line, todo, typed>>

\* Other keys do not show in RAW mode.
SkipKey ==
  /\ KeyToServe /\ ~Wanted(keys[key_head]) /\ mode = "raw"
  /\ TakeKey
  /\ UNCHANGED <<desk, con_pending, line, todo, con_call, typed>>

\* line_key.  Backspace takes the continuation bytes and the byte they follow.
BackspaceByte == SubSeq(edit, 1, Len(edit) - 1)
Backspaced ==
  LET firsts == {j \in DOMAIN edit : edit[j][2] = 1}
  IN  IF firsts = {} THEN <<>> ELSE SubSeq(edit, 1, Max(firsts) - 1)
LineKey(k) ==
  \/ /\ k[2] = "enter"
     /\ ready' = edit \o ConBytes(k) /\ ready_pos' = 0 /\ edit' = <<>>
     /\ con_owed' = con_owed \o edit \o ConBytes(k) /\ UNCHANGED ready_eof
  \/ /\ k[2] # "enter"
     /\ edit' = CASE k[2] = "back" -> Backspaced
                  [] k[2] = "ctrl_c" -> <<>>
                  [] k[2] \in {"a", "wide"} /\ Len(edit) + Len(ConBytes(k)) < LineMax -> edit \o ConBytes(k)
                  [] OTHER -> edit
     /\ ready_eof' = (ready_eof \/ (k[2] = "ctrl_d" /\ edit = <<>>))
     /\ UNCHANGED <<ready, ready_pos, con_owed>>

EditKey ==
  /\ KeyToServe /\ con_pending[1].op = "read" /\ mode = "line"
  /\ LineKey(keys[key_head])
  /\ TakeKey
  /\ UNCHANGED <<desk, con_pending, todo, con_call, typed>>

DispatchEnd ==
  /\ Dispatching /\ ~ReadyToServe /\ (con_pending = <<>> \/ key_count = 0)
  /\ todo' = Tail(todo)
  /\ UNCHANGED <<desk, con_pending, input, line, con_call, typed>>

----------------------------------------------------------------------------
(* poll_keys *)

Polling == todo # <<>> /\ Head(todo) = Poll
\* The end of every turn of main's loop
Turn == <<Poll, Dispatch>>

\* take_break: the waiter is answered, the readers are interrupted, keys and line are dropped.
TakeBreak ==
  /\ ConReply({break_token} \cup {con_pending[j].call : j \in DOMAIN con_pending})
  /\ break_token' = 0 /\ con_pending' = <<>> /\ edit' = <<>>
  /\ key_count' = 0 /\ ahead' = <<>>
  /\ UNCHANGED <<keys, key_head, streams, con_next_badge, mode, break_badge, con_gone>>
  /\ UNCHANGED <<ready, ready_pos, ready_eof, con_owed>>

\* accept_key: a full ring drops the key.
AcceptKey(kind) ==
  LET k == <<typed + 1, kind>>
  IN  /\ Polling /\ typed < MaxTyped
      /\ typed' = typed + 1
      /\ \/ break_token # 0 /\ kind = "ctrl_c" /\ TakeBreak
         \/ /\ break_token = 0 \/ kind # "ctrl_c"
            /\ key_count < NKeys
            /\ keys' = [keys EXCEPT ![(key_head + key_count) % NKeys] = k]
            /\ key_count' = key_count + 1 /\ ahead' = Append(ahead, k)
            /\ UNCHANGED <<desk, con_pending, key_head, line, con_call>>
         \/ /\ break_token = 0 \/ kind # "ctrl_c"
            /\ key_count = NKeys
            /\ UNCHANGED <<desk, con_pending, input, line, con_call>>
      /\ UNCHANGED todo

PollEnd ==
  /\ Polling
  /\ todo' = Tail(todo)
  /\ UNCHANGED <<desk, con_pending, input, line, con_call, typed>>

----------------------------------------------------------------------------
(* Requests *)

Receiving == todo = <<>>
Open(b) == \E i \in ConSlots : streams[i].badge = b
ConReadable(b) == \E i \in ConSlots : streams[i].badge = b /\ streams[i].read
MakesCall(c, b) ==
  /\ Receiving /\ b \in 1 .. con_next_badge
  /\ \A d \in 1 .. c : con_call[d].state = "unused" <=> d = c

ConWaits(c, b) == con_call' = [con_call EXCEPT ![c] = [state |-> "waiting", badge |-> b]]

\* The receive times out.
Timeout == Receiving /\ todo' = Turn /\ UNCHANGED <<desk, con_pending, input, line, con_call, typed>>

\* DEV_OPEN.  The slot is given back when the kernel has no channel left (no badge is
\* marked then), or the caller is gone before the reply.
DevOpen(read) ==
  LET free == {i \in ConSlots : streams[i].badge = 0}
  IN  /\ Receiving /\ con_next_badge < MaxOpens /\ free # {}
      /\ con_next_badge' = con_next_badge + 1
      /\ \E badge \in {0, con_next_badge + 1} :
           streams' = [streams EXCEPT ![Min(free)] = [badge |-> badge, read |-> read]]
      /\ todo' = Turn
      /\ UNCHANGED <<mode, break_token, break_badge, con_gone, con_pending, input, line, con_call, typed>>

\* queue: ST_READ and CON_READ_KEY wait, then dispatch runs.
Queue(c, b, op, max) ==
  /\ Len(con_pending) < NWaiting
  /\ con_pending' = Append(con_pending, [call |-> c, op |-> op, max |-> max])
  /\ ConWaits(c, b) /\ todo' = <<Dispatch>> \o Turn
  /\ UNCHANGED <<desk, input, line, typed>>
ConRefused(c) == ConReply({c}) /\ todo' = Turn /\ UNCHANGED <<desk, con_pending, input, line, typed>>

ConStRead(c, b, max) ==
  /\ MakesCall(c, b)
  /\ \/ ConReadable(b) /\ Queue(c, b, "read", max)
     \/ (~ConReadable(b) \/ Len(con_pending) = NWaiting) /\ ConRefused(c)
ReadKey(c, b) ==
  /\ MakesCall(c, b)
  /\ \/ Open(b) /\ Queue(c, b, "key", 0)
     \/ (~Open(b) \/ Len(con_pending) = NWaiting) /\ ConRefused(c)

\* CON_READ_KEY with NOWAIT polls first; the key then goes to the caller, gone or not.
PollKey(c, b) ==
  /\ MakesCall(c, b) /\ Open(b)
  /\ ConWaits(c, b) /\ todo' = Turn \o <<AnswerKey(c)>> \o Turn
  /\ UNCHANGED <<desk, con_pending, input, line, typed>>
PollKeyEnd(c) ==
  /\ todo # <<>> /\ Head(todo) = AnswerKey(c)
  /\ ConReply({c})
  /\ IF con_pending = <<>> /\ key_count > 0 THEN TakeKey ELSE UNCHANGED input
  /\ todo' = Tail(todo)
  /\ UNCHANGED <<desk, con_pending, line, typed>>

SetMode(b, m) ==
  /\ Receiving /\ Open(b) /\ m # mode
  /\ mode' = m /\ todo' = Turn
  /\ UNCHANGED <<streams, con_next_badge, break_token, break_badge, con_gone, con_pending, input, line, con_call, typed>>

\* CON_BREAK_WAIT: one waiter per console
BreakWait(c, b) ==
  /\ MakesCall(c, b)
  /\ \/ /\ Open(b) /\ break_token = 0
        /\ break_token' = c /\ break_badge' = b /\ ConWaits(c, b) /\ todo' = Turn
        /\ UNCHANGED <<streams, con_next_badge, mode, con_gone, con_pending, input, line, typed>>
     \/ (~Open(b) \/ break_token # 0) /\ ConRefused(c)

\* client_gone frees the stream and forgets its break waiter; waiting readers stay in the FIFO.
ForgetsAny(b) == 0
BreakAfter(b) == IF break_badge = b THEN 0 ELSE break_token
ConClientGone(b) ==
  /\ Receiving /\ b \in 1 .. con_next_badge \ con_gone
  /\ con_gone' = con_gone \cup {b}
  /\ streams' = [i \in ConSlots |-> IF streams[i].badge = b THEN [streams[i] EXCEPT !.badge = 0] ELSE streams[i]]
  /\ break_token' = BreakAfter(b)
  /\ todo' = Turn
  /\ UNCHANGED <<con_next_badge, mode, break_badge, con_pending, input, line, con_call, typed>>

\* The caller's process ends while the call waits, at any moment.
ConKill(c) ==
  /\ Waiting(c)
  /\ ConReply({c})
  /\ UNCHANGED <<desk, con_pending, input, line, todo, typed>>

----------------------------------------------------------------------------
ConInit ==
  /\ streams = [i \in ConSlots |-> [badge |-> 0, read |-> FALSE]] /\ con_next_badge = 0
  /\ mode = "line" /\ con_pending = <<>> /\ break_token = 0 /\ break_badge = 0
  /\ keys = [j \in 0 .. NKeys - 1 |-> NoKey] /\ key_head = 0 /\ key_count = 0
  /\ edit = <<>> /\ ready = <<>> /\ ready_pos = 0 /\ ready_eof = FALSE
  /\ todo = <<>> /\ con_call = [c \in ConCalls |-> [state |-> "unused", badge |-> 0]] /\ con_gone = {}
  /\ typed = 0 /\ ahead = <<>> /\ con_owed = <<>>

ConNext ==
  \/ ServeReady \/ HandKey \/ SkipKey \/ EditKey \/ DispatchEnd
  \/ PollEnd \/ \E kind \in Kinds : AcceptKey(kind)
  \/ Timeout \/ \E read \in BOOLEAN : DevOpen(read)
  \/ \E b \in Given : ConClientGone(b) \/ \E m \in {"line", "raw"} : SetMode(b, m)
  \/ \E c \in ConCalls : ConKill(c) \/ PollKeyEnd(c)
  \/ \E c \in ConCalls, b \in Given :
       ReadKey(c, b) \/ PollKey(c, b) \/ BreakWait(c, b) \/ \E max \in Maxes : ConStRead(c, b, max)

ConSpec == ConInit /\ [][ConNext]_con_vars

----------------------------------------------------------------------------
(* Properties *)

\* Every accepted key is used once and in order, also when the reader it was meant for was killed
\* and it went back into the ring (unget_key); finished lines are read completely, in order and in
\* whatever pieces, none is overwritten by the next one, and a character is never cut
\* (line_key, serve_ready).
InputInOrder ==
  /\ Queued = ahead
  /\ con_owed = SubSeq(ready, ready_pos + 1, Len(ready))
  /\ ready_eof => ready = <<>>
  /\ Len(edit) < LineMax
  /\ \A j \in DOMAIN edit : edit[j][2] = 1 \/ (j > 1 /\ edit[j - 1] = <<edit[j][1], edit[j][2] - 1>>)

\* When the service receives again, no reader waits at keys or at a line it could be given, and
\* every call that waits is in the FIFO, once, or is the break waiter, unless its own stream was
\* closed (dispatch, take_break, client_gone).
ReadersAreServed ==
  LET places(c) == {j \in DOMAIN con_pending : con_pending[j].call = c}
  IN  /\ Receiving => ~ReadyToServe /\ (con_pending = <<>> \/ key_count = 0)
      /\ Receiving => \A c \in ConCalls :
           Waiting(c) => places(c) # {} \/ break_token = c \/ con_call[c].badge \in con_gone
      /\ \A c \in ConCalls : \A j, k \in places(c) : j = k
=============================================================================
