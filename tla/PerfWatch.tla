----------------------------- MODULE PerfWatch -----------------------------
(***************************************************************************)
(* KittyPerfWatch and KittyPerfTrap: hardware watchpoints through          *)
(* perf_event_open.  For each watch the kernel writes a record of every    *)
(* hit into a ring of words, and poll reads them while it goes on writing. *)
(*                                                                         *)
(* src/KittyMemory/KittyPerfEvent.cpp.  A word has eight bytes: a sample   *)
(* takes five of them, one for its header, and the record of lost hits     *)
(* three, so a header never wraps around and a payload may.  head and tail *)
(* only grow, as data_head and data_tail do.                               *)
(***************************************************************************)
EXTENDS Integers, Sequences, FiniteSets, SequencesExt

CONSTANTS
  Watch,   \* the watches a caller may add
  Size,    \* words in a ring, a power of two
  MaxHits  \* bound: how often a watched address is used

ASSUME SizeAssumption == Size \in Nat \ {0}

VARIABLES
  \* The kernel's.
  on,      \* the watches that are enabled
  ring, head, tail,
  lost,    \* hits since the last record for which there was no room
  ready,   \* the watches poll would return at once for
  hits,    \* so far
  room,    \* the hits there was room for; a ghost
  owner,   \* the watches whose file signals a trap
  \* The caller's.
  watches, \* _watches
  step,    \* of poll: "idle", "enable", "poll", "head", "read", "callback" or "disable"
  todo,    \* the watches the current loop has still to do, in order
  woken,   \* those poll returned for: POLLIN in revents
  end, at, \* consumeRecord's head and tail
  out,     \* the sample, four words of it, or <<>>
  told,    \* the hits the callback was told; a ghost
  passed   \* the hits consumeRecord went past; a ghost

kernel == <<on, ring, head, tail, lost, ready, hits, room, owner>>
watchVars == <<kernel, watches, step, todo, woken, end, at, out, told, passed>>

Free == [kind |-> "free", hit |-> 0, part |-> 0]
Length(kind) == IF kind = "sample" THEN 5 ELSE 3

WatchInit ==
  /\ on = {} /\ ring = [w \in Watch |-> [i \in 0..(Size - 1) |-> Free]]
  /\ head = [w \in Watch |-> 0] /\ tail = [w \in Watch |-> 0] /\ lost = [w \in Watch |-> 0]
  /\ ready = {} /\ hits = 0 /\ room = {} /\ owner = {}
  /\ watches = <<>> /\ step = "idle" /\ todo = <<>> /\ woken = {} /\ end = 0 /\ at = 0 /\ out = <<>>
  /\ told = {} /\ passed = {}

-----------------------------------------------------------------------------
(* The kernel.                                                             *)

\* A ring with a record put behind a position.
With(r, from, kind, hit) ==
  [i \in DOMAIN r |-> LET part == (i - from) % Size
                      IN  IF part < Length(kind) THEN [kind |-> kind, hit |-> hit, part |-> part] ELSE r[i]]

Watched(w) ==
  /\ w \in on /\ hits < MaxHits /\ hits' = hits + 1
  /\ LET first == IF lost[w] > 0 THEN 3 ELSE 0
         before == IF lost[w] > 0 THEN With(ring[w], head[w], "lost", 0) ELSE ring[w]
     IN  IF head[w] - tail[w] + first + 5 < Size
         THEN /\ ring' = [ring EXCEPT ![w] = With(before, head[w] + first, "sample", hits')]
              /\ head' = [head EXCEPT ![w] = @ + first + 5] /\ lost' = [lost EXCEPT ![w] = 0]
              /\ ready' = ready \cup {w} /\ room' = room \cup {hits'}
         ELSE lost' = [lost EXCEPT ![w] = @ + 1] /\ UNCHANGED <<ring, head, ready, room>>
  /\ UNCHANGED <<on, tail, owner, watches, step, todo, woken, end, at, out, told, passed>>

-----------------------------------------------------------------------------
(* The caller.                                                             *)

\* perf_event_open and mmap may fail.  A trap takes the file of the first watch,
\* whichever it has added.
Add(w, trap) ==
  /\ step = "idle" /\ w \notin Range(watches)
  /\ watches' = Append(watches, w)
  /\ owner' = IF trap THEN owner \cup {watches'[1]} ELSE owner
  /\ UNCHANGED <<on, ring, head, tail, lost, ready, hits, room, step, todo, woken, end, at, out, told, passed>>

\* A watch closed and added again has a new ring.
Clear ==
  /\ step = "idle" /\ watches # <<>>
  /\ watches' = <<>> /\ on' = {} /\ ready' = {} /\ owner' = {} /\ room' = passed /\ UNCHANGED passed
  /\ ring' = [w \in Watch |-> [i \in 0..(Size - 1) |-> Free]]
  /\ head' = [w \in Watch |-> 0] /\ tail' = head' /\ lost' = head'
  /\ UNCHANGED <<hits, step, todo, woken, end, at, out, told>>

Poll ==
  /\ step = "idle" /\ step' = "enable" /\ todo' = watches
  /\ UNCHANGED <<kernel, watches, woken, end, at, out, told, passed>>

\* If one cannot be enabled those before it stay so, and poll returns.
Enable ==
  /\ step = "enable"
  /\ \/ todo = <<>> /\ step' = "poll" /\ UNCHANGED <<on, todo>>
     \/ todo # <<>> /\ on' = on \cup {Head(todo)} /\ todo' = Tail(todo) /\ UNCHANGED step
     \/ todo # <<>> /\ step' = "idle" /\ todo' = <<>> /\ UNCHANGED on
  /\ UNCHANGED <<ring, head, tail, lost, ready, hits, room, owner, watches, woken, end, at, out, told, passed>>

\* poll returns at once if some watch is ready, else when the time is over: then, and
\* when there is no watch at all, the callback gets an empty sample.
PollOnce ==
  /\ step = "poll" /\ out' = <<>>
  /\ woken' = ready \cap Range(watches) /\ ready' = ready \ woken'
  /\ IF woken' = {} THEN step' = "callback" /\ todo' = <<>> ELSE step' = "head" /\ todo' = watches
  /\ UNCHANGED <<on, ring, head, tail, lost, hits, room, owner, watches, end, at, told, passed>>

\* The next watch's turn, or the callback's.
NextWatch == todo' = Tail(todo) /\ step' = IF todo' = <<>> THEN "callback" ELSE "head"

NotWoken ==
  /\ step = "head" /\ Head(todo) \notin woken /\ NextWatch
  /\ UNCHANGED <<kernel, watches, woken, end, at, out, told, passed>>

\* consumeRecord for one ready watch: data_head and data_tail are read once.
ReadHead ==
  /\ step = "head" /\ Head(todo) \in woken /\ step' = "read"
  /\ end' = head[Head(todo)] /\ at' = tail[Head(todo)]
  /\ UNCHANGED <<kernel, watches, todo, woken, out, told, passed>>

\* Faulty: copies on behind the end of the ring.
Bug_Payload(w, from) ==
  [i \in 1..4 |-> IF (from % Size) + i - 1 < Size THEN ring[w][(from % Size) + i - 1] ELSE Free]

\* What does not fit behind the offset is at the beginning.
Payload(w, from) == [i \in 1..4 |-> ring[w][(from + i - 1) % Size]]

\* Faulty: one record is enough.
Bug_Until(w) == at < end /\ at = tail[w]

\* The records from data_tail to the data_head read before.
Until(w) == at < end

\* Each sample takes the place of the one before.
ReadRecord ==
  /\ step = "read"
  /\ LET w == Head(todo)
         hdr == ring[w][at % Size]
     IN  /\ Until(w)
         /\ at' = at + Length(hdr.kind)
         /\ IF hdr.kind = "sample" THEN out' = Payload(w, at + 1) /\ passed' = passed \cup {hdr.hit}
            ELSE UNCHANGED <<out, passed>>
  /\ UNCHANGED <<kernel, watches, step, todo, woken, end, told>>

\* data_tail is what was read up to.
ReadEnd ==
  /\ step = "read" /\ ~Until(Head(todo)) /\ NextWatch
  /\ tail' = [tail EXCEPT ![Head(todo)] = at] /\ end' = 0 /\ at' = 0
  /\ UNCHANGED <<on, ring, head, lost, ready, hits, room, owner, watches, woken, out, told, passed>>

\* The callback says whether to stop.
Callback ==
  /\ step = "callback" /\ out' = <<>> /\ woken' = {}
  /\ \/ step' = "poll" /\ UNCHANGED todo
     \/ step' = "disable" /\ todo' = watches
  /\ told' = told \cup {word.hit : word \in Range(out)}
  /\ UNCHANGED <<kernel, watches, end, at, passed>>

Disable ==
  /\ step = "disable"
  /\ \/ todo = <<>> /\ step' = "idle" /\ UNCHANGED <<on, todo>>
     \/ todo # <<>> /\ on' = on \ {Head(todo)} /\ todo' = Tail(todo) /\ UNCHANGED step
     \/ todo # <<>> /\ step' = "idle" /\ todo' = <<>> /\ UNCHANGED on
  /\ UNCHANGED <<ring, head, tail, lost, ready, hits, room, owner, watches, woken, end, at, out, told, passed>>

Polling == Enable \/ PollOnce \/ NotWoken \/ ReadHead \/ ReadRecord \/ ReadEnd \/ Callback \/ Disable

WatchNext ==
  \/ \E w \in Watch : Watched(w) \/ \E trap \in BOOLEAN : Add(w, trap)
  \/ Clear \/ Poll \/ Polling

WatchSpec == WatchInit /\ [][WatchNext]_watchVars

-----------------------------------------------------------------------------
(* What the callback gets.                                                 *)

\* Whatever poll passes to its callback is empty or one hit's own record, whole even
\* where it wraps around the end of the ring, and no hit is told twice: the kernel may
\* write on, lose hits and start the ring over meanwhile.
SampleIsReal ==
  step = "callback" =>
    \/ out = <<>>
    \/ \E h \in (1..hits) \ told : out = [i \in 1..4 |-> [kind |-> "sample", hit |-> h, part |-> i]]

\* Every hit for which the ring had room is read from it, or polling ends: none waits in
\* the ring for another hit to wake the poll.
HitsHeard == []<>(room \subseteq passed \/ step = "idle")
=============================================================================
