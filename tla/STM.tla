-------------------------------- MODULE STM ---------------------------------
(***************************************************************************)
(* Linen.Control.Monad.STM with the TMVar and TQueue operations of         *)
(* Linen.Control.Concurrent.STM.  A transaction is a BaseIO action that    *)
(* writes its TVars in place; `atomically` runs it under one global mutex  *)
(* and, when it ends in `retry`, sleeps and runs it again.  Here a         *)
(* transaction is a sequence of instructions on TMVars and one TQueue,     *)
(* with an optional alternative joined by orElse, and each attempt is one  *)
(* step.                                                                   *)
(***************************************************************************)
EXTENDS Naturals, Sequences, FiniteSets, SequencesExt

CONSTANTS Thread,   (* threads, each running one transaction                *)
          Cell,     (* TMVars                                               *)
          Queue,    (* the cell name that stands for the TQueue             *)
          Val,      (* values                                               *)
          Empty,    (* an empty TMVar, or nothing in hand                   *)
          Programs  (* the transactions a thread may run                    *)

Instruction ==
  [op : {"take", "put", "read", "tryTake", "tryPut"}, cell : Cell]
    \cup [op : {"write", "dequeue", "tryDequeue", "peek"}, cell : {Queue}]

(* A program with an empty alternative has no orElse. *)
Program == [main : Seq(Instruction), alt : Seq(Instruction)]

STMAssumption ==
  /\ Empty \notin Val /\ Programs \subseteq Program
  /\ IsFiniteSet(Thread) /\ IsFiniteSet(Cell)

Looks(i) == i.op \in {"read", "peek"}
CanRetry(i) == i.op \in {"take", "put", "read", "dequeue", "peek"}
Takes(i) == i.op \in {"take", "tryTake", "dequeue", "tryDequeue"}

(* A transaction that writes only after its last chance to retry, as each  *)
(* operation of the library does, and whose one hand is enough: it takes   *)
(* one value at most, and none if it brings one.                           *)
Brings(p) == Head(p.main).op \in {"put", "write"}

OneHandSuffices(instructions, brings) ==
  \A k \in DOMAIN instructions :
    /\ CanRetry(instructions[k]) => \A j \in 1..k-1 : Looks(instructions[j])
    /\ Takes(instructions[k]) =>
         ~brings /\ \A j \in 1..k-1 : ~Takes(instructions[j])
    /\ instructions[k].op = "write" =>
         brings /\ \A j \in 1..k-1 : Looks(instructions[j])

WritesLast(p) ==
  /\ p.main # <<>>
  /\ OneHandSuffices(p.main, Brings(p)) /\ OneHandSuffices(p.alt, Brings(p))

VARIABLES heap,     (* the TVars of the TMVars                              *)
          queue,    (* those of the TQueue: readEnd and writeEnd            *)
          program,  (* the transaction of each thread                       *)
          hand,     (* the value a thread brings to put or leaves with      *)
          running   (* threads whose atomically has not returned            *)

vars == <<heap, queue, program, hand, running>>

TypeOK ==
  /\ heap \in [Cell -> Val \cup {Empty}]
  /\ queue \in [readEnd : Seq(Val), writeEnd : Seq(Val)]
  /\ program \in [Thread -> Programs]
  /\ hand \in [Thread -> Val \cup {Empty}]
  /\ running \in SUBSET Thread

(* The queue the two lists stand for. *)
Contents == queue.readEnd \o Reverse(queue.writeEnd)

(* Where a value is: in one TMVar, in the queue or in one hand. *)
PlacesOf(v) ==
  Cardinality({c \in Cell : heap[c] = v})
    + Cardinality({t \in Thread : hand[t] = v})
    + Cardinality({i \in DOMAIN Contents : Contents[i] = v})

(* Threads that begin with a put or a write bring a value; the others come *)
(* with empty hands.  The queue holds at most three values at the start.   *)
Init ==
  /\ program \in [Thread -> Programs]
  /\ heap \in [Cell -> Val \cup {Empty}]
  /\ hand \in [Thread -> Val \cup {Empty}]
  /\ \A t \in Thread : hand[t] # Empty <=> Brings(program[t])
  /\ queue \in [readEnd : SeqOf(Val, 1), writeEnd : SeqOf(Val, 2)]
  /\ \A v \in Val : PlacesOf(v) = 1
  /\ running = Thread
-----------------------------------------------------------------------------
(* The state of an attempt: the TVars it writes in place, the value in     *)
(* hand and whether it has not retried.                                    *)
Attempted(t) == [heap |-> heap, queue |-> queue, hand |-> hand[t], ok |-> TRUE]

Retry(s) == [s EXCEPT !.ok = FALSE]

(* `takeTMVar` *)
TakeTMVar(s, c) ==
  IF s.heap[c] # Empty
    THEN [s EXCEPT !.heap[c] = Empty, !.hand = s.heap[c]]
    ELSE Retry(s)

(* Bug: put does not look whether the variable is full. *)
PutOverwrites(s, c) == [s EXCEPT !.heap[c] = s.hand, !.hand = Empty]

(* `putTMVar` *)
PutTMVar(s, c) ==
  IF s.heap[c] = Empty
    THEN [s EXCEPT !.heap[c] = s.hand, !.hand = Empty]
    ELSE Retry(s)

(* `readTMVar`, as the condition it is in these transactions. *)
ReadTMVar(s, c) == IF s.heap[c] # Empty THEN s ELSE Retry(s)

(* `tryTakeTMVar`, `tryPutTMVar`: they succeed either way. *)
TryTakeTMVar(s, c) == IF s.heap[c] # Empty THEN TakeTMVar(s, c) ELSE s
TryPutTMVar(s, c) == IF s.heap[c] = Empty THEN PutTMVar(s, c) ELSE s

(* `writeTQueue`: onto the front of the back list. *)
WriteTQueue(s) ==
  [s EXCEPT !.queue.writeEnd = <<s.hand>> \o @, !.hand = Empty]

(* When the front list is empty the back one becomes the front, reversed. *)
Refill(s) ==
  IF s.queue.readEnd = <<>>
    THEN [s EXCEPT !.queue = [readEnd |-> Reverse(s.queue.writeEnd),
                              writeEnd |-> <<>>]]
    ELSE s

IsEmptyTQueue(s) == s.queue.readEnd = <<>> /\ s.queue.writeEnd = <<>>

(* `readTQueue` and `peekTQueue` retry on an empty queue, tryRead does not. *)
ReadTQueue(s) ==
  IF IsEmptyTQueue(s)
    THEN Retry(s)
    ELSE [Refill(s) EXCEPT !.queue.readEnd = Tail(@),
                           !.hand = Head(Refill(s).queue.readEnd)]

TryReadTQueue(s) == IF IsEmptyTQueue(s) THEN s ELSE ReadTQueue(s)

PeekTQueue(s) == IF IsEmptyTQueue(s) THEN Retry(s) ELSE Refill(s)

Exec(s, i) ==
  CASE i.op = "take"       -> TakeTMVar(s, i.cell)
    [] i.op = "put"        -> PutTMVar(s, i.cell)
    [] i.op = "read"       -> ReadTMVar(s, i.cell)
    [] i.op = "tryTake"    -> TryTakeTMVar(s, i.cell)
    [] i.op = "tryPut"     -> TryPutTMVar(s, i.cell)
    [] i.op = "write"      -> WriteTQueue(s)
    [] i.op = "dequeue"    -> ReadTQueue(s)
    [] i.op = "tryDequeue" -> TryReadTQueue(s)
    [] i.op = "peek"       -> PeekTQueue(s)

(* Bug: what follows a retry is still executed. *)
BindPastRetry(s, instructions) == FoldLeft(Exec, s, instructions)

(* `bind`: nothing after a retry is executed, and nothing before it is     *)
(* undone.                                                                 *)
Bind(s, instructions) ==
  FoldLeft(LAMBDA u, i : IF u.ok THEN Exec(u, i) ELSE u, s, instructions)

(* `orElse`: the second starts on the TVars the first left. *)
OrElse(s, p) ==
  LET first == Bind(s, p.main) IN
  IF first.ok \/ p.alt = <<>>
    THEN first
    ELSE Bind([first EXCEPT !.ok = TRUE], p.alt)

Store(r, t) ==
  /\ heap' = r.heap
  /\ queue' = r.queue
  /\ hand' = [hand EXCEPT ![t] = r.hand]
  /\ running' = IF r.ok THEN running \ {t} ELSE running
  /\ UNCHANGED program

(* One turn of the loop of `atomically`, under the global mutex. *)
Atomically(t) ==
  /\ t \in running
  /\ Store(OrElse(Attempted(t), program[t]), t)

Next == \E t \in Thread : Atomically(t)

(* A thread that sleeps wakes up and tries again. *)
Spec == Init /\ [][Next]_vars /\ \A t \in Thread : WF_vars(Atomically(t))
-----------------------------------------------------------------------------
(* No value is lost or duplicated: it is in one TMVar, in the queue or in  *)
(* one hand, whoever takes, puts, retries or falls back to an alternative. *)
ValuesConserved == TypeOK /\ \A v \in Val : PlacesOf(v) = 1

(* "Signal retry: abort this transaction": the TVars change only when a    *)
(* transaction commits.                                                    *)
RetryLeavesNoTrace ==
  [][<<heap, Contents>>' # <<heap, Contents>> => running' # running]_vars

(* Values leave the TQueue in the order they entered it, and turning the   *)
(* back list over is invisible.                                            *)
QueueIsFifo ==
  [][\/ Contents' = Contents
     \/ Contents # <<>> /\ Contents' = Tail(Contents)
     \/ Contents' # <<>> /\ Front(Contents') = Contents]_queue
=============================================================================
