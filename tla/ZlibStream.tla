----------------------------- MODULE ZlibStream -----------------------------
(* src/ffi/zlib.c: one inflate or deflate stream from its creation to its   *)
(* end.  A stretch of input stands for the number of bytes of output it is  *)
(* worth; of zlib only the contract that zlib.h states is modelled: how far *)
(* a call goes and what it returns.  Each turn of a driving loop is a step. *)
EXTENDS Naturals, SequencesExt

CONSTANTS Wire,        \* the inputs considered: sequences of stretches
          LINEN_ZLIB_CHUNK,
          Bad, End     \* of compressed input: corrupt, and the trailer

VARIABLES kind,         \* "inflate" or "deflate"
          stream,       \* what zlib has: "none", "open" or "gone"
          initialized, finished,
          held,         \* the program holds the handle
          call,         \* the call under way: "none", "feed" or "finish"
          wire,         \* input the program has not fed yet
          next_in,      \* input of this call that zlib has not taken
          inside,       \* output owed by zlib for the input it has taken
          out_buf,      \* output of this call
          due,          \* output the input taken so far is worth
          delivered,    \* output the program has received
          failed,       \* some call has failed
          touched       \* the last step made a call on the stream

vars == <<kind, stream, initialized, finished, held, call, wire, next_in,
          inside, out_buf, due, delivered, failed, touched>>

TypeOK ==
  /\ kind \in {"inflate", "deflate"} /\ stream \in {"none", "open", "gone"}
  /\ initialized \in BOOLEAN /\ finished \in BOOLEAN /\ held \in BOOLEAN
  /\ failed \in BOOLEAN /\ touched \in BOOLEAN
  /\ call \in {"none", "feed", "finish"}
  /\ wire \in Seq(Nat \cup {Bad, End}) /\ next_in \in Seq(Nat \cup {Bad, End})
  /\ inside \in Nat /\ out_buf \in Nat /\ due \in Nat /\ delivered \in Nat

Compressed(w) == {Bad, End} \cap Range(w) # {}

Init ==
  /\ kind \in {"inflate", "deflate"} /\ wire \in Wire
  /\ Compressed(wire) => kind = "inflate"
  /\ stream = "none" /\ initialized = FALSE /\ finished = FALSE /\ held = FALSE
  /\ call = "none" /\ next_in = <<>> /\ inside = 0 /\ out_buf = 0
  /\ due = 0 /\ delivered = 0 /\ failed = FALSE /\ touched = FALSE

least(a, b) == IF a < b THEN a ELSE b
worth(s) == FoldSeq(+, 0, s)

-----------------------------------------------------------------------------
(* zlib: what a call may take, produce and return *)

(* Stretches up to a corrupt one, or to the trailer. *)
plain == SelectInSeq(next_in, LAMBDA x : x \in {Bad, End})
payload == IF plain = 0 THEN next_in ELSE SubSeq(next_in, 1, plain - 1)

(* inflate() takes input until there is more output than room for it.  With *)
(* Z_FINISH it reports Z_BUF_ERROR short of the end of the stream.          *)
inflate(flush) ==
  LET enough == {n \in 0..Len(payload) :
                   inside + worth(SubSeq(payload, 1, n)) > LINEN_ZLIB_CHUNK}
      n == IF enough = {} THEN Len(payload) ELSE CHOOSE m \in enough : \A k \in enough : m <= k
      got == least(LINEN_ZLIB_CHUNK, inside + worth(SubSeq(payload, 1, n)))
      marker == IF enough = {} /\ plain # 0 THEN next_in[plain] ELSE 0
  IN  { [taken |-> n, produced |-> got,
         ret |-> CASE marker = End -> "Z_STREAM_END"
                   [] marker = Bad -> "Z_DATA_ERROR"
                   [] OTHER -> IF flush = "Z_FINISH" \/ (n = 0 /\ got = 0)
                               THEN "Z_BUF_ERROR" ELSE "Z_OK"] }

(* deflate() may keep what it has taken to itself until it is flushed, but  *)
(* leaves input only for want of room.                                      *)
deflate(flush) ==
  { r \in [taken : 0..Len(next_in), produced : 0..LINEN_ZLIB_CHUNK,
           ret : {"Z_OK", "Z_STREAM_END", "Z_BUF_ERROR"}] :
      LET has == inside + worth(SubSeq(next_in, 1, r.taken))
      IN  /\ r.produced <= has
          /\ r.taken < Len(next_in) => r.produced = LINEN_ZLIB_CHUNK
          /\ flush = "Z_FINISH" => r.produced = least(LINEN_ZLIB_CHUNK, has)
          /\ r.ret = IF flush = "Z_FINISH" /\ r.produced = has THEN "Z_STREAM_END"
                     ELSE IF next_in = <<>> /\ r.produced = 0 THEN "Z_BUF_ERROR"
                     ELSE "Z_OK" }

-----------------------------------------------------------------------------
(* linen_zlib_inflate_init, linen_zlib_deflate_init: without memory, or if  *)
(* zlib refuses, there is no handle. *)
Create(k) ==
  /\ kind = k /\ stream = "none" /\ ~failed
  /\ \/ /\ stream' = "open" /\ initialized' = TRUE /\ held' = TRUE
        /\ UNCHANGED failed
     \/ failed' = TRUE /\ UNCHANGED <<stream, initialized, held>>
  /\ touched' = FALSE
  /\ UNCHANGED <<kind, finished, call, wire, next_in, inside, out_buf, due, delivered>>

linen_zlib_inflate_init == Create("inflate")
linen_zlib_deflate_init == Create("deflate")

(* A call on a finished handle returns nothing at once. *)
Enter(k, name, input) ==
  /\ kind = k /\ held /\ call = "none" /\ ~finished
  /\ call' = name /\ next_in' = input /\ out_buf' = 0
  /\ touched' = FALSE
  /\ UNCHANGED <<kind, stream, initialized, finished, held, inside, due, delivered, failed>>

(* The feeding calls: the next n stretches. *)
Feed(k) ==
  \E n \in 1..Len(wire) :
    /\ Enter(k, "feed", SubSeq(wire, 1, n))
    /\ wire' = SubSeq(wire, n + 1, Len(wire))

linen_zlib_inflate_feed == Feed("inflate")
linen_zlib_deflate_feed == Feed("deflate")

(* The finishing calls. *)
Finish(k) == Enter(k, "finish", <<>>) /\ UNCHANGED wire

linen_zlib_inflate_finish == Finish("inflate")
linen_zlib_deflate_finish == Finish("deflate")

(* The loop stops and the call returns: with ended set, the stream is over; *)
(* a finishing call ends it in zlib too, whatever came of the loop.         *)
Return(out, ended) ==
  /\ call' = "none" /\ out_buf' = 0
  /\ delivered' = delivered + out
  /\ finished' = (ended \/ call = "finish")
  /\ IF call = "finish" THEN stream' = "gone" /\ initialized' = FALSE
     ELSE UNCHANGED <<stream, initialized>>

Continue(out) ==
  /\ out_buf' = out
  /\ UNCHANGED <<call, delivered, finished, stream, initialized>>

flush == IF call = "finish" THEN "Z_FINISH" ELSE "Z_NO_FLUSH"
spent(r) == r.taken = Len(next_in)
full(r) == r.produced = LINEN_ZLIB_CHUNK

(* Bugs: a full output buffer does not keep the loop going; Z_BUF_ERROR     *)
(* does not end it. *)
inflateDoneWhenSpent(r) ==
  \/ r.ret = "Z_STREAM_END"
  \/ r.ret \in {"Z_OK", "Z_BUF_ERROR"} /\ spent(r)

inflateDoneMissesBufError(r) ==
  r.ret = "Z_STREAM_END" \/ (r.ret = "Z_OK" /\ spent(r) /\ ~full(r))

(* When a turn of the loop is the last one. *)
inflateDone(r) ==
  \/ r.ret = "Z_STREAM_END"
  \/ r.ret = "Z_OK" /\ spent(r) /\ ~full(r)
  \/ r.ret = "Z_BUF_ERROR" /\ spent(r)

deflateDone(r) == r.ret = "Z_STREAM_END" \/ (spent(r) /\ ~full(r))

(* One turn of the loop.  An error, of zlib or for want of memory to grow   *)
(* the output, discards the output of the whole call. *)
Turn(results, Done(_)) ==
  \E r \in results :
    LET owed == worth(SubSeq(next_in, 1, r.taken))
    IN /\ touched' = TRUE
       /\ inside' = inside + owed - r.produced /\ due' = due + owed
       /\ next_in' = SubSeq(next_in, r.taken + 1, Len(next_in))
       /\ \/ r.ret = "Z_DATA_ERROR" /\ Return(0, FALSE) /\ failed' = TRUE
          \/ r.produced > 0 /\ Return(0, FALSE) /\ failed' = TRUE
          \/ /\ r.ret # "Z_DATA_ERROR" /\ Done(r)
             /\ Return(out_buf + r.produced, r.ret = "Z_STREAM_END")
             /\ UNCHANGED failed
          \/ /\ r.ret # "Z_DATA_ERROR" /\ ~Done(r)
             /\ Continue(out_buf + r.produced)
             /\ UNCHANGED failed
       /\ UNCHANGED <<kind, held, wire>>

linen_zlib_drive ==
  kind = "inflate" /\ call # "none" /\ Turn(inflate(flush), inflateDone)

linen_zlib_drive_deflate ==
  kind = "deflate" /\ call # "none" /\ Turn(deflate(flush), deflateDone)

(* Bug: the finalizer ends the stream whatever became of it. *)
FinalizeRegardless(k) ==
  /\ kind = k /\ held /\ call = "none"
  /\ held' = FALSE /\ touched' = TRUE /\ stream' = "gone"
  /\ UNCHANGED <<kind, initialized, finished, call, wire, next_in, inside, out_buf,
                 due, delivered, failed>>

(* The program drops the handle. *)
Finalize(k) ==
  /\ kind = k /\ held /\ call = "none"
  /\ held' = FALSE
  /\ touched' = (initialized /\ ~finished)
  /\ stream' = IF initialized /\ ~finished THEN "gone" ELSE stream
  /\ UNCHANGED <<kind, initialized, finished, call, wire, next_in, inside, out_buf,
                 due, delivered, failed>>

linen_zlib_inflate_finalizer == Finalize("inflate")
linen_zlib_deflate_finalizer == Finalize("deflate")

Next ==
  \/ linen_zlib_inflate_init \/ linen_zlib_inflate_feed \/ linen_zlib_inflate_finish
  \/ linen_zlib_deflate_init \/ linen_zlib_deflate_feed \/ linen_zlib_deflate_finish
  \/ linen_zlib_drive \/ linen_zlib_drive_deflate
  \/ linen_zlib_inflate_finalizer \/ linen_zlib_deflate_finalizer

Spec ==
  /\ Init /\ [][Next]_vars
  /\ WF_vars(linen_zlib_drive) /\ WF_vars(linen_zlib_drive_deflate)

-----------------------------------------------------------------------------
live == IF stream = "open" THEN {"z_stream"} ELSE {}
gone == IF stream = "gone" THEN {"z_stream"} ELSE {}

Contract == INSTANCE ForeignResource
  WITH Resource <- {"z_stream"}, touched <- IF touched THEN {"z_stream"} ELSE {}

(* The z_stream is not used after it was freed, nor freed twice, whether it *)
(* was ended, finished, dropped, or several of these. *)
KeepsContract == Contract!Spec /\ [][Contract!Call]_vars

(* As long as no call has failed, a feeding call takes all its input up to  *)
(* the end of the stream, and with inflate returns all that it decodes to,  *)
(* at the boundaries of the output chunk too, so that finish has nothing to *)
(* flush; what finish returns makes the output whole, in either direction.  *)
NothingWithheld ==
  call = "none" /\ ~failed =>
    /\ delivered + inside = due
    /\ finished \/ next_in = <<>>
    /\ kind = "inflate" \/ finished => inside = 0

(* The loop that drives zlib comes to an end. *)
CallsReturn == (call # "none") ~> (call = "none")

(* Crypto.Zlib: the z_stream is freed exactly once, by finish or by the     *)
(* finalizer of a dropped handle. *)
FreedWithItsHandle == stream = "open" => held
=============================================================================
