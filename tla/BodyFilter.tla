----------------------------- MODULE BodyFilter -----------------------------
(***************************************************************************)
(* The body filter of ngx_http_zstd_filter_module.c for one response:      *)
(* ngx_http_zstd_body_filter(), filter_add_data(), filter_get_buf(),       *)
(* filter_compress() and filter_copy_input(), between an upstream that     *)
(* hands over chains of buffers and a downstream that takes what the       *)
(* socket takes.  A callback runs to its return without interleaving (one  *)
(* thread per worker); `pc' is where the running callback is.              *)
(*                                                                         *)
(* Body bytes are numbered tokens.  Compressed output is made of units: a  *)
(* token (its compressed form), EPILOGUE (the end of the frame) and PREFIX *)
(* (the dcz header).  Buffers are numbered cells of memory that the        *)
(* filter's chains and the downstream refer to, so sharing is visible.     *)
(***************************************************************************)
EXTENDS Integers, Sequences, SequencesExt

CONSTANTS
  MaxTokens,   \* bound: tokens of a body
  MaxLinks,    \* bound: links an upstream hands over
  MaxBufs,     \* bound: zstd_buffers number
  BufSize,     \* units an output buffer holds (zstd_buffers size)
  Limits,      \* zstd_max_length values in use; -1 is unset
  PREFIX, EPILOGUE, NULL

Bufs == 1 .. MaxBufs

ASSUME BoundsAssumption ==
  /\ MaxTokens \in Nat /\ MaxLinks \in Nat
  /\ MaxBufs \in Nat \ {0} /\ BufSize \in Nat \ {0}
  /\ Limits \subseteq Int
ASSUME UnitsAssumption ==
  /\ NULL \notin Bufs
  /\ PREFIX # EPILOGUE
  /\ {PREFIX, EPILOGUE} \cap (1 .. MaxTokens) = {}

VARIABLES
  conf,      \* location conf and negotiation: [num, max_length, dcz]
  ctx,       \* ngx_http_zstd_ctx_t
  mem,       \* the output buffers
  pc,        \* where the running callback is
  in,        \* the callback's cursor on the caller's chain
  flush,     \* the callback's local flag: busy buffers need a push
  enc,       \* libzstd's stream state: [acc, stg, ended]
  held,      \* buffers the downstream has taken and not sent
  wire,      \* units sent
  closed,    \* a buffer with last_buf was sent
  broken,    \* the downstream returned NGX_ERROR
  room,      \* the socket is known to be writable
  buffered,  \* NGX_HTTP_GZIP_BUFFERED in r->connection->buffered
  up         \* upstream: [tokens, links, eof, mark] handed over so far

vars == <<conf, ctx, mem, pc, in, flush, enc, held, wire, closed, broken, room,
          buffered, up>>
downVars == <<held, wire, closed, broken, room>>

-----------------------------------------------------------------------------
(* Data *)

Units == (1 .. MaxTokens) \cup {PREFIX, EPILOGUE}

\* An input buffer: its tokens and the control flags the filter looks at.
Link == [data : Seq(1 .. MaxTokens), flush : BOOLEAN, last_buf : BOOLEAN]

\* An output buffer.  `memory' is ngx_buf_in_memory(): temporary is set.
Buf == [size : 0 .. BufSize, data : Seq(Units), flush : BOOLEAN,
        last_buf : BOOLEAN, memory : BOOLEAN, recycled : BOOLEAN]

\* create_temp_buf() and the recycled flag get_buf() sets: the writer never
\* postpones a recycled buffer.
NewBuf(size, data) ==
  [size |-> size, data |-> data, flush |-> FALSE, last_buf |-> FALSE,
   memory |-> TRUE, recycled |-> TRUE]

Tokens(m, n) == [i \in 1 .. n |-> m + i]

\* The tokens of a chain of links, and the units in a chain of buffers.
LinkData(chain) == FlattenSeq([i \in 1 .. Len(chain) |-> chain[i].data])
BufData(m, chain) == FlattenSeq([i \in 1 .. Len(chain) |-> m[chain[i]].data])

Take(s, n) == SubSeq(s, 1, IF n < Len(s) THEN n ELSE Len(s))
Drop(s, n) == SubSeq(s, n + 1, Len(s))

\* The prefix does not take any of the buffer's configured size.
Space(b) == b.size - Cardinality({i \in DOMAIN b.data : b.data[i] # PREFIX})

NewCtx ==
  [in |-> <<>>, buffer_in |-> <<>>,
   free |-> <<>>, busy |-> <<>>, out |-> <<>>, out_buf |-> NULL, bufs |-> 0,
   last |-> FALSE, redo |-> FALSE, flush |-> FALSE, done |-> FALSE,
   aborted |-> FALSE, nomem |-> FALSE, dcz_header_sent |-> FALSE,
   cctx_ready |-> FALSE, action |-> "COMPRESS", bytes_in |-> 0, bytes_out |-> 0]

Init ==
  /\ conf \in [num : Bufs, max_length : Limits, dcz : BOOLEAN]
  /\ ctx = NewCtx
  /\ mem = [b \in Bufs |-> NewBuf(0, <<>>)]
  /\ pc = "parked"
  /\ in = <<>>
  /\ flush = FALSE
  /\ enc = [acc |-> <<>>, stg |-> <<>>, ended |-> FALSE]
  /\ held = <<>> /\ wire = <<>> /\ closed = FALSE /\ broken = FALSE
  /\ room = FALSE
  /\ buffered = FALSE
  /\ up = [tokens |-> 0, links |-> 0, eof |-> FALSE, mark |-> 0]

-----------------------------------------------------------------------------
(* The upstream and nginx's event loop, external *)

\* Chains of at most two links; the last buffer of a body ends its chain.
Chains ==
  LET One(m) == {[data |-> Tokens(m, n), flush |-> f, last_buf |-> l] :
                   n \in 0 .. MaxTokens - m, f \in BOOLEAN, l \in BOOLEAN}
      Firsts == One(up.tokens)
  IN  {<<a>> : a \in Firsts}
        \cup UNION {{<<a, b>> : b \in One(up.tokens + Len(a.data))} :
                      a \in {x \in Firsts : ~x.last_buf}}

\* The upstream calls the filter chain with new buffers.
Feed(chain) ==
  /\ pc = "parked" /\ ~broken /\ ~ctx.aborted /\ ~up.eof
  /\ up.links + Len(chain) <= MaxLinks
  /\ LET n == up.tokens + Len(LinkData(chain))
         before(i) == up.tokens + Len(LinkData(SubSeq(chain, 1, i)))
         flushes == {i \in 1 .. Len(chain) : chain[i].flush \/ chain[i].last_buf}
     IN  up' = [tokens |-> n,
                links |-> up.links + Len(chain),
                eof |-> \E i \in 1 .. Len(chain) : chain[i].last_buf,
                mark |-> IF flushes = {} THEN up.mark
                         ELSE before(CHOOSE i \in flushes :
                                       \A j \in flushes : j <= i)]
  /\ in' = chain
  /\ pc' = "entry"
  /\ UNCHANGED <<conf, ctx, mem, flush, enc, downVars, buffered>>

\* The write filter asks for a write event only for buffers it may not
\* postpone: recycled, flush or last_buf ones.
Urgent == \E i \in 1 .. Len(held) :
            LET b == mem[held[i]] IN b.recycled \/ b.flush \/ b.last_buf

\* The socket became writable: ngx_http_writer() calls with no new input.
WriteEvent ==
  /\ pc = "parked" /\ ~broken /\ ~ctx.aborted
  /\ Urgent
  /\ pc' = "entry"
  /\ room' = TRUE
  /\ UNCHANGED <<conf, ctx, mem, in, flush, enc, held, wire, closed, broken,
                 buffered, up>>

\* A call with no input and nothing to push (a subrequest finished, a posted
\* event): any handler may call the output filter with a NULL chain.
IdleCall ==
  /\ pc = "parked" /\ ~broken /\ ~ctx.aborted
  /\ pc' = "entry"
  /\ UNCHANGED <<conf, ctx, mem, in, flush, enc, downVars, buffered, up>>

-----------------------------------------------------------------------------
(* The downstream filters, external *)

\* The write filter refuses an empty buffer that is not special.
ZeroSizeBuf(m, chain) ==
  \E i \in 1 .. Len(chain) :
    LET b == m[chain[i]] IN b.data = <<>> /\ (b.memory \/ ~(b.flush \/ b.last_buf))

\* ngx_http_next_body_filter(r, chain) without error: the first k of the
\* held and new buffers leave through the socket, at least one if there is
\* room; what was sent is drained from memory.
Pass(chain) ==
  LET queue == held \o chain
  IN  /\ ~broken
      /\ \E k \in 0 .. Len(queue) :
           /\ room /\ queue # <<>> => k > 0
           /\ wire' = wire \o BufData(mem, SubSeq(queue, 1, k))
           /\ closed' = (closed \/ \E i \in 1 .. k : mem[queue[i]].last_buf)
           /\ held' = SubSeq(queue, k + 1, Len(queue))
           /\ mem' = [b \in Bufs |-> IF \E i \in 1 .. k : queue[i] = b
                                     THEN [mem[b] EXCEPT !.data = <<>>]
                                     ELSE mem[b]]
      /\ room' = FALSE
      /\ UNCHANGED broken

\* ngx_http_next_body_filter() returns NGX_ERROR: the connection is dead.
PassFails ==
  /\ broken' = TRUE
  /\ UNCHANGED <<mem, held, wire, closed, room>>

\* ngx_chain_update_chains(): the sent buffers at the head of the busy chain
\* are stacked on the free chain.  m is memory after the call downstream.
UpdateChains(c, m, chain) ==
  LET queue == c.busy \o chain
      sent == CHOOSE k \in 0 .. Len(queue) :
                /\ \A i \in 1 .. k : m[queue[i]].data = <<>>
                /\ k < Len(queue) => m[queue[k + 1]].data # <<>>
  IN  [c EXCEPT !.busy = SubSeq(queue, sent + 1, Len(queue)),
                !.free = Reverse(SubSeq(queue, 1, sent)) \o @]

-----------------------------------------------------------------------------
(* libzstd's streaming encoder, external *)

\* What ZSTD_compressStream2() may do with the tokens of `inp', `space' units
\* of room and directive d: eat a prefix of the input, compress part of what
\* it has accumulated, put as much as fits.  It stops early only for lack of
\* room; a flush or an end that returns 0 leaves nothing behind.  `zrc' is an
\* estimate of what is left: an end may report bytes that turn out not to
\* exist (`coy'), the zero-output terminal call the filter is written for.
Outcomes(d, inp, space) ==
  LET Outcome(eat, keep, fin, coy) ==
        LET taken == enc.acc \o Take(inp, eat)
            cut == Len(taken) - keep
            ready == enc.stg \o Take(taken, cut)
                       \o (IF fin THEN <<EPILOGUE>> ELSE <<>>)
        IN  [put |-> Take(ready, space), stg |-> Drop(ready, space),
             acc |-> Drop(taken, cut), rest |-> Drop(inp, eat),
             fin |-> fin, coy |-> coy]
      All == UNION {{Outcome(eat, keep, fin, coy) :
                       keep \in 0 .. Len(enc.acc) + eat,
                       fin \in BOOLEAN, coy \in BOOLEAN} : eat \in 0 .. Len(inp)}
  IN  {o \in All :
         /\ o.rest # <<>> => o.stg # <<>>
         /\ d # "continue" /\ o.acc # <<>> => o.stg # <<>>
         /\ d = "end" /\ o.stg = <<>> => o.fin \/ enc.ended
         /\ o.fin => d = "end" /\ ~enc.ended /\ o.rest = <<>> /\ o.acc = <<>>
         /\ o.coy => o.fin /\ o.stg = <<>> /\ Len(o.put) = space}

\* The return value: 0 means that nothing is left to flush.
Zrc(o) == Len(o.stg) + (IF o.coy THEN 1 ELSE 0)

\* The encoder after the call; a completed frame leaves it ready for another.
EncAfter(o, d) ==
  [acc |-> o.acc, stg |-> o.stg,
   ended |-> (enc.ended \/ o.fin) /\ ~(d = "end" /\ Zrc(o) = 0)]

-----------------------------------------------------------------------------
(* ngx_http_zstd_body_filter(): entry *)

\* ctx->done: the call goes straight through.  The frame is complete, so the
\* upstream has nothing left and the chain is empty.
PassThrough ==
  /\ pc = "entry" /\ ctx.done
  /\ Pass(<<>>) \/ PassFails
  /\ pc' = "parked"
  /\ UNCHANGED <<conf, ctx, in, flush, enc, buffered, up>>

\* Mutant: a drained input buffer is taken for a first call.
NeedsInitWhenDrained == ctx.buffer_in = <<>>

\* The encoder session is opened once, whatever kind of link comes first.
NeedsInit == ~ctx.cctx_ready

\* A first call without any work returns before a context is acquired.
NothingToDo ==
  /\ pc = "entry" /\ ~ctx.done
  /\ NeedsInit /\ in = <<>> /\ ctx.in = <<>> /\ ctx.busy = <<>>
  /\ pc' = "parked"
  /\ room' = FALSE
  /\ UNCHANGED <<conf, ctx, mem, in, flush, enc, held, wire, closed, broken,
                 buffered, up>>

\* init_cctx(), once per response: a fresh encoder session, or a failure.
InitCctx ==
  /\ pc = "entry" /\ ~ctx.done
  /\ NeedsInit /\ ~(in = <<>> /\ ctx.in = <<>> /\ ctx.busy = <<>>)
  /\ \/ /\ ctx' = [ctx EXCEPT !.cctx_ready = TRUE]
        /\ enc' = [acc |-> <<>>, stg |-> <<>>, ended |-> FALSE]
        /\ UNCHANGED pc
     \/ /\ pc' = "failed"
        /\ UNCHANGED <<ctx, enc>>
  /\ UNCHANGED <<conf, mem, in, flush, downVars, buffered, up>>

\* Not short of buffers: busy buffers are pushed at the end of the call.
Begin ==
  /\ pc = "entry" /\ ~ctx.done /\ ctx.cctx_ready /\ ~ctx.nomem
  /\ buffered' = (buffered \/ in # <<>>)
  /\ flush' = (ctx.busy # <<>>)
  /\ pc' = "add"
  /\ UNCHANGED <<conf, ctx, mem, in, enc, downVars, up>>

\* The last call ran out of buffers: push the busy ones first.
BeginNomem ==
  /\ pc = "entry" /\ ~ctx.done /\ ctx.cctx_ready /\ ctx.nomem
  /\ buffered' = (buffered \/ in # <<>>)
  /\ \/ /\ Pass(<<>>)
        /\ ctx' = [UpdateChains(ctx, mem', <<>>)
                     EXCEPT !.out_buf = NULL, !.nomem = FALSE]
        /\ flush' = FALSE
        /\ pc' = "add"
     \/ /\ PassFails
        /\ pc' = "failed"
        /\ UNCHANGED <<ctx, flush>>
  /\ UNCHANGED <<conf, in, enc, up>>

-----------------------------------------------------------------------------
(* filter_add_data() and the max_length check *)

TooLong(bytes) == conf.max_length >= 0 /\ bytes > conf.max_length

\* Pending input, flush, end or redo: there is work without a new link.
AddPending ==
  /\ pc = "add"
  /\ ctx.buffer_in # <<>> \/ ctx.flush \/ ctx.last \/ ctx.redo
  /\ pc' = "buf"
  /\ UNCHANGED <<conf, ctx, mem, in, flush, enc, downVars, buffered, up>>

\* NGX_DECLINED: no work and no link.
AddNone ==
  /\ pc = "add"
  /\ ctx.buffer_in = <<>> /\ ~ctx.flush /\ ~ctx.last /\ ~ctx.redo
  /\ ctx.in = <<>> /\ in = <<>>
  /\ pc' = "deliver"
  /\ UNCHANGED <<conf, ctx, mem, in, flush, enc, downVars, buffered, up>>

\* Mutant: the caller's links overtake the retained ones.
TakeRetainedLast == in = <<>>

\* Links kept from earlier calls are read before the caller's.
TakeRetained == ctx.in # <<>>

\* Mutant: flush is looked at before last_buf.
SignalFlushFirst(link) ==
  IF link.flush THEN "flush" ELSE IF link.last_buf THEN "last" ELSE "none"

\* What a link asks for; one with both flags is the end.
Signal(link) ==
  IF link.last_buf THEN "last" ELSE IF link.flush THEN "flush" ELSE "none"

\* The next link.  One without data leaves buffer_in alone, and without a
\* signal it is skipped.
AddLink ==
  /\ pc = "add"
  /\ ctx.buffer_in = <<>> /\ ~ctx.flush /\ ~ctx.last /\ ~ctx.redo
  /\ ctx.in # <<>> \/ in # <<>>
  /\ LET link == IF TakeRetained THEN Head(ctx.in) ELSE Head(in)
         bytes == ctx.bytes_in + Len(link.data)
     IN  /\ ctx' = [ctx EXCEPT !.in = IF TakeRetained THEN Tail(@) ELSE @,
                               !.last = Signal(link) = "last",
                               !.flush = Signal(link) = "flush",
                               !.buffer_in = link.data,
                               !.bytes_in = bytes]
         /\ in' = IF TakeRetained THEN in ELSE Tail(in)
         /\ pc' = IF link.data = <<>> /\ Signal(link) = "none" THEN "add"
                  ELSE IF TooLong(bytes) THEN "failed"
                  ELSE "buf"
  /\ UNCHANGED <<conf, mem, flush, enc, downVars, buffered, up>>

-----------------------------------------------------------------------------
(* filter_get_buf() *)

\* The current buffer has room.
GetBufKeep ==
  /\ pc = "buf"
  /\ ctx.out_buf # NULL /\ Space(mem[ctx.out_buf]) > 0
  /\ pc' = "compress"
  /\ UNCHANGED <<conf, ctx, mem, in, flush, enc, downVars, buffered, up>>

NeedBuf == ctx.out_buf # NULL => Space(mem[ctx.out_buf]) = 0

\* The control flags of a recycled buffer are cleared.
ClearFlags(b) == [b EXCEPT !.flush = FALSE, !.last_buf = FALSE]

\* A recycled buffer.
GetBufFree ==
  /\ pc = "buf" /\ NeedBuf /\ ctx.free # <<>>
  /\ ctx' = [ctx EXCEPT !.free = Tail(@), !.out_buf = Head(ctx.free)]
  /\ mem' = [mem EXCEPT ![Head(ctx.free)] = ClearFlags(@)]
  /\ pc' = "compress"
  /\ UNCHANGED <<conf, in, flush, enc, downVars, buffered, up>>

MayAlloc == ctx.bufs < conf.num

\* A new buffer.  A small pledged size may shrink the first one, which also
\* carries the dcz header, in room of its own.
GetBufAlloc ==
  /\ pc = "buf" /\ NeedBuf /\ ctx.free = <<>> /\ MayAlloc
  /\ LET b == ctx.bufs + 1
         first == ctx.bufs = 0
         prefix == first /\ conf.dcz /\ ~ctx.dcz_header_sent
     IN  /\ ctx' = [ctx EXCEPT !.out_buf = b, !.bufs = b,
                               !.dcz_header_sent = @ \/ prefix]
         /\ \E size \in IF first THEN 1 .. BufSize ELSE {BufSize} :
              mem' = [mem EXCEPT ![b] =
                        NewBuf(size, IF prefix THEN <<PREFIX>> ELSE <<>>)]
  /\ pc' = "compress"
  /\ UNCHANGED <<conf, in, flush, enc, downVars, buffered, up>>

\* No memory for a new buffer.
GetBufFails ==
  /\ pc = "buf" /\ NeedBuf /\ ctx.free = <<>> /\ MayAlloc
  /\ pc' = "failed"
  /\ UNCHANGED <<conf, ctx, mem, in, flush, enc, downVars, buffered, up>>

\* Every buffer is in use: stop compressing until the downstream drains.
GetBufNomem ==
  /\ pc = "buf" /\ NeedBuf /\ ctx.free = <<>> /\ ~MayAlloc
  /\ ctx' = [ctx EXCEPT !.nomem = TRUE]
  /\ pc' = "deliver"
  /\ UNCHANGED <<conf, mem, in, flush, enc, downVars, buffered, up>>

-----------------------------------------------------------------------------
(* filter_compress() *)

NoMoreInput == ctx.in = <<>> /\ in = <<>>

\* Mutant: a pending flush waits for the action to change.
DirectiveActionOnly ==
  IF ctx.action = "END" \/ (ctx.last /\ NoMoreInput) THEN "end"
  ELSE IF ctx.action = "FLUSH" THEN "flush"
  ELSE "continue"

\* END as soon as nothing is queued behind the last buffer; a pending flush
\* is a flush even while the action is still COMPRESS.
Directive ==
  IF ctx.action = "END" \/ (ctx.last /\ NoMoreInput) THEN "end"
  ELSE IF ctx.action = "FLUSH" \/ ctx.flush THEN "flush"
  ELSE "continue"

\* The call left the frame open although the input is exhausted.
SwitchToEnd(o) ==
  /\ Zrc(o) = 0
  /\ ctx.last /\ ctx.action # "END" /\ Directive # "end"
  /\ o.rest = <<>> /\ NoMoreInput

\* Output is left behind: repeat with a flush, or with the end directive.
NextAction(o) ==
  IF (Zrc(o) > 0 /\ Directive = "end") \/ SwitchToEnd(o) THEN "END"
  ELSE IF Zrc(o) > 0 /\ ctx.action = "COMPRESS" THEN "FLUSH"
  ELSE IF Zrc(o) = 0 /\ ctx.action # "END" THEN "COMPRESS"
  ELSE ctx.action

\* The call that wrote the end of the frame.
Terminal(o) == Zrc(o) = 0 /\ ctx.last /\ Directive = "end"

\* The requested flush, or the frame, is complete.
Complete(o) == Zrc(o) = 0 /\ (ctx.flush \/ Terminal(o))

\* The bookkeeping that precedes the decision to emit.
Advance(o) ==
  [ctx EXCEPT !.buffer_in = o.rest,
              !.redo = Zrc(o) > 0 \/ SwitchToEnd(o),
              !.action = NextAction(o)]

\* The output buffer with what the call put into it.
Filled(o) == [mem[ctx.out_buf] EXCEPT !.data = @ \o o.put]

\* Just switched to END without output: the next iteration writes the end.
ForceEnd(o) == SwitchToEnd(o) /\ o.put = <<>>

\* An empty buffer is not queued, except at the end of the frame.
Emits(o) == ~ForceEnd(o) /\ (Filled(o).data # <<>> \/ Terminal(o))

\* A flush is satisfied by a call that leaves nothing behind.
FlushLeft(o) == ctx.flush /\ (Zrc(o) > 0 \/ ForceEnd(o))

\* Nothing to queue: the buffer stays current.  A flush that completed
\* without output is satisfied here.
Suppress(o) ==
  /\ ~Emits(o)
  /\ ctx' = [Advance(o) EXCEPT !.flush = FlushLeft(o)]
  /\ mem' = [mem EXCEPT ![ctx.out_buf] = Filled(o)]
  /\ buffered' = (buffered /\ (ctx.flush => FlushLeft(o)))
  /\ pc' = "add"

\* Mutant: an empty terminal buffer keeps `temporary'.
QueuedInMemory(o) ==
  [Filled(o) EXCEPT !.flush = IF Complete(o) THEN ctx.flush /\ ~ctx.last ELSE @,
                    !.last_buf = IF Complete(o) THEN Terminal(o) ELSE @]

\* The buffer as it is queued.  An empty (terminal) one is made special, so
\* that the writer accepts it.
Queued(o) ==
  [Filled(o) EXCEPT !.flush = IF Complete(o) THEN ctx.flush /\ ~ctx.last ELSE @,
                    !.last_buf = IF Complete(o) THEN Terminal(o) ELSE @,
                    !.memory = @ /\ Filled(o).data # <<>>,
                    !.recycled = @ /\ Filled(o).data # <<>>]

\* What bytes_out grows by.
Counted(o) == Len(Filled(o).data)

\* Mutant: the queued buffer stays current.
StaysCurrent == ctx.out_buf

\* A queued buffer is not current any more.
AfterQueueing == NULL

\* The buffer is queued for the downstream.
Emit(o) ==
  /\ Emits(o)
  /\ ctx' = [Advance(o) EXCEPT !.done = @ \/ Terminal(o),
                               !.flush = FlushLeft(o),
                               !.bytes_out = @ + Counted(o),
                               !.out = Append(@, ctx.out_buf),
                               !.out_buf = AfterQueueing]
  /\ mem' = [mem EXCEPT ![ctx.out_buf] = Queued(o)]
  /\ buffered' = (buffered /\ ~Complete(o))
  /\ pc' = IF Terminal(o) THEN "deliver" ELSE "add"

\* No memory for the chain link of a buffer that must be queued.
EmitFails(o) ==
  /\ Emits(o)
  /\ ctx' = Advance(o)
  /\ mem' = [mem EXCEPT ![ctx.out_buf] = Filled(o)]
  /\ pc' = "failed"
  /\ UNCHANGED buffered

Compress ==
  /\ pc = "compress"
  /\ \E o \in Outcomes(Directive, ctx.buffer_in, Space(mem[ctx.out_buf])) :
       /\ Suppress(o) \/ Emit(o) \/ EmitFails(o)
       /\ enc' = EncAfter(o, Directive)
  /\ UNCHANGED <<conf, in, flush, downVars, up>>

\* ZSTD_compressStream2() returns an error.
CodecFails ==
  /\ pc = "compress"
  /\ pc' = "failed"
  /\ UNCHANGED <<conf, ctx, mem, in, flush, enc, downVars, buffered, up>>

-----------------------------------------------------------------------------
(* ngx_http_zstd_body_filter(): delivery and return *)

\* Nothing to deliver and nothing to push: the unread part of the caller's
\* chain is copied, since its links are only lent for this call.
Park ==
  /\ pc = "deliver" /\ ctx.out = <<>> /\ ~flush
  /\ ctx' = [ctx EXCEPT !.in = @ \o in]
  /\ in' = <<>>
  /\ room' = FALSE
  /\ pc' = "parked"
  /\ UNCHANGED <<conf, mem, flush, enc, held, wire, closed, broken, buffered, up>>

\* No memory for a copied link.
ParkFails ==
  /\ pc = "deliver" /\ ctx.out = <<>> /\ ~flush /\ in # <<>>
  /\ pc' = "failed"
  /\ UNCHANGED <<conf, ctx, mem, in, flush, enc, downVars, buffered, up>>

\* The output chain goes downstream, sent buffers come back; the call
\* returns with the last buffer, else the loop runs again.
Deliver ==
  /\ pc = "deliver" /\ (ctx.out # <<>> \/ flush)
  /\ Pass(ctx.out)
  /\ ctx' = [UpdateChains(ctx, mem', ctx.out)
               EXCEPT !.out = <<>>, !.out_buf = NULL, !.nomem = FALSE]
  /\ flush' = FALSE
  /\ pc' = IF ctx.done THEN "parked" ELSE "add"
  /\ UNCHANGED <<conf, in, enc, buffered, up>>

DeliverFails ==
  /\ pc = "deliver" /\ (ctx.out # <<>> \/ flush)
  /\ PassFails
  /\ pc' = "failed"
  /\ UNCHANGED <<conf, ctx, in, flush, enc, buffered, up>>

\* The `failed' label.
Fail ==
  /\ pc = "failed"
  /\ ctx' = [ctx EXCEPT !.aborted = TRUE, !.done = TRUE]
  /\ pc' = "parked"
  /\ UNCHANGED <<conf, mem, in, flush, enc, downVars, buffered, up>>

-----------------------------------------------------------------------------

Step ==
  \/ PassThrough \/ NothingToDo \/ InitCctx \/ Begin \/ BeginNomem
  \/ AddPending \/ AddNone \/ AddLink
  \/ GetBufKeep \/ GetBufFree \/ GetBufAlloc \/ GetBufFails \/ GetBufNomem
  \/ Compress \/ CodecFails
  \/ Park \/ ParkFails \/ Deliver \/ DeliverFails \/ Fail

Next ==
  \/ \E chain \in Chains : Feed(chain)
  \/ WriteEvent
  \/ IdleCall
  \/ Step

\* A callback runs to its return, and a socket that is asked for a write
\* event and drains gets one, however often other handlers call in between.
Fairness == WF_vars(Step) /\ SF_vars(WriteEvent)

Spec == Init /\ [][Next]_vars
FairSpec == Spec /\ Fairness

-----------------------------------------------------------------------------
(* Properties *)

\* Everything between the client and the upstream, oldest first.
Pipeline ==
  wire \o BufData(mem, held) \o BufData(mem, ctx.out)
    \o (IF ctx.out_buf = NULL THEN <<>> ELSE mem[ctx.out_buf].data)
    \o enc.stg \o enc.acc \o ctx.buffer_in \o LinkData(ctx.in) \o LinkData(in)

\* Nothing is lost, repeated or reordered, and the frame is closed once,
\* behind all of the body: the pieces in flight always make up the frame of
\* the body handed over so far, whatever mix of short buffers, flushes,
\* retained links and partial sends they went through, and $zstd_bytes_out
\* counts exactly those that were queued.
StreamIntact ==
  /\ Pipeline \in {(IF ctx.dcz_header_sent THEN <<PREFIX>> ELSE <<>>)
                     \o Tokens(0, up.tokens) \o tail :
                       tail \in {<<>>, <<EPILOGUE>>}}
  /\ ctx.bytes_out =
       Len(wire) + Len(BufData(mem, held)) + Len(BufData(mem, ctx.out))

\* Every buffer the writer sees has bytes or is special: no "zero size buf
\* in writer" abort.
NoZeroSizeBuf == ~ZeroSizeBuf(mem, ctx.out)

\* A buffer is in one place: it is being filled, queued, in flight or free.
\* In particular no buffer that is being filled or free is still held
\* downstream with unsent bytes, and a call that starts short of buffers has
\* no current one, as the comment in body_filter() argues.
BuffersUnshared ==
  LET current == IF ctx.out_buf = NULL THEN <<>> ELSE <<ctx.out_buf>>
      places == current \o ctx.out \o ctx.busy \o ctx.free
  IN  /\ IsInjective(places)
      /\ \A i \in 1 .. Len(held) :
           mem[held[i]].data # <<>> => Contains(ctx.busy \o ctx.out, held[i])
      /\ pc = "entry" /\ ctx.nomem => ctx.out_buf = NULL

\* What the client receives is the frame of FrameStream.
Stream == INSTANCE FrameStream WITH
  dcz <- conf.dcz, fed <- up.tokens, eof <- up.eof, sent <- wire,
  aborted <- ctx.aborted

\* The filter implements the abstract stream: a prefix of one frame at any
\* time, complete if and only if the end of the response was marked.
StreamRefined == Stream!Spec

\* Once the upstream is done, the response is closed or given up.
ResponseCompletes == up.eof ~> closed \/ ctx.aborted \/ broken

\* What precedes a flush reaches the client without further input.
FlushReachesClient ==
  \A n \in 1 .. MaxTokens :
    up.mark = n ~> \/ \E i \in 1 .. Len(wire) : wire[i] = n
                   \/ ctx.aborted \/ broken
=============================================================================
