----------------------------- MODULE SslProofs ------------------------------
(***************************************************************************)
(* Theorems about the parts of rust-openssl around a connection: streams   *)
(* (SslStream), callbacks (SslCallbacks), host names (VerifyHostname)      *)
(* and protocol lists (ProtocolLists).                                     *)
(***************************************************************************)
EXTENDS SslStream, SslCallbacks, VerifyHostname, ProtocolLists, FiniteSetTheorems, TLAPS

-----------------------------------------------------------------------------
(***************************************************************************)
(* SslStream, for blocking and non-blocking streams.  What make_error      *)
(* finds in StreamState can be older than the failure it reports: the      *)
(* retry flag is cleared by bread and bwrite but not by a flush, the error *)
(* survives the calls that succeed, and an alert's outcome is recorded and *)
(* ignored.  The invariant says for which states flag, error and last BIO  *)
(* call nevertheless belong together.                                      *)
(***************************************************************************)

Fields ==
  /\ error \in [kind : IoErrors \cup {"none"}, now : BOOLEAN]
  /\ retry \in {"none", "read", "write"}
  /\ op \in Ops \cup {"none"}
  /\ ret \in {-1, 0, 1, Pending}

\* A call that failed with the flag set failed in the BIO call that set it.
FlagIsOfThisCall ==
  op # "none" /\ ret = -1 /\ ~queue /\ retry # "none" =>
    /\ error.now /\ retriable_error(error.kind)
    /\ last = [call |-> IF retry = "read" THEN "bread" ELSE "bwrite", out |-> error.kind]

\* A flush, which leaves the flag alone, starts from a cleared one.
ClearedBeforeFlush == last = [call |-> "bwrite", out |-> "ok"] => retry = "none"

\* Errors are in the queue while the call that put them there is failing.
QueueIsOfThisCall == queue => unwound \/ (op # "none" /\ ret = -1)

NoResultYet == op # "none" => result = NoResult

StreamInv ==
  /\ Fields /\ FlagIsOfThisCall /\ ClearedBeforeFlush /\ QueueIsOfThisCall /\ NoResultYet
  /\ WantIsFresh

-----------------------------------------------------------------------------
\* A retry flag never comes without its error: what bread and bwrite record.
LEMMA Recorded ==
  ASSUME NEW out \in Outcomes, Fields, Record(out)
  PROVE  /\ error' \in [kind : IoErrors \cup {"none"}, now : BOOLEAN]
         /\ retriable_error(out) => error' = [kind |-> out, now |-> TRUE]
  BY DEF Fields, Record, Outcomes, IoErrors, retriable_error

LEMMA InitStreamInv == StreamInit => StreamInv
  BY DEF StreamInit, StreamInv, Fields, FlagIsOfThisCall, ClearedBeforeFlush, QueueIsOfThisCall,
         NoResultYet, WantIsFresh, NoError, NoResult, NoCall, Pending, Ops

\* new_base, and the calls as far as OpenSSL.
LEMMA InvCalls ==
  ASSUME StreamInv, new_base \/ CallEmpty \/ (\E o \in Ops : Call(o))
  PROVE  StreamInv'
<1> USE DEF StreamInv, Fields, FlagIsOfThisCall, ClearedBeforeFlush, QueueIsOfThisCall,
            NoResultYet, WantIsFresh, NoResult, NoCall, Pending
<1>1. CASE new_base
  BY <1>1 DEF new_base, NewBio, NoError
<1>2. CASE CallEmpty
  BY <1>2 DEF CallEmpty, ResultOf, bioVars
<1>3. CASE \E o \in Ops : Call(o)
  <2>1. PICK o \in Ops : Call(o)
    BY <1>3
  <2>2. error' \in [kind : IoErrors \cup {"none"}, now : BOOLEAN]
    BY <2>1 DEF Call
  <2> QED  BY <2>1, <2>2 DEF Call
<1> QED  BY <1>1, <1>2, <1>3

\* The BIO calls of OpenSSL.
LEMMA InvBioCalls ==
  ASSUME StreamInv, SslWrites \/ SslReads \/ SslFlushes \/ SslAlerts
  PROVE  StreamInv'
<1> USE DEF StreamInv, FlagIsOfThisCall, ClearedBeforeFlush, QueueIsOfThisCall,
            NoResultYet, WantIsFresh, NoResult, Pending
<1>1. CASE SslWrites
  <2>1. PICK out \in Outcomes :
          /\ bwrite(out) /\ last' = [call |-> "bwrite", out |-> out]
          /\ ret' = IF out = "ok" THEN Pending ELSE Failed(out)
    BY <1>1 DEF SslWrites
  <2>2. /\ error' \in [kind : IoErrors \cup {"none"}, now : BOOLEAN]
        /\ retriable_error(out) => error' = [kind |-> out, now |-> TRUE]
    BY <2>1, Recorded DEF bwrite
  <2>3. Fields' /\ ClearedBeforeFlush'
    BY <1>1, <2>1, <2>2 DEF SslWrites, bwrite, retriable_error, Fields, Failed, Running
  <2>4. FlagIsOfThisCall'
    BY <1>1, <2>1, <2>2 DEF SslWrites, bwrite, retriable_error
  <2> QED  BY <1>1, <2>3, <2>4 DEF SslWrites, Running
<1>2. CASE SslReads
  <2>1. PICK out \in Outcomes :
          /\ bread(out) /\ last' = [call |-> "bread", out |-> out]
          /\ ret' = IF out = "ok" THEN Pending ELSE Failed(out)
    BY <1>2 DEF SslReads
  <2>2. /\ error' \in [kind : IoErrors \cup {"none"}, now : BOOLEAN]
        /\ retriable_error(out) => error' = [kind |-> out, now |-> TRUE]
    BY <2>1, Recorded DEF bread
  <2>3. Fields' /\ ClearedBeforeFlush'
    BY <1>2, <2>1, <2>2 DEF SslReads, bread, retriable_error, Fields, Failed, Running
  <2>4. FlagIsOfThisCall'
    BY <1>2, <2>1, <2>2 DEF SslReads, bread, retriable_error
  <2> QED  BY <1>2, <2>3, <2>4 DEF SslReads, Running
<1>3. CASE SslFlushes
  <2>1. PICK out \in Outcomes \ {"zero"} :
          /\ ctrl(out) /\ last' = [call |-> "ctrl", out |-> out]
          /\ ret' = IF out = "ok" THEN Pending ELSE -1
    BY <1>3 DEF SslFlushes
  <2>2. retry = "none" /\ retry' = "none"
    BY <1>3, <2>1 DEF SslFlushes, ctrl
  <2>3. Fields'
    BY <1>3, <2>1, <2>2, Recorded DEF SslFlushes, ctrl, Fields
  <2> QED  BY <1>3, <2>1, <2>2, <2>3 DEF SslFlushes, Running
<1>4. CASE SslAlerts
  <2>1. PICK out \in Outcomes : bwrite(out) /\ last' = [call |-> "alert", out |-> out]
    BY <1>4 DEF SslAlerts
  <2>2. Fields'
    BY <1>4, <2>1, Recorded DEF SslAlerts, bwrite, Fields
  <2> QED  BY <1>4, <2>1, <2>2 DEF SslAlerts, Running
<1> QED  BY <1>1, <1>2, <1>3, <1>4

\* The other ways in which a call of OpenSSL ends, and the returns without an error.
LEMMA InvEnds ==
  ASSUME StreamInv, SslClosed \/ SslSucceeds \/ ReturnOk \/ Unwind
  PROVE  StreamInv'
<1> USE DEF StreamInv, Fields, FlagIsOfThisCall, ClearedBeforeFlush, QueueIsOfThisCall,
            NoResultYet, WantIsFresh, NoResult, NoCall, Pending
<1>1. CASE SslClosed
  BY <1>1 DEF SslClosed, Running, bioVars
<1>2. CASE SslSucceeds
  BY <1>2 DEF SslSucceeds, Running, bioVars
<1>3. CASE ReturnOk
  BY <1>3 DEF ReturnOk, Succeeded, Returns, ResultOf, bioVars
<1>4. CASE Unwind
  BY <1>4 DEF Unwind, Returns, ResultOf, take_panic
<1> QED  BY <1>1, <1>2, <1>3, <1>4

\* make_error.  The flag is looked at only after the queue, so FlagIsOfThisCall
\* applies where WantRead or WantWrite is reported.
LEMMA InvMakeError ==
  ASSUME StreamInv, make_error
  PROVE  StreamInv'
<1>1. /\ op' = "none" /\ UNCHANGED <<ret, last, unwound, retry>>
      /\ error' \in {error, NoError}
  BY DEF make_error, Returns, bioVars, take_error
<1>2. Fields' /\ FlagIsOfThisCall' /\ ClearedBeforeFlush' /\ NoResultYet'
  <2>1. error' \in [kind : IoErrors \cup {"none"}, now : BOOLEAN]
    <3>1. NoError \in [kind : IoErrors \cup {"none"}, now : BOOLEAN]
      BY DEF NoError
    <3> QED  BY <1>1, <3>1 DEF StreamInv, Fields
  <2> QED  BY <1>1, <2>1 DEF StreamInv, Fields, FlagIsOfThisCall, ClearedBeforeFlush, NoResultYet
<1>3. QueueIsOfThisCall'
  BY <1>1 DEF make_error, get_error, DrainQueue, StreamInv, QueueIsOfThisCall
<1>4. WantIsFresh'
  <2>1. CASE result'.kind \in {"WantRead", "WantWrite"}
    <3>1. /\ result'.kind = IF retry = "read" THEN "WantRead" ELSE "WantWrite"
          /\ result'.err = BioErrorOr("BUG")
          /\ op # "none" /\ ret = -1 /\ ~queue /\ retry # "none"
      BY <2>1 DEF make_error, get_error, ErrorOf, Returns, ResultOf, StreamError, StreamInv, Fields, Pending
    <3>2. /\ error.now /\ retriable_error(error.kind)
          /\ last = [call |-> IF retry = "read" THEN "bread" ELSE "bwrite", out |-> error.kind]
      BY <3>1 DEF StreamInv, FlagIsOfThisCall
    <3>3. BioErrorOr("BUG") = error
      BY <3>2 DEF BioErrorOr, NoError
    <3> QED  BY <1>1, <3>1, <3>2, <3>3 DEF WantIsFresh
  <2> QED  BY <2>1 DEF WantIsFresh
<1> QED  BY <1>2, <1>3, <1>4 DEF StreamInv

LEMMA StreamInvHolds == StreamSpec => []StreamInv
<1>1. StreamInv /\ [StreamNext]_streamVars => StreamInv'
  <2> SUFFICES ASSUME StreamInv, [StreamNext]_streamVars
               PROVE  StreamInv'
    OBVIOUS
  <2>1. CASE UNCHANGED streamVars
    BY <2>1 DEF streamVars, bioVars, StreamInv, Fields, FlagIsOfThisCall, ClearedBeforeFlush,
                QueueIsOfThisCall, NoResultYet, WantIsFresh
  <2> QED  BY <2>1, InvCalls, InvBioCalls, InvEnds, InvMakeError DEF StreamNext
<1> QED  BY <1>1, InitStreamInv, PTL DEF StreamSpec

-----------------------------------------------------------------------------
\* WantRead and WantWrite carry the error of this call's last BIO call, in the
\* direction that blocked, whatever earlier calls and alerts have left in StreamState:
\* what get_bio_error().unwrap_or_else(BUG) in make_error relies on.
THEOREM WantAlwaysFresh == StreamSpec => []WantIsFresh
<1>1. StreamInv => WantIsFresh  BY DEF StreamInv
<1> QED  BY <1>1, StreamInvHolds, PTL

\* Unless a panic passed through, no call leaves errors in the thread's queue: only
\* a failing call finds any, and make_error looks at the queue before all else.
THEOREM QueueAlwaysDrained == StreamSpec => []QueueDrained
<1>1. StreamInv => QueueDrained  BY DEF StreamInv, QueueIsOfThisCall, QueueDrained
<1> QED  BY <1>1, StreamInvHolds, PTL

-----------------------------------------------------------------------------
(***************************************************************************)
(* SslCallbacks.  The invariant: every closure is kept by one object, and  *)
(* the trampoline of a slot has the type of the closure that is in the     *)
(* extra data.                                                             *)
(***************************************************************************)

\* What a context or the Ssl keeps: the extra data, the trampolines and, for the
\* property, what was configured last.
Fn == [place : {"none", "ctx", "ssl"}, type : Types \union {"none"}]
Own == [data : [Slots -> [Types -> Nat]], fn : [Slots -> Fn], latest : [Slots -> Nat]]
CtxType == [state : {"none", "builder", "built"}, handle : BOOLEAN, own : Own]
SslType == [alive : BOOLEAN, ctx : Contexts \union {"none"}, initial : Contexts \union {"none"},
            own : Own]

\* Every box that a context or the Ssl will free is alive and is that of no other
\* owner, and the contexts of the Ssl are built.
Safe(cs, l, bs) ==
  /\ cs \in [Contexts -> CtxType] /\ l \in SslType /\ bs \in SUBSET (1 .. MaxBoxes)
  /\ BoxesOf(l.own) \subseteq bs
  /\ \A c \in Contexts : /\ BoxesOf(cs[c].own) \subseteq bs
                         /\ BoxesOf(cs[c].own) \intersect BoxesOf(l.own) = {}
  /\ \A c, d \in Contexts : c # d => BoxesOf(cs[c].own) \intersect BoxesOf(cs[d].own) = {}
  /\ l.alive => \A c \in {l.ctx, l.initial} : c \in Contexts /\ cs[c].state = "built"

\* What the program configured last on a context is in the extra data under the type
\* of the trampoline.
CtxConfigured(cs) ==
  \A c \in Contexts, s \in Slots :
    LET o == cs[c].own
    IN  IF o.fn[s] = NoFn THEN o.latest[s] = Null
        ELSE /\ o.fn[s].place = "ctx" /\ o.fn[s].type \in Types
             /\ o.latest[s] = Lost \/ o.latest[s] = o.data[s][o.fn[s].type]

\* The same for the Ssl, or its trampoline is a copy of that of a context.
Source(s, l) == IF s \in CopiedAgain THEN l.ctx ELSE l.initial
SslConfigured(cs, l) ==
  l.alive => \A s \in Slots :
    /\ s \notin {"verify", "tmp_dh"} => l.own.latest[s] = Null
    /\ s \in Copied /\ l.own.fn[s] # NoFn =>
         \/ /\ l.own.fn[s].place = "ssl" /\ l.own.fn[s].type \in Types
            /\ l.own.latest[s] = Lost \/ l.own.latest[s] = l.own.data[s][l.own.fn[s].type]
            /\ l.own.latest[s] # Null
         \/ l.own.latest[s] = Null /\ l.own.fn[s] = cs[Source(s, l)].own.fn[s]

CallbacksInv == Safe(ctx, ssl, boxes) /\ CtxConfigured(ctx) /\ SslConfigured(ctx, ssl)

\* A new object keeps nothing.
LEMMA EmptyOwn == Empty \in Own /\ BoxesOf(Empty) = {} /\ NoFn \in Fn
<1>1. Empty \in Own /\ NoFn \in Fn
  BY DEF Empty, Own, Fn, NoFn, Null
<1>2. BoxesOf(Empty) = {}
  BY DEF Empty, BoxesOf
<1>. QED BY <1>1, <1>2

\* What set_*_callback does to the boxes of its object, and to the slots.
LEMMA SetClosureBoxes ==
  ASSUME NEW o \in Own, NEW s \in Slots, NEW t \in Types, NEW w \in {"ctx", "ssl"}, NEW b \in Nat,
         NEW k \in BOOLEAN, CallbacksAssumption, NEW n, n = SetClosure(o, s, t, w, b, k)
  PROVE  n \in Own /\ BoxesOf(n) \subseteq BoxesOf(o) \union {b}
<1>1. n \in Own
  <2>1. Lost \in Nat
    BY DEF Lost, CallbacksAssumption
  <2>. DEFINE x == IF k THEN b ELSE o.data[s][t]
              y == IF k THEN b ELSE Lost
              f == [place |-> w, type |-> t]
  <2>2. x \in Nat /\ y \in Nat /\ f \in Fn
    BY <2>1 DEF Own, Fn
  <2>3. n = [o EXCEPT !.data[s][t] = x, !.fn[s] = f, !.latest[s] = y]
    BY DEF SetClosure
  <2>. HIDE DEF x, y, f
  <2>4. /\ n = [data |-> n.data, fn |-> n.fn, latest |-> n.latest]
        /\ n.data = [o.data EXCEPT ![s][t] = x]
        /\ n.fn = [o.fn EXCEPT ![s] = f] /\ n.latest = [o.latest EXCEPT ![s] = y]
    BY <2>3 DEF Own
  <2>5. n.data \in [Slots -> [Types -> Nat]]
    BY <2>2, <2>4 DEF Own
  <2>6. n.fn \in [Slots -> Fn] /\ n.latest \in [Slots -> Nat]
    BY <2>2, <2>4 DEF Own
  <2>. QED
    BY <2>4, <2>5, <2>6 DEF Own
<1>2. \A s2 \in Slots, t2 \in Types :
        n.data[s2][t2] = IF s2 = s /\ t2 = t /\ k THEN b ELSE o.data[s2][t2]
  BY DEF SetClosure, Own
<1>3. BoxesOf(n) \subseteq BoxesOf(o) \union {b}
  BY <1>2 DEF BoxesOf
<1>. QED
  BY <1>1, <1>3

LEMMA SetClosureDoes ==
  ASSUME NEW o \in Own, NEW s \in Slots, NEW t \in Types, NEW w \in {"ctx", "ssl"}, NEW b \in Nat,
         NEW k \in BOOLEAN, NEW n, n = SetClosure(o, s, t, w, b, k)
  PROVE  /\ n.fn[s].place = w /\ n.fn[s].type = t
         /\ n.latest[s] = Lost \/ (n.latest[s] = b /\ n.data[s][t] = b)
         /\ \A s2 \in Slots \ {s} :
              n.fn[s2] = o.fn[s2] /\ n.latest[s2] = o.latest[s2] /\ n.data[s2] = o.data[s2]
BY DEF SetClosure, Own, Fn

\* A new box is none that anybody keeps.
LEMMA FreshBox ==
  ASSUME CallbacksAssumption, boxes \in SUBSET (1 .. MaxBoxes), boxes # 1 .. MaxBoxes
  PROVE  Fresh \in 1 .. MaxBoxes /\ Fresh \notin boxes /\ Fresh \in Nat /\ Fresh # Null
<1>1. \E b \in 1 .. MaxBoxes : b \notin boxes
  OBVIOUS
<1>2. Fresh \in 1 .. MaxBoxes /\ Fresh \notin boxes
  BY <1>1 DEF Fresh
<1>. QED
  BY <1>2 DEF CallbacksAssumption, Null

LEMMA NothingYet ==
  NoCtx \in CtxType /\ NoSsl \in SslType /\ NoCtx.own = Empty /\ NoSsl.own = Empty /\ ~NoSsl.alive
BY EmptyOwn DEF NoCtx, NoSsl, CtxType, SslType

\* Contexts without references are freed, and nobody keeps their boxes.
LEMMA FreeContextsDoes ==
  ASSUME NEW cs, NEW l, NEW bs, Safe(cs, l, bs), FreeContexts(cs, l, bs)
  PROVE  /\ Safe(ctx', l, boxes')
         /\ \A c \in Contexts : ctx'[c] = cs[c] \/ ctx'[c] = NoCtx
         /\ \A c \in Contexts : Held(c, cs, l) => ctx'[c] = cs[c]
         /\ \A b \in bs : (\A c \in Contexts : b \in BoxesOf(cs[c].own) => Held(c, cs, l)) => b \in boxes'
<1>1. /\ ctx' = [c \in Contexts |-> IF c \in Freed(cs, l) THEN NoCtx ELSE cs[c]]
      /\ boxes' = bs \ UNION {BoxesOf(cs[c].own) : c \in Freed(cs, l)}
  BY DEF FreeContexts
<1>2. /\ \A c \in Contexts : ctx'[c] = cs[c] \/ ctx'[c] = NoCtx
      /\ \A c \in Contexts : Held(c, cs, l) => ctx'[c] = cs[c]
  BY <1>1 DEF Freed
<1>3. ctx' \in [Contexts -> CtxType]
  BY <1>1, NothingYet DEF Safe
<1>4. boxes' \in SUBSET (1 .. MaxBoxes)
  BY <1>1 DEF Safe
<1>5. \A c \in Contexts : c \notin Freed(cs, l) => BoxesOf(cs[c].own) \subseteq boxes'
  BY <1>1 DEF Safe, Freed
<1>6. \A c \in Contexts : /\ BoxesOf(ctx'[c].own) \subseteq boxes'
                           /\ BoxesOf(ctx'[c].own) \subseteq BoxesOf(cs[c].own)
  <2>1. TAKE c \in Contexts
  <2>2. CASE c \in Freed(cs, l)
    BY <1>1, <2>2, NothingYet, EmptyOwn
  <2>3. CASE c \notin Freed(cs, l)
    BY <1>1, <1>5, <2>3
  <2>. QED
    BY <2>2, <2>3
<1>7. BoxesOf(l.own) \subseteq boxes'
  BY <1>1 DEF Safe, Freed
<1>8. l.alive => \A c \in {l.ctx, l.initial} : c \in Contexts /\ ctx'[c].state = "built"
  BY <1>2 DEF Safe, Held
<1>9. /\ \A c \in Contexts : BoxesOf(ctx'[c].own) \intersect BoxesOf(l.own) = {}
      /\ \A c, d \in Contexts : c # d => BoxesOf(ctx'[c].own) \intersect BoxesOf(ctx'[d].own) = {}
  BY <1>6 DEF Safe
<1>10. ASSUME NEW b \in bs, \A c \in Contexts : b \in BoxesOf(cs[c].own) => Held(c, cs, l)
       PROVE  b \in boxes'
  BY <1>1, <1>10 DEF Freed
<1>. QED
  BY <1>2, <1>3, <1>4, <1>6, <1>7, <1>8, <1>9, <1>10 DEF Safe

LEMMA CallbacksInitInv == ASSUME CallbacksInit PROVE CallbacksInv
<1>1. Safe(ctx, ssl, boxes)
  BY NothingYet, EmptyOwn DEF CallbacksInit, Safe
<1>2. CtxConfigured(ctx)
  BY DEF CallbacksInit, CtxConfigured, NoCtx, Empty
<1>3. SslConfigured(ctx, ssl)
  BY NothingYet DEF CallbacksInit, SslConfigured
<1>. QED
  BY <1>1, <1>2, <1>3 DEF CallbacksInv

\* A step that leaves the Ssl alone and changes nothing of the built contexts.
LEMMA OtherContext ==
  ASSUME CallbacksInv, UNCHANGED ssl,
         \A c \in Contexts : ctx[c].state = "built" => ctx'[c].own = ctx[c].own
  PROVE  SslConfigured(ctx', ssl')
<1>1. ssl.alive => \A s \in Slots : Source(s, ssl) \in Contexts /\ ctx[Source(s, ssl)].state = "built"
  BY DEF CallbacksInv, Safe, Source
<1>. QED
  BY <1>1 DEF CallbacksInv, SslConfigured, Source

\* The actions one after the other.
LEMMA NewBuilderInv ==
  ASSUME CallbacksInv, NEW c \in Contexts, NewBuilder(c) PROVE CallbacksInv'
<1>. DEFINE n == [NoCtx EXCEPT !.state = "builder", !.handle = TRUE]
<1>1. n \in CtxType /\ n.own = Empty /\ n.state = "builder"
  BY NothingYet DEF CtxType, NoCtx
<1>2. /\ ctx' = [ctx EXCEPT ![c] = n] /\ UNCHANGED <<ssl, boxes, running>> /\ ctx[c].state = "none"
  BY DEF NewBuilder
<1>. HIDE DEF n
<1>3. /\ ctx \in [Contexts -> CtxType] /\ ctx'[c] = n
      /\ \A d \in Contexts \ {c} : ctx'[d] = ctx[d]
  BY <1>2 DEF CallbacksInv, Safe
<1>4. Safe(ctx, ssl, boxes)'
  BY <1>1, <1>2, <1>3, EmptyOwn, SMTT(30) DEF CallbacksInv, Safe
<1>5. CtxConfigured(ctx')
  BY <1>1, <1>3 DEF CallbacksInv, CtxConfigured, Empty
<1>6. SslConfigured(ctx', ssl')
  BY <1>2, <1>3, OtherContext
<1>. QED
  BY <1>4, <1>5, <1>6 DEF CallbacksInv

LEMMA SetOnContextInv ==
  ASSUME CallbacksAssumption, CallbacksInv, NEW c \in Contexts, NEW s \in Slots, NEW t \in Types,
         NEW k \in Stored, SetOnContext(c, s, t, k)
  PROVE  CallbacksInv'
<1>. DEFINE n == SetClosure(ctx[c].own, s, t, "ctx", Fresh, k)
<1>1. /\ ctx \in [Contexts -> CtxType] /\ ctx[c].own \in Own /\ boxes \in SUBSET (1 .. MaxBoxes)
      /\ ctx[c].state = "builder" /\ boxes # 1 .. MaxBoxes
  BY DEF CallbacksInv, Safe, CtxType, SetOnContext, NewBox
<1>2. /\ Fresh \in 1 .. MaxBoxes /\ Fresh \notin boxes /\ Fresh \in Nat /\ Fresh # Null
      /\ k \in BOOLEAN
  BY <1>1, FreshBox DEF Stored
<1>3. /\ n \in Own
      /\ BoxesOf(n) \subseteq BoxesOf(ctx[c].own) \union {Fresh}
      /\ n.fn[s].place = "ctx" /\ n.fn[s].type = t
      /\ n.latest[s] = Lost \/ (n.latest[s] = Fresh /\ n.data[s][t] = Fresh)
      /\ \A s2 \in Slots \ {s} : /\ n.fn[s2] = ctx[c].own.fn[s2]
                                 /\ n.latest[s2] = ctx[c].own.latest[s2]
                                 /\ n.data[s2] = ctx[c].own.data[s2]
  <2>1. n = SetClosure(ctx[c].own, s, t, "ctx", Fresh, k) /\ "ctx" \in {"ctx", "ssl"}
    OBVIOUS
  <2>. HIDE DEF n
  <2>. QED
    <3>1. n \in Own /\ BoxesOf(n) \subseteq BoxesOf(ctx[c].own) \union {Fresh}
      BY <1>1, <1>2, <2>1, SetClosureBoxes
    <3>2. /\ n.fn[s].place = "ctx" /\ n.fn[s].type = t
          /\ n.latest[s] = Lost \/ (n.latest[s] = Fresh /\ n.data[s][t] = Fresh)
      BY <1>1, <1>2, <2>1, SetClosureDoes
    <3>3. \A s2 \in Slots \ {s} :
            /\ n.fn[s2] = ctx[c].own.fn[s2] /\ n.latest[s2] = ctx[c].own.latest[s2]
            /\ n.data[s2] = ctx[c].own.data[s2]
      BY <1>1, <1>2, <2>1, SetClosureDoes
    <3>. QED
      BY <3>1, <3>2, <3>3
<1>4. /\ ctx' = [ctx EXCEPT ![c].own = n] /\ boxes' = boxes \union {Fresh}
      /\ UNCHANGED <<ssl, running>>
  BY DEF SetOnContext, Kept
<1>. HIDE DEF n
<1>5. /\ ctx' \in [Contexts -> CtxType]
      /\ ctx'[c].own = n /\ ctx'[c].state = "builder"
      /\ \A d \in Contexts \ {c} : ctx'[d] = ctx[d]
  BY <1>1, <1>3, <1>4 DEF CtxType
<1>6. \A d \in Contexts : Fresh \notin BoxesOf(ctx[d].own)
  BY <1>2 DEF CallbacksInv, Safe
<1>7. Safe(ctx, ssl, boxes)'
  <2>1. boxes' \in SUBSET (1 .. MaxBoxes)
    BY <1>1, <1>2, <1>4
  <2>2. /\ BoxesOf(ssl.own) \subseteq boxes /\ Fresh \notin BoxesOf(ssl.own)
        /\ \A d \in Contexts : BoxesOf(ctx[d].own) \subseteq boxes
    BY <1>2 DEF CallbacksInv, Safe
  <2>3. \A d \in Contexts : /\ BoxesOf(ctx'[d].own) \subseteq boxes'
                            /\ BoxesOf(ctx'[d].own) \intersect BoxesOf(ssl.own) = {}
    BY <1>3, <1>4, <1>5, <2>2 DEF CallbacksInv, Safe
  <2>4. \A d, e \in Contexts : d # e => BoxesOf(ctx'[d].own) \intersect BoxesOf(ctx'[e].own) = {}
    BY <1>3, <1>5, <1>6 DEF CallbacksInv, Safe
  <2>5. ssl.alive => \A d \in {ssl.ctx, ssl.initial} : d \in Contexts /\ ctx'[d].state = "built"
    BY <1>1, <1>5 DEF CallbacksInv, Safe
  <2>. QED
    BY <1>4, <1>5, <2>1, <2>2, <2>3, <2>4, <2>5 DEF CallbacksInv, Safe
<1>8. CtxConfigured(ctx')
  <2>. SUFFICES ASSUME NEW d \in Contexts, NEW s2 \in Slots
                PROVE  LET o == ctx'[d].own
                       IN  IF o.fn[s2] = NoFn THEN o.latest[s2] = Null
                           ELSE /\ o.fn[s2].place = "ctx" /\ o.fn[s2].type \in Types
                                /\ o.latest[s2] = Lost \/ o.latest[s2] = o.data[s2][o.fn[s2].type]
    BY DEF CtxConfigured
  <2>1. CASE d # c
    BY <1>5, <2>1 DEF CallbacksInv, CtxConfigured
  <2>2. CASE d = c /\ s2 = s
    BY <1>1, <1>3, <1>5, <2>2 DEF Own, NoFn
  <2>3. CASE d = c /\ s2 # s
    BY <1>1, <1>3, <1>5, <2>3 DEF Own, CallbacksInv, CtxConfigured
  <2>. QED
    BY <2>1, <2>2, <2>3
<1>9. SslConfigured(ctx', ssl')
  BY <1>1, <1>4, <1>5, OtherContext
<1>. QED
  BY <1>7, <1>8, <1>9 DEF CallbacksInv

LEMMA BuildInv ==
  ASSUME CallbacksInv, NEW c \in Contexts, build(c) PROVE CallbacksInv'
<1>1. /\ ctx \in [Contexts -> CtxType] /\ ctx[c].state = "builder"
      /\ ctx' = [ctx EXCEPT ![c].state = "built"] /\ UNCHANGED <<ssl, boxes, running>>
  BY DEF CallbacksInv, Safe, build
<1>2. /\ ctx' \in [Contexts -> CtxType]
      /\ \A d \in Contexts : ctx'[d].own = ctx[d].own
      /\ \A d \in Contexts : ctx[d].state = "built" => ctx'[d].state = "built"
  BY <1>1 DEF CtxType
<1>3. Safe(ctx, ssl, boxes)'
  BY <1>1, <1>2 DEF CallbacksInv, Safe
<1>4. CtxConfigured(ctx')
  BY <1>2 DEF CallbacksInv, CtxConfigured
<1>5. SslConfigured(ctx', ssl')
  BY <1>1, <1>2, OtherContext
<1>. QED
  BY <1>3, <1>4, <1>5 DEF CallbacksInv

\* Freeing contexts keeps what is configured, since the Ssl holds its contexts.
LEMMA FreeConfigured ==
  ASSUME NEW cs, NEW l, NEW bs, Safe(cs, l, bs), FreeContexts(cs, l, bs), CtxConfigured(cs),
         SslConfigured(cs, l)
  PROVE  CtxConfigured(ctx') /\ SslConfigured(ctx', l)
<1>1. /\ \A c \in Contexts : ctx'[c] = cs[c] \/ ctx'[c] = NoCtx
      /\ \A c \in Contexts : Held(c, cs, l) => ctx'[c] = cs[c]
  BY FreeContextsDoes
<1>2. CtxConfigured(ctx')
  <2>1. \A s \in Slots : NoCtx.own.fn[s] = NoFn /\ NoCtx.own.latest[s] = Null
    BY DEF NoCtx, Empty
  <2>. QED
    BY <1>1, <2>1 DEF CtxConfigured
<1>3. l.alive => \A s \in Slots : ctx'[Source(s, l)] = cs[Source(s, l)]
  BY <1>1 DEF Safe, Source, Held
<1>4. SslConfigured(ctx', l)
  BY <1>3 DEF SslConfigured
<1>. QED
  BY <1>2, <1>4

LEMMA DropContextInv ==
  ASSUME CallbacksInv, NEW c \in Contexts, DropContext(c) PROVE CallbacksInv'
<1>. DEFINE cs == [ctx EXCEPT ![c].handle = FALSE]
<1>1. /\ ctx \in [Contexts -> CtxType] /\ cs \in [Contexts -> CtxType]
      /\ \A d \in Contexts : cs[d].own = ctx[d].own /\ cs[d].state = ctx[d].state
  <2>1. ctx \in [Contexts -> CtxType]
    BY DEF CallbacksInv, Safe
  <2>2. cs \in [Contexts -> CtxType]
    BY <2>1 DEF CtxType
  <2>. QED
    BY <2>1, <2>2 DEF CtxType
<1>2. FreeContexts(cs, ssl, boxes) /\ UNCHANGED <<ssl, running>>
  BY DEF DropContext
<1>. HIDE DEF cs
<1>3. Safe(cs, ssl, boxes)
  BY <1>1 DEF CallbacksInv, Safe
<1>4. CtxConfigured(cs)
  BY <1>1 DEF CallbacksInv, CtxConfigured
<1>5. SslConfigured(cs, ssl)
  <2>1. ssl.alive => \A s \in Slots : Source(s, ssl) \in Contexts
    BY DEF CallbacksInv, Safe, Source
  <2>. QED
    BY <1>1, <2>1 DEF CallbacksInv, SslConfigured
<1>. QED
  BY <1>2, <1>3, <1>4, <1>5, FreeContextsDoes, FreeConfigured DEF CallbacksInv

LEMMA NewSslInv ==
  ASSUME CallbacksInv, NEW c \in Contexts, NewSsl(c) PROVE CallbacksInv'
<1>. DEFINE f == [s \in Slots |-> IF s \in Copied THEN ctx[c].own.fn[s] ELSE NoFn]
<1>1. /\ ctx \in [Contexts -> CtxType] /\ ctx[c].state = "built" /\ ctx[c].own \in Own
      /\ ssl' = [NoSsl EXCEPT !.alive = TRUE, !.ctx = c, !.initial = c, !.own.fn = f]
      /\ UNCHANGED <<ctx, boxes, running>>
  BY DEF CallbacksInv, Safe, CtxType, NewSsl
<1>2. f \in [Slots -> Fn]
  BY <1>1, EmptyOwn DEF Own
<1>3. \A s \in Slots : s \in Copied => f[s] = ctx[c].own.fn[s]
  OBVIOUS
<1>. HIDE DEF f
<1>4. /\ ssl' \in SslType /\ ssl'.ctx = c /\ ssl'.initial = c /\ ssl'.own.fn = f
      /\ ssl'.own.data = Empty.data /\ ssl'.own.latest = Empty.latest
  BY <1>1, <1>2, NothingYet, EmptyOwn DEF SslType, Own, NoSsl
<1>5. BoxesOf(ssl'.own) = {}
  BY <1>4, EmptyOwn DEF BoxesOf
<1>6. Safe(ctx, ssl, boxes)'
  BY <1>1, <1>4, <1>5 DEF CallbacksInv, Safe
<1>7. CtxConfigured(ctx')
  BY <1>1 DEF CallbacksInv
<1>8. SslConfigured(ctx', ssl')
  BY <1>1, <1>3, <1>4 DEF SslConfigured, Source, Empty
<1>. QED
  BY <1>6, <1>7, <1>8 DEF CallbacksInv

LEMMA SetOnSslInv ==
  ASSUME CallbacksAssumption, CallbacksInv, NEW s \in Slots, NEW t \in Types, NEW k \in Stored,
         SetOnSsl(s, t, k)
  PROVE  CallbacksInv'
<1>. DEFINE n == SetClosure(ssl.own, s, t, "ssl", Fresh, k)
<1>1. /\ ssl \in SslType /\ ssl.own \in Own /\ boxes \in SUBSET (1 .. MaxBoxes) /\ ssl.alive
      /\ boxes # 1 .. MaxBoxes /\ s \in {"verify", "tmp_dh"}
  BY DEF CallbacksInv, Safe, SslType, SetOnSsl, NewBox, SslAtHand
<1>2. /\ Fresh \in 1 .. MaxBoxes /\ Fresh \notin boxes /\ Fresh \in Nat /\ Fresh # Null
      /\ k \in BOOLEAN
  BY <1>1, FreshBox DEF Stored
<1>3. /\ n \in Own
      /\ BoxesOf(n) \subseteq BoxesOf(ssl.own) \union {Fresh}
      /\ n.fn[s].place = "ssl" /\ n.fn[s].type = t
      /\ n.latest[s] = Lost \/ (n.latest[s] = Fresh /\ n.data[s][t] = Fresh)
      /\ \A s2 \in Slots \ {s} : /\ n.fn[s2] = ssl.own.fn[s2]
                                 /\ n.latest[s2] = ssl.own.latest[s2]
                                 /\ n.data[s2] = ssl.own.data[s2]
  <2>1. n = SetClosure(ssl.own, s, t, "ssl", Fresh, k) /\ "ssl" \in {"ctx", "ssl"}
    OBVIOUS
  <2>. HIDE DEF n
  <2>. QED
    <3>1. n \in Own /\ BoxesOf(n) \subseteq BoxesOf(ssl.own) \union {Fresh}
      BY <1>1, <1>2, <2>1, SetClosureBoxes
    <3>2. /\ n.fn[s].place = "ssl" /\ n.fn[s].type = t
          /\ n.latest[s] = Lost \/ (n.latest[s] = Fresh /\ n.data[s][t] = Fresh)
      BY <1>1, <1>2, <2>1, SetClosureDoes
    <3>3. \A s2 \in Slots \ {s} :
            n.fn[s2] = ssl.own.fn[s2] /\ n.latest[s2] = ssl.own.latest[s2] /\ n.data[s2] = ssl.own.data[s2]
      BY <1>1, <1>2, <2>1, SetClosureDoes
    <3>. QED
      BY <3>1, <3>2, <3>3
<1>4. /\ ssl' = [ssl EXCEPT !.own = n] /\ boxes' = boxes \union {Fresh}
      /\ UNCHANGED <<ctx, running>>
  BY DEF SetOnSsl, Kept
<1>. HIDE DEF n
<1>5. /\ ssl' \in SslType /\ ssl'.own = n /\ ssl'.ctx = ssl.ctx /\ ssl'.initial = ssl.initial
      /\ ssl'.alive
  BY <1>1, <1>3, <1>4 DEF SslType
<1>6. Safe(ctx, ssl, boxes)'
  <2>1. boxes' \in SUBSET (1 .. MaxBoxes) /\ BoxesOf(n) \subseteq boxes'
    BY <1>1, <1>2, <1>3, <1>4 DEF CallbacksInv, Safe
  <2>2. \A d \in Contexts : /\ BoxesOf(ctx[d].own) \subseteq boxes'
                            /\ BoxesOf(ctx[d].own) \intersect BoxesOf(n) = {}
    BY <1>2, <1>3, <1>4 DEF CallbacksInv, Safe
  <2>. QED
    BY <1>1, <1>4, <1>5, <2>1, <2>2 DEF CallbacksInv, Safe
<1>7. CtxConfigured(ctx')
  BY <1>4 DEF CallbacksInv
<1>8. SslConfigured(ctx', ssl')
  <2>. SUFFICES ASSUME NEW s2 \in Slots
                PROVE  /\ s2 \notin {"verify", "tmp_dh"} => n.latest[s2] = Null
                       /\ s2 \in Copied /\ n.fn[s2] # NoFn =>
                            \/ /\ n.fn[s2].place = "ssl" /\ n.fn[s2].type \in Types
                               /\ n.latest[s2] = Lost \/ n.latest[s2] = n.data[s2][n.fn[s2].type]
                               /\ n.latest[s2] # Null
                            \/ n.latest[s2] = Null /\ n.fn[s2] = ctx[Source(s2, ssl)].own.fn[s2]
    BY <1>4, <1>5 DEF SslConfigured, Source
  <2>1. CASE s2 = s
    <3>1. Lost # Null
      BY DEF Lost, Null, CallbacksAssumption
    <3>. QED
      BY <1>1, <1>2, <1>3, <2>1, <3>1 DEF Own
  <2>2. CASE s2 # s
    BY <1>1, <1>3, <2>2 DEF Own, CallbacksInv, SslConfigured
  <2>. QED
    BY <2>1, <2>2
<1>. QED
  BY <1>6, <1>7, <1>8 DEF CallbacksInv

LEMMA SetVerifyInv ==
  ASSUME CallbacksInv, SetVerify PROVE CallbacksInv'
<1>1. ctx \in [Contexts -> CtxType] /\ ssl \in SslType /\ "verify" \in Slots /\ NoFn \in Fn /\ Null \in Nat
      /\ UNCHANGED <<boxes, running>>
  BY EmptyOwn DEF CallbacksInv, Safe, SetVerify, Null
<1>2. ASSUME NEW c \in Contexts, ctx[c].state = "builder", UNCHANGED ssl,
             ctx' = [ctx EXCEPT ![c].own.fn["verify"] = NoFn, ![c].own.latest["verify"] = Null]
      PROVE  CallbacksInv'
  <2>1. ctx[c].own \in Own /\ ctx[c].state = "builder"
    BY <1>1, <1>2 DEF CtxType
  <2>2. /\ ctx' \in [Contexts -> CtxType]
        /\ ctx'[c].own.data = ctx[c].own.data /\ ctx'[c].state = "builder"
        /\ ctx'[c].own.fn = [ctx[c].own.fn EXCEPT !["verify"] = NoFn]
        /\ ctx'[c].own.latest = [ctx[c].own.latest EXCEPT !["verify"] = Null]
        /\ \A d \in Contexts \ {c} : ctx'[d] = ctx[d]
    <3>. DEFINE n == [ctx[c].own EXCEPT !.fn["verify"] = NoFn, !.latest["verify"] = Null]
    <3>1. /\ n \in Own /\ n.data = ctx[c].own.data
          /\ n.fn = [ctx[c].own.fn EXCEPT !["verify"] = NoFn]
          /\ n.latest = [ctx[c].own.latest EXCEPT !["verify"] = Null]
      BY <1>1, <2>1 DEF Own
    <3>2. ctx' = [ctx EXCEPT ![c].own = n]
      BY <1>1, <1>2, <2>1 DEF CtxType, Own
    <3>. HIDE DEF n
    <3>3. ctx' \in [Contexts -> CtxType]
      BY <1>1, <3>1, <3>2 DEF CtxType
    <3>4. ctx'[c].own = n /\ ctx'[c].state = "builder" /\ \A d \in Contexts \ {c} : ctx'[d] = ctx[d]
      BY <1>1, <2>1, <3>2 DEF CtxType
    <3>. QED
      BY <3>1, <3>3, <3>4
  <2>3. \A d \in Contexts : BoxesOf(ctx'[d].own) = BoxesOf(ctx[d].own)
    BY <2>2 DEF BoxesOf
  <2>4. Safe(ctx, ssl, boxes)'
    BY <1>1, <1>2, <2>2, <2>3 DEF CallbacksInv, Safe
  <2>5. CtxConfigured(ctx')
    <3>1. /\ ctx'[c].own.fn["verify"] = NoFn /\ ctx'[c].own.latest["verify"] = Null
          /\ \A s \in Slots \ {"verify"} : /\ ctx'[c].own.fn[s] = ctx[c].own.fn[s]
                                          /\ ctx'[c].own.latest[s] = ctx[c].own.latest[s]
      BY <1>1, <2>1, <2>2 DEF Own
    <3>. SUFFICES ASSUME NEW d \in Contexts, NEW s \in Slots
                  PROVE  LET o == ctx'[d].own
                         IN  IF o.fn[s] = NoFn THEN o.latest[s] = Null
                             ELSE /\ o.fn[s].place = "ctx" /\ o.fn[s].type \in Types
                                  /\ o.latest[s] = Lost \/ o.latest[s] = o.data[s][o.fn[s].type]
      BY DEF CtxConfigured
    <3>5. ctx'[c].own.data = ctx[c].own.data /\ \A e \in Contexts \ {c} : ctx'[e] = ctx[e]
      BY <2>2
    <3>2. CASE d # c
      BY <3>5, <3>2 DEF CallbacksInv, CtxConfigured
    <3>3. CASE d = c /\ s = "verify"
      BY <3>1, <3>3
    <3>4. CASE d = c /\ s # "verify"
      <4>1. LET o == ctx[c].own
            IN  IF o.fn[s] = NoFn THEN o.latest[s] = Null
                ELSE /\ o.fn[s].place = "ctx" /\ o.fn[s].type \in Types
                     /\ o.latest[s] = Lost \/ o.latest[s] = o.data[s][o.fn[s].type]
        BY DEF CallbacksInv, CtxConfigured
      <4>2. /\ ctx'[d].own.fn[s] = ctx[c].own.fn[s] /\ ctx'[d].own.latest[s] = ctx[c].own.latest[s]
            /\ ctx'[d].own.data = ctx[c].own.data
        BY <3>1, <3>4, <3>5
      <4>. QED
        BY <4>1, <4>2, Zenon
    <3>. QED
      BY <3>2, <3>3, <3>4
  <2>6. SslConfigured(ctx', ssl')
    BY <1>2, <2>2, OtherContext
  <2>. QED
    BY <2>4, <2>5, <2>6 DEF CallbacksInv
<1>3. ASSUME SslAtHand, UNCHANGED ctx,
             ssl' = [ssl EXCEPT !.own.fn["verify"] = NoFn, !.own.latest["verify"] = Null]
      PROVE  CallbacksInv'
  <2>1. ssl.own \in Own /\ ssl.alive
    BY <1>1, <1>3 DEF SslType, SslAtHand
  <2>2. /\ ssl' \in SslType /\ ssl'.own.data = ssl.own.data
        /\ ssl'.own.fn = [ssl.own.fn EXCEPT !["verify"] = NoFn]
        /\ ssl'.own.latest = [ssl.own.latest EXCEPT !["verify"] = Null]
        /\ ssl'.ctx = ssl.ctx /\ ssl'.initial = ssl.initial /\ ssl'.alive
    BY <1>1, <1>3, <2>1 DEF SslType, Own
  <2>3. BoxesOf(ssl'.own) = BoxesOf(ssl.own)
    BY <2>2 DEF BoxesOf
  <2>4. Safe(ctx, ssl, boxes)'
    BY <1>1, <1>3, <2>1, <2>2, <2>3 DEF CallbacksInv, Safe
  <2>5. CtxConfigured(ctx')
    BY <1>3 DEF CallbacksInv
  <2>6. SslConfigured(ctx', ssl')
    <3>1. "verify" \in Slots => ssl'.own.fn["verify"] = NoFn /\ ssl'.own.latest["verify"] = Null
      BY <2>1, <2>2 DEF Own
    <3>2. \A s \in Slots \ {"verify"} : /\ ssl'.own.fn[s] = ssl.own.fn[s]
                                       /\ ssl'.own.latest[s] = ssl.own.latest[s]
      BY <2>1, <2>2 DEF Own
    <3>3. \A s \in Slots : Source(s, ssl') = Source(s, ssl)
      BY <2>2 DEF Source
    <3>4. \A s \in Slots :
            /\ s \notin {"verify", "tmp_dh"} => ssl.own.latest[s] = Null
            /\ s \in Copied /\ ssl.own.fn[s] # NoFn =>
                 \/ /\ ssl.own.fn[s].place = "ssl" /\ ssl.own.fn[s].type \in Types
                    /\ ssl.own.latest[s] = Lost \/ ssl.own.latest[s] = ssl.own.data[s][ssl.own.fn[s].type]
                    /\ ssl.own.latest[s] # Null
                 \/ ssl.own.latest[s] = Null /\ ssl.own.fn[s] = ctx[Source(s, ssl)].own.fn[s]
      BY <2>1 DEF CallbacksInv, SslConfigured
    <3>5. ssl'.own.data = ssl.own.data /\ ctx' = ctx
      BY <1>3, <2>2
    <3>6. ASSUME NEW s \in Slots
          PROVE  /\ s \notin {"verify", "tmp_dh"} => ssl'.own.latest[s] = Null
                 /\ s \in Copied /\ ssl'.own.fn[s] # NoFn =>
                      \/ /\ ssl'.own.fn[s].place = "ssl" /\ ssl'.own.fn[s].type \in Types
                         /\ \/ ssl'.own.latest[s] = Lost
                            \/ ssl'.own.latest[s] = ssl'.own.data[s][ssl'.own.fn[s].type]
                         /\ ssl'.own.latest[s] # Null
                      \/ ssl'.own.latest[s] = Null /\ ssl'.own.fn[s] = ctx'[Source(s, ssl')].own.fn[s]
      <4>1. CASE s = "verify"
        BY <3>1, <4>1
      <4>2. CASE s # "verify"
        BY <3>2, <3>3, <3>4, <3>5, <4>2, Zenon
      <4>. QED
        BY <4>1, <4>2
    <3>. QED
      BY <3>6 DEF SslConfigured
  <2>. QED
    BY <2>4, <2>5, <2>6 DEF CallbacksInv
<1>. QED
  BY <1>2, <1>3 DEF SetVerify

LEMMA SetSslContextSafe ==
  ASSUME CallbacksInv, NEW c \in Contexts, set_ssl_context(c)
  PROVE  Safe(ctx, ssl', boxes) /\ SslConfigured(ctx, ssl')
<1>. DEFINE f == [s \in Slots |-> IF s \in CopiedAgain THEN ctx[c].own.fn[s] ELSE ssl.own.fn[s]]
            g == [s \in Slots |-> IF s \in CopiedAgain THEN Null ELSE ssl.own.latest[s]]
<1>1. /\ ctx \in [Contexts -> CtxType] /\ ssl \in SslType /\ ssl.alive /\ ctx[c].state = "built"
      /\ ctx[c].own \in Own /\ ssl.own \in Own
      /\ ssl' = [ssl EXCEPT !.ctx = c, !.own.fn = f, !.own.latest = g]
      /\ FreeContexts(ctx, ssl', boxes)
  BY DEF CallbacksInv, Safe, CtxType, SslType, set_ssl_context, SslAtHand
<1>2. f \in [Slots -> Fn] /\ g \in [Slots -> Nat]
  BY <1>1 DEF Own, Null
<1>3. /\ \A s \in Slots : f[s] = IF s \in CopiedAgain THEN ctx[c].own.fn[s] ELSE ssl.own.fn[s]
      /\ \A s \in Slots : g[s] = IF s \in CopiedAgain THEN Null ELSE ssl.own.latest[s]
  OBVIOUS
<1>. HIDE DEF f, g
<1>4. /\ ssl' \in SslType /\ ssl'.alive /\ ssl'.ctx = c /\ ssl'.initial = ssl.initial
      /\ ssl'.own.fn = f /\ ssl'.own.latest = g /\ ssl'.own.data = ssl.own.data
  BY <1>1, <1>2 DEF SslType, Own
<1>5. BoxesOf(ssl'.own) = BoxesOf(ssl.own)
  BY <1>4 DEF BoxesOf
<1>6. Safe(ctx, ssl', boxes)
  BY <1>1, <1>4, <1>5 DEF CallbacksInv, Safe
<1>7. SslConfigured(ctx, ssl')
  BY <1>1, <1>3, <1>4 DEF CallbacksInv, SslConfigured, Source
<1>. QED
  BY <1>6, <1>7

LEMMA SetSslContextInv ==
  ASSUME CallbacksInv, NEW c \in Contexts, set_ssl_context(c) PROVE CallbacksInv'
<1>1. FreeContexts(ctx, ssl', boxes)
  BY DEF set_ssl_context
<1>. QED
  BY <1>1, SetSslContextSafe, FreeContextsDoes, FreeConfigured DEF CallbacksInv

LEMMA DropSslInv ==
  ASSUME CallbacksInv, DropSsl PROVE CallbacksInv'
<1>. DEFINE bs == boxes \ BoxesOf(ssl.own)
<1>1. /\ ssl' = NoSsl /\ FreeContexts(ctx, NoSsl, bs) /\ UNCHANGED running
      /\ bs \in SUBSET (1 .. MaxBoxes)
  BY DEF DropSsl, CallbacksInv, Safe
<1>2. \A c \in Contexts : BoxesOf(ctx[c].own) \subseteq bs
  BY DEF CallbacksInv, Safe
<1>. HIDE DEF bs
<1>3. Safe(ctx, NoSsl, bs)
  BY <1>1, <1>2, NothingYet, EmptyOwn DEF CallbacksInv, Safe
<1>4. SslConfigured(ctx, NoSsl)
  BY NothingYet DEF SslConfigured
<1>. QED
  BY <1>1, <1>3, <1>4, FreeContextsDoes, FreeConfigured DEF CallbacksInv

LEMMA SetProtocolsFailsInv ==
  ASSUME CallbacksAssumption, CallbacksInv, NEW c \in Contexts, SetProtocolsFails(c)
  PROVE  CallbacksInv'
<1>1. /\ boxes' = boxes \union {Fresh} /\ UNCHANGED <<ctx, ssl, running>>
      /\ boxes \in SUBSET (1 .. MaxBoxes) /\ boxes # 1 .. MaxBoxes
  BY DEF SetProtocolsFails, NewBox, CallbacksInv, Safe
<1>2. Fresh \in 1 .. MaxBoxes
  BY <1>1, FreshBox
<1>. QED
  BY <1>1, <1>2 DEF CallbacksInv, Safe

LEMMA CallbacksStep ==
  ASSUME CallbacksAssumption, CallbacksInv, [CallbacksNext]_callbackVars PROVE CallbacksInv'
<1>1. CASE UNCHANGED callbackVars
  BY <1>1 DEF callbackVars, CallbacksInv
<1>2. CASE Return
  BY <1>2 DEF Return, CallbacksInv
<1>3. CASE \E s \in Slots : Callback(s)
  BY <1>3 DEF Callback, CallbacksInv
<1>. QED
  BY <1>1, <1>2, <1>3, NewBuilderInv, BuildInv, DropContextInv, NewSslInv, SetSslContextInv,
     SetOnContextInv, SetProtocolsFailsInv, SetOnSslInv, SetVerifyInv, DropSslInv DEF CallbacksNext

\* A trampoline finds the closure that was configured last for its slot.
LEMMA RunsWhatIsConfigured == ASSUME CallbacksInv PROVE RunsConfigured
<1>. SUFFICES ASSUME NEW s \in Slots, Callback(s), Configured(s) # Lost,
                     ssl.ctx = ssl.initial \/ s \in {"tmp_dh", "status", "protocols"}
              PROVE  Lookup(s, Trampoline(s)) = Configured(s)
  BY DEF RunsConfigured, Callback
<1>1. ssl.alive /\ Trampoline(s) # NoFn /\ ssl.ctx \in Contexts /\ ssl.initial \in Contexts
  BY DEF Callback, CallbacksInv, Safe
<1>2. LET o == ctx[ssl.ctx].own
      IN  o.fn[s] # NoFn => /\ o.fn[s].place = "ctx"
                            /\ o.latest[s] = Lost \/ o.latest[s] = o.data[s][o.fn[s].type]
  BY <1>1 DEF CallbacksInv, CtxConfigured
<1>3. CASE s \in Copied
  <2>1. Trampoline(s) = ssl.own.fn[s]
    BY <1>3 DEF Trampoline
  <2>2. CASE /\ ssl.own.fn[s].place = "ssl"
             /\ ssl.own.latest[s] = Lost \/ ssl.own.latest[s] = ssl.own.data[s][ssl.own.fn[s].type]
             /\ ssl.own.latest[s] # Null
    BY <2>1, <2>2 DEF Lookup, Configured
  <2>3. CASE ssl.own.latest[s] = Null /\ ssl.own.fn[s] = ctx[Source(s, ssl)].own.fn[s]
    <3>1. Source(s, ssl) = ssl.ctx
      BY <1>3 DEF Source, CopiedAgain, Copied
    <3>. QED
      BY <1>1, <1>2, <2>1, <2>3, <3>1 DEF Lookup, Configured
  <2>. QED
    BY <1>1, <1>3, <2>1, <2>2, <2>3 DEF CallbacksInv, SslConfigured
<1>4. CASE s \notin Copied
  <2>1. Trampoline(s) = ctx[ssl.ctx].own.fn[s]
    BY <1>4 DEF Trampoline
  <2>2. ssl.own.latest[s] = Null
    <3>1. s \notin {"verify", "tmp_dh"}
      BY <1>4 DEF Copied
    <3>. QED
      BY <1>1, <3>1 DEF CallbacksInv, SslConfigured
  <2>. QED
    BY <1>1, <1>2, <2>1, <2>2 DEF Lookup, Configured
<1>. QED
  BY <1>3, <1>4

\* Whenever OpenSSL calls a trampoline whose closure could be stored, what it finds in
\* the extra data of the Ssl or of its context is the closure the program set last for
\* this purpose, whatever was set, replaced, disabled or copied before; for verify, psk
\* and sni only as long as the Ssl has the context it was made from, since they look
\* in the one it has now (ssl/callbacks.rs).
THEOREM CallbackRunsConfigured == CallbacksSpec => ConfiguredRuns
<1>1. CallbacksAssumption
  BY CallbacksAssumption
<1>2. CallbacksInv /\ [CallbacksNext]_callbackVars => [RunsConfigured]_callbackVars
  BY RunsWhatIsConfigured
<1>. QED
  BY <1>1, <1>2, CallbacksInitInv, CallbacksStep, PTL DEF CallbacksSpec, ConfiguredRuns

\* The closure that runs is alive and, if a context will free it, then one that the
\* Ssl holds, unless the Ssl left a context it was not made from.
RunningInv ==
  /\ running \in [slot : Slots \union {"none"}, box : Nat, left : BOOLEAN]
  /\ running # Idle => ssl.alive
  /\ running.box # Null /\ ~running.left =>
       /\ running.box \in boxes
       /\ \A c \in Contexts : running.box \in BoxesOf(ctx[c].own) => c \in {ssl.initial, ssl.ctx}

LEMMA RunningInitInv == ASSUME CallbacksInit PROVE RunningInv
BY NothingYet DEF CallbacksInit, RunningInv, Idle, Null

\* A step in which closures and their Ssl stay and boxes are only added.
LEMMA RunningStays ==
  ASSUME CallbacksInv, RunningInv, UNCHANGED running, boxes \subseteq boxes',
         ssl'.alive = ssl.alive, ssl'.ctx = ssl.ctx, ssl'.initial = ssl.initial,
         NEW b, b \notin boxes,
         \A c \in Contexts : BoxesOf(ctx'[c].own) \subseteq BoxesOf(ctx[c].own) \union {b}
  PROVE  RunningInv'
BY DEF RunningInv

\* The actions one after the other, for the closure that runs.
LEMMA NullIsNoBox == ASSUME CallbacksInv PROVE Null \notin boxes
BY DEF CallbacksInv, Safe, Null

LEMMA RunningBuilder ==
  ASSUME CallbacksInv, RunningInv, NEW c \in Contexts, NewBuilder(c) \/ build(c) PROVE RunningInv'
<1>1. UNCHANGED <<ssl, boxes, running>> /\ ctx \in [Contexts -> CtxType]
  BY DEF NewBuilder, build, CallbacksInv, Safe
<1>2. \A d \in Contexts : ctx'[d].own = ctx[d].own \/ ctx'[d].own = Empty
  <2>1. CASE NewBuilder(c)
    <3>1. [NoCtx EXCEPT !.state = "builder", !.handle = TRUE].own = Empty
      BY DEF NoCtx
    <3>. QED
      BY <1>1, <2>1, <3>1 DEF NewBuilder
  <2>2. CASE build(c)
    BY <1>1, <2>2 DEF build, CtxType
  <2>. QED
    BY <2>1, <2>2
<1>3. \A d \in Contexts : BoxesOf(ctx'[d].own) \subseteq BoxesOf(ctx[d].own) \union {Null}
  BY <1>2, EmptyOwn
<1>. QED
  BY <1>1, <1>3, NullIsNoBox, RunningStays

LEMMA RunningSetOnContext ==
  ASSUME CallbacksAssumption, CallbacksInv, RunningInv, NEW c \in Contexts, NEW s \in Slots,
         NEW t \in Types, NEW k \in Stored, SetOnContext(c, s, t, k)
  PROVE  RunningInv'
<1>. DEFINE n == SetClosure(ctx[c].own, s, t, "ctx", Fresh, k)
<1>1. /\ ctx \in [Contexts -> CtxType] /\ ctx[c].own \in Own /\ boxes \in SUBSET (1 .. MaxBoxes)
      /\ boxes # 1 .. MaxBoxes
  BY DEF CallbacksInv, Safe, CtxType, SetOnContext, NewBox
<1>2. Fresh \in 1 .. MaxBoxes /\ Fresh \notin boxes /\ Fresh \in Nat /\ k \in BOOLEAN
  BY <1>1, FreshBox DEF Stored
<1>3. BoxesOf(n) \subseteq BoxesOf(ctx[c].own) \union {Fresh}
  <2>1. n = SetClosure(ctx[c].own, s, t, "ctx", Fresh, k) /\ "ctx" \in {"ctx", "ssl"}
    OBVIOUS
  <2>. HIDE DEF n
  <2>. QED
    BY <1>1, <1>2, <2>1, SetClosureBoxes
<1>4. /\ ctx' = [ctx EXCEPT ![c].own = n] /\ boxes' = boxes \union {Fresh}
      /\ UNCHANGED <<ssl, running>>
  BY DEF SetOnContext, Kept
<1>. HIDE DEF n
<1>5. \A d \in Contexts : BoxesOf(ctx'[d].own) \subseteq BoxesOf(ctx[d].own) \union {Fresh}
  <2>1. ctx'[c].own = n /\ \A d \in Contexts \ {c} : ctx'[d] = ctx[d]
    BY <1>1, <1>4 DEF CtxType
  <2>. QED
    BY <1>3, <2>1
<1>. QED
  BY <1>2, <1>4, <1>5, RunningStays

LEMMA RunningSetOnSsl ==
  ASSUME CallbacksInv, RunningInv, NEW s \in Slots, NEW t \in Types, NEW k \in Stored,
         SetOnSsl(s, t, k)
  PROVE  RunningInv'
<1>1. /\ ssl \in SslType /\ boxes \subseteq boxes' /\ UNCHANGED <<ctx, running>>
      /\ ssl' = [ssl EXCEPT !.own = SetClosure(ssl.own, s, t, "ssl", Fresh, k)]
  BY DEF CallbacksInv, Safe, SetOnSsl, Kept
<1>2. /\ ssl'.alive = ssl.alive /\ ssl'.ctx = ssl.ctx /\ ssl'.initial = ssl.initial
  BY <1>1 DEF SslType
<1>. QED
  BY <1>1, <1>2, NullIsNoBox, RunningStays

LEMMA RunningSetProtocolsFails ==
  ASSUME CallbacksInv, RunningInv, NEW c \in Contexts, SetProtocolsFails(c) PROVE RunningInv'
<1>1. UNCHANGED <<ctx, ssl, running>> /\ boxes \subseteq boxes'
  BY DEF SetProtocolsFails
<1>2. \A d \in Contexts : BoxesOf(ctx'[d].own) \subseteq BoxesOf(ctx[d].own) \union {Null}
  BY <1>1
<1>. QED
  BY <1>1, <1>2, NullIsNoBox, RunningStays

LEMMA RunningSetVerify ==
  ASSUME CallbacksInv, RunningInv, SetVerify PROVE RunningInv'
<1>1. ctx \in [Contexts -> CtxType] /\ ssl \in SslType /\ UNCHANGED <<boxes, running>>
  BY DEF CallbacksInv, Safe, SetVerify
<1>2. ASSUME NEW c \in Contexts, UNCHANGED ssl,
             ctx' = [ctx EXCEPT ![c].own.fn["verify"] = NoFn, ![c].own.latest["verify"] = Null]
      PROVE  RunningInv'
  <2>1. ctx[c] \in CtxType /\ ctx[c].own \in Own
    BY <1>1 DEF CtxType
  <2>2. ctx'[c].own.data = ctx[c].own.data /\ \A d \in Contexts \ {c} : ctx'[d] = ctx[d]
    BY <1>1, <1>2, <2>1 DEF CtxType, Own
  <2>3. \A d \in Contexts : BoxesOf(ctx'[d].own) \subseteq BoxesOf(ctx[d].own) \union {Null}
    BY <2>2 DEF BoxesOf
  <2>. QED
    BY <1>1, <1>2, <2>3, NullIsNoBox, RunningStays
<1>3. ASSUME UNCHANGED ctx,
             ssl' = [ssl EXCEPT !.own.fn["verify"] = NoFn, !.own.latest["verify"] = Null]
      PROVE  RunningInv'
  <2>1. /\ ssl'.alive = ssl.alive /\ ssl'.ctx = ssl.ctx /\ ssl'.initial = ssl.initial
      BY <1>1, <1>3 DEF SslType
  <2>. QED
    BY <1>1, <1>3, <2>1, NullIsNoBox, RunningStays
<1>. QED
  BY <1>2, <1>3 DEF SetVerify

LEMMA RunningNewSsl ==
  ASSUME CallbacksInv, RunningInv, NEW c \in Contexts, NewSsl(c) PROVE RunningInv'
<1>1. running' = running /\ running = Idle
  BY DEF NewSsl, RunningInv
<1>2. ssl'.ctx = c /\ ssl'.initial = c
  BY DEF NewSsl, NoSsl
<1>3. Idle.box = Null
  BY DEF Idle
<1>4. running' \in [slot : Slots \union {"none"}, box : Nat, left : BOOLEAN]
  BY <1>1 DEF RunningInv
<1>. QED
  BY <1>1, <1>3, <1>4 DEF RunningInv

LEMMA RunningCallback ==
  ASSUME CallbacksInv, RunningInv, NEW s \in Slots, Callback(s) PROVE RunningInv'
<1>. DEFINE fn == Trampoline(s)
            box == Lookup(s, fn)
<1>1. /\ ctx \in [Contexts -> CtxType] /\ ssl \in SslType /\ ssl.alive /\ fn # NoFn
      /\ ssl.ctx \in Contexts /\ ssl.initial \in Contexts /\ ssl.own \in Own
      /\ \A c \in Contexts : ctx[c].own \in Own
  BY DEF CallbacksInv, Safe, Callback, SslType, CtxType
<1>2. fn.type \in Types
  <2>1. \A c \in Contexts : ctx[c].own.fn[s] # NoFn => ctx[c].own.fn[s].type \in Types
    BY DEF CallbacksInv, CtxConfigured
  <2>2. Source(s, ssl) \in Contexts
    BY <1>1 DEF Source
  <2>3. s \in Copied /\ ssl.own.fn[s] # NoFn =>
          \/ ssl.own.fn[s].type \in Types
          \/ ssl.own.fn[s] = ctx[Source(s, ssl)].own.fn[s]
    BY <1>1 DEF CallbacksInv, SslConfigured
  <2>. QED
    BY <1>1, <2>1, <2>2, <2>3 DEF Trampoline
<1>3. running' = [slot |-> s, box |-> box, left |-> FALSE] /\ UNCHANGED <<ctx, ssl, boxes>>
  BY DEF Callback
<1>4. box = Null \/ box \in BoxesOf(ssl.own) \/ box \in BoxesOf(ctx[ssl.ctx].own)
  <2>. HIDE DEF fn
  <2>1. ssl.own.data[s][fn.type] = Null \/ ssl.own.data[s][fn.type] \in BoxesOf(ssl.own)
    BY <1>2 DEF BoxesOf
  <2>2. \/ ctx[ssl.ctx].own.data[s][fn.type] = Null
        \/ ctx[ssl.ctx].own.data[s][fn.type] \in BoxesOf(ctx[ssl.ctx].own)
    BY <1>2 DEF BoxesOf
  <2>. QED
    BY <2>1, <2>2 DEF Lookup
<1>. HIDE DEF box, fn
<1>5. box # Null => /\ box \in boxes
                    /\ \A c \in Contexts : box \in BoxesOf(ctx[c].own) => c = ssl.ctx
  BY <1>1, <1>4 DEF CallbacksInv, Safe
<1>6. box \in Nat
  <2>1. boxes \subseteq Nat
    BY DEF CallbacksInv, Safe
  <2>. QED
    <3>1. CASE box = Null
      BY <3>1 DEF Null
    <3>2. CASE box # Null
      BY <1>5, <2>1, <3>2
    <3>. QED
      BY <3>1, <3>2
<1>. QED
  BY <1>1, <1>3, <1>5, <1>6 DEF RunningInv

LEMMA RunningDropContext ==
  ASSUME CallbacksInv, RunningInv, NEW c \in Contexts, DropContext(c) PROVE RunningInv'
<1>. DEFINE cs == [ctx EXCEPT ![c].handle = FALSE]
<1>1. /\ ctx \in [Contexts -> CtxType] /\ cs \in [Contexts -> CtxType]
      /\ \A d \in Contexts : cs[d].own = ctx[d].own /\ cs[d].state = ctx[d].state
  <2>1. ctx \in [Contexts -> CtxType]
    BY DEF CallbacksInv, Safe
  <2>2. cs \in [Contexts -> CtxType]
    BY <2>1 DEF CtxType
  <2>. QED
    BY <2>1, <2>2 DEF CtxType
<1>2. FreeContexts(cs, ssl, boxes) /\ UNCHANGED <<ssl, running>>
  BY DEF DropContext
<1>. HIDE DEF cs
<1>3. Safe(cs, ssl, boxes)
  BY <1>1 DEF CallbacksInv, Safe
<1>4. /\ \A d \in Contexts : ctx'[d] = cs[d] \/ ctx'[d] = NoCtx
      /\ \A b \in boxes : (\A d \in Contexts : b \in BoxesOf(cs[d].own) => Held(d, cs, ssl)) => b \in boxes'
  BY <1>2, <1>3, FreeContextsDoes
<1>5. \A d \in Contexts : BoxesOf(ctx'[d].own) \subseteq BoxesOf(ctx[d].own)
  BY <1>1, <1>4, NothingYet, EmptyOwn
<1>6. running.box # Null /\ ~running.left => running.box \in boxes'
  <2>1. SUFFICES ASSUME running.box # Null, ~running.left PROVE running.box \in boxes'
    OBVIOUS
  <2>2. running # Idle /\ ssl.alive
    BY <2>1 DEF RunningInv, Idle
  <2>3. \A d \in Contexts : running.box \in BoxesOf(cs[d].own) => Held(d, cs, ssl)
    BY <1>1, <2>1, <2>2 DEF RunningInv, Held
  <2>. QED
    BY <1>4, <2>1, <2>3 DEF RunningInv
<1>. QED
  BY <1>2, <1>5, <1>6 DEF RunningInv

LEMMA RunningSetSslContext ==
  ASSUME CallbacksInv, RunningInv, NEW c \in Contexts, set_ssl_context(c)
  PROVE  RunningInv'
<1>1. /\ ssl \in SslType /\ ssl.alive /\ FreeContexts(ctx, ssl', boxes)
      /\ running' = [running EXCEPT !.left = running # Idle /\ (@ \/ ssl.ctx # ssl.initial)]
  BY DEF CallbacksInv, Safe, set_ssl_context, SslAtHand
<1>2. /\ ssl'.alive /\ ssl'.initial = ssl.initial
  BY <1>1 DEF set_ssl_context, SslType
<1>3. /\ running' \in [slot : Slots \union {"none"}, box : Nat, left : BOOLEAN]
      /\ running'.box = running.box
      /\ running'.left = (running # Idle /\ (running.left \/ ssl.ctx # ssl.initial))
  BY <1>1 DEF RunningInv
<1>4. Safe(ctx, ssl', boxes)
  BY SetSslContextSafe
<1>5. /\ \A d \in Contexts : ctx'[d] = ctx[d] \/ ctx'[d] = NoCtx
      /\ \A b \in boxes :
           (\A d \in Contexts : b \in BoxesOf(ctx[d].own) => Held(d, ctx, ssl')) => b \in boxes'
  BY <1>1, <1>4, FreeContextsDoes
<1>6. \A d \in Contexts : BoxesOf(ctx'[d].own) \subseteq BoxesOf(ctx[d].own)
  BY <1>5, NothingYet, EmptyOwn
<1>7. ASSUME running'.box # Null, ~running'.left
      PROVE  /\ running'.box \in boxes'
             /\ \A d \in Contexts : running'.box \in BoxesOf(ctx'[d].own) => d = ssl.initial
  <2>1. running # Idle /\ running.box # Null
    BY <1>3, <1>7 DEF Idle
  <2>2. ~running.left /\ ssl.ctx = ssl.initial
    BY <1>3, <1>7, <2>1
  <2>3. /\ running.box \in boxes
        /\ \A d \in Contexts : running.box \in BoxesOf(ctx[d].own) => d = ssl.initial
    BY <2>1, <2>2 DEF RunningInv
  <2>4. \A d \in Contexts : running.box \in BoxesOf(ctx[d].own) => Held(d, ctx, ssl')
    BY <1>2, <2>3 DEF Held
  <2>. QED
    BY <1>3, <1>5, <1>6, <2>3, <2>4
<1>. QED
  BY <1>2, <1>3, <1>7 DEF RunningInv

LEMMA RunningStep ==
  ASSUME CallbacksAssumption, CallbacksInv, RunningInv, [CallbacksNext]_callbackVars
  PROVE  RunningInv'
<1>1. CASE UNCHANGED callbackVars
  BY <1>1 DEF callbackVars, RunningInv
<1>2. CASE Return
  BY <1>2 DEF Return, RunningInv, Idle, Null
<1>3. CASE DropSsl
  BY <1>3, NothingYet DEF DropSsl, RunningInv, Idle
<1>. QED
  BY <1>1, <1>2, <1>3, RunningBuilder, RunningDropContext, RunningNewSsl, RunningSetSslContext,
     RunningSetOnContext, RunningSetProtocolsFails, RunningCallback, RunningSetOnSsl,
     RunningSetVerify DEF CallbacksNext

\* In any program, set_ssl_context at any time included: a closure is not freed while it
\* runs, unless it belongs to a context the Ssl was switched to and switches it again
\* (ssl/mod.rs, set_ssl_context; ssl/callbacks.rs).
THEOREM CallbackRunningIsAlive == CallbacksSpec => []RunningIsAlive
<1>1. CallbacksAssumption
  BY CallbacksAssumption
<1>2. RunningInv => RunningIsAlive
  BY DEF RunningInv, RunningIsAlive
<1>. QED
  BY <1>1, <1>2, CallbacksInitInv, CallbacksStep, RunningInitInv, RunningStep, PTL DEF CallbacksSpec

-----------------------------------------------------------------------------
(***************************************************************************)
(* VerifyHostname.  The search of matches_wildcard is compared with a      *)
(* definition by concatenation, and a session's progress with what of its  *)
(* chain was found valid.                                                  *)
(***************************************************************************)

\* The least element of a set of naturals, by the order of the sets 0..n.
LEMMA Least ==
  ASSUME NEW S \in SUBSET Nat, S # {}
  PROVE  \E x \in S : \A y \in S : x <= y
  <1> DEFINE T == {0 .. n : n \in S}
  <1>1. IsWellFoundedOn(StrictSubsetOrdering(Nat), FiniteSubsetsOf(Nat))
    BY FS_StrictSubsetOrderingWellFounded
  <1>2. \A n \in S : 0 .. n \subseteq Nat /\ IsFiniteSet(0 .. n)
    BY FS_Interval
  <1>3. T \subseteq FiniteSubsetsOf(Nat) /\ T # {}
    BY <1>2 DEF FiniteSubsetsOf
  <1> HIDE DEF T
  <1>4. PICK I \in T : \A J \in T : <<J, I>> \notin StrictSubsetOrdering(Nat)
    BY <1>1, <1>3, WFMin
  <1> USE DEF T
  <1>5. PICK x \in S : I = 0 .. x
    BY <1>4
  <1>6. ASSUME NEW y \in S, y < x
        PROVE  FALSE
    <2>1. 0 .. y \in T /\ 0 .. y \in SUBSET Nat /\ I \in SUBSET Nat
      BY <1>5
    <2>2. 0 .. y \subseteq I /\ 0 .. y # I
      BY <1>5, <1>6
    <2>3. <<0 .. y, I>> \in StrictSubsetOrdering(Nat)
      BY <2>1, <2>2 DEF StrictSubsetOrdering
    <2> QED
      BY <1>4, <2>1, <2>3
  <1> QED
    BY <1>6

\* str::find gives the one place that Splits describes.
LEMMA FindIs ==
  ASSUME NEW s \in Name, NEW c
  PROVE  /\ Find(s, c) \in 0 .. Len(s)
         /\ Find(s, c) = 0 <=> \A i \in 1 .. Len(s) : s[i] # c
         /\ Find(s, c) # 0 => Splits(s, c) = {Find(s, c)}
         /\ Find(s, c) = 0 => Splits(s, c) = {}
<1>. DEFINE I == {i \in 1 .. Len(s) : s[i] = c}
<1>1. Find(s, c) = IF I # {} THEN Min(I) ELSE 0
  BY DEF Find, SelectInSeq
<1>2. I \in SUBSET Nat /\ Len(s) \in Nat /\ DOMAIN s = 1 .. Len(s)
  BY DEF Name
<1>3. ASSUME I # {} PROVE Min(I) \in I /\ \A y \in I : Min(I) <= y
  <2>1. \E x \in I : \A y \in I : x <= y
    BY <1>2, <1>3, Least
  <2>. QED
    BY <2>1 DEF Min
<1>4. CASE I = {}
  BY <1>1, <1>2, <1>4 DEF Splits
<1>5. CASE I # {}
  <2>1. Find(s, c) \in I /\ \A y \in I : Find(s, c) <= y
    BY <1>1, <1>3, <1>5
  <2>2. Splits(s, c) = {Find(s, c)}
    BY <1>2, <2>1 DEF Splits
  <2>. QED
    BY <1>2, <2>1, <2>2
<1>. QED
  BY <1>4, <1>5

\* starts_with and ends_with, character by character.
LEMMA PrefixIs ==
  ASSUME NEW s \in Name, NEW t \in Name
  PROVE  IsPrefix(s, t) <=> Len(s) <= Len(t) /\ \A i \in 1 .. Len(s) : s[i] = t[i]
BY DEF IsPrefix, Name

LEMMA ReverseIs ==
  ASSUME NEW s \in Name
  PROVE  /\ Reverse(s) \in Name /\ Len(Reverse(s)) = Len(s)
         /\ \A i \in 1 .. Len(s) : Reverse(s)[i] = s[(Len(s) - i) + 1]
BY DEF Reverse, Name

LEMMA SuffixIs ==
  ASSUME NEW s \in Name, NEW t \in Name
  PROVE  IsSuffix(s, t) <=> /\ Len(s) <= Len(t)
                            /\ \A i \in 1 .. Len(s) : s[i] = t[(Len(t) - Len(s)) + i]
<1>1. IsSuffix(s, t) <=> Len(s) <= Len(t) /\ \A i \in 1 .. Len(s) : Reverse(s)[i] = Reverse(t)[i]
  BY ReverseIs, PrefixIs DEF IsSuffix
<1>2. Len(s) \in Nat /\ Len(t) \in Nat
  BY DEF Name
<1>3. ASSUME Len(s) <= Len(t)
      PROVE  (\A i \in 1 .. Len(s) : Reverse(s)[i] = Reverse(t)[i])
               <=> \A i \in 1 .. Len(s) : s[i] = t[(Len(t) - Len(s)) + i]
  <2>1. \A i \in 1 .. Len(s) : (Reverse(s)[i] = Reverse(t)[i]) = (s[(Len(s) - i) + 1] = t[(Len(t) - i) + 1])
    BY <1>2, <1>3, ReverseIs
  <2>2. ASSUME \A i \in 1 .. Len(s) : s[(Len(s) - i) + 1] = t[(Len(t) - i) + 1], NEW i \in 1 .. Len(s)
        PROVE  s[i] = t[(Len(t) - Len(s)) + i]
    <3>1. (Len(s) - i) + 1 \in 1 .. Len(s)
      BY <1>2
    <3>2. s[(Len(s) - ((Len(s) - i) + 1)) + 1] = t[(Len(t) - ((Len(s) - i) + 1)) + 1]
      BY <2>2, <3>1
    <3>3. (Len(s) - ((Len(s) - i) + 1)) + 1 = i /\ (Len(t) - ((Len(s) - i) + 1)) + 1 = (Len(t) - Len(s)) + i
      BY <1>2
    <3>. QED
      BY <3>2, <3>3
  <2>3. ASSUME \A i \in 1 .. Len(s) : s[i] = t[(Len(t) - Len(s)) + i], NEW i \in 1 .. Len(s)
        PROVE  s[(Len(s) - i) + 1] = t[(Len(t) - i) + 1]
    <3>1. (Len(s) - i) + 1 \in 1 .. Len(s)
      BY <1>2
    <3>2. s[(Len(s) - i) + 1] = t[(Len(t) - Len(s)) + ((Len(s) - i) + 1)]
      BY <2>3, <3>1
    <3>3. (Len(t) - Len(s)) + ((Len(s) - i) + 1) = (Len(t) - i) + 1
      BY <1>2
    <3>. QED
      BY <3>2, <3>3
  <2>. QED
    BY <2>1, <2>2, <2>3
<1>. QED
  BY <1>1, <1>3

\* Names with the same characters are the same, and the characters of a slice.
LEMMA SameName ==
  ASSUME NEW s \in Name, NEW t \in Name, Len(s) = Len(t), \A i \in 1 .. Len(s) : s[i] = t[i]
  PROVE  s = t
<1>1. s = [i \in 1 .. Len(s) |-> s[i]] /\ t = [i \in 1 .. Len(t) |-> t[i]]
  BY DEF Name
<1>. QED
  BY <1>1

LEMMA PieceIs ==
  ASSUME NEW s \in Name, NEW i \in Nat \ {0}, NEW j \in Nat, i <= j + 1, j <= Len(s)
  PROVE  /\ SubSeq(s, i, j) \in Name /\ Len(SubSeq(s, i, j)) = (j - i) + 1
         /\ \A k \in 1 .. (j - i) + 1 : SubSeq(s, i, j)[k] = s[(i + k) - 1]
BY DEF Name

\* s begins with pre and ends with suf, and they do not overlap.
Framed(pre, suf, s) ==
  /\ Len(pre) + Len(suf) <= Len(s)
  /\ \A i \in 1 .. Len(pre) : s[i] = pre[i]
  /\ \A i \in 1 .. Len(suf) : s[(Len(s) - Len(suf)) + i] = suf[i]

\* The code's test of a label: strip the prefix, then look for the suffix in the rest.
LEMMA SearchIsFramed ==
  ASSUME NEW pre \in Name, NEW suf \in Name, NEW s \in Name
  PROVE  IsPrefix(pre, s) /\ IsSuffix(suf, From(s, Len(pre) + 1)) <=> Framed(pre, suf, s)
<1>1. Len(pre) \in Nat /\ Len(suf) \in Nat /\ Len(s) \in Nat
  BY DEF Name
<1>2. CASE ~(Len(pre) <= Len(s))
  BY <1>1, <1>2, PrefixIs DEF Framed
<1>3. CASE Len(pre) <= Len(s)
  <2>. DEFINE r == From(s, Len(pre) + 1)
  <2>1. /\ r \in Name /\ Len(r) = Len(s) - Len(pre)
        /\ \A k \in 1 .. Len(s) - Len(pre) : r[k] = s[Len(pre) + k]
    <3>1. (Len(s) - (Len(pre) + 1)) + 1 = Len(s) - Len(pre)
          /\ \A k \in Nat : ((Len(pre) + 1) + k) - 1 = Len(pre) + k
      BY <1>1
    <3>2. /\ r \in Name /\ Len(r) = (Len(s) - (Len(pre) + 1)) + 1
          /\ \A k \in 1 .. (Len(s) - (Len(pre) + 1)) + 1 : r[k] = s[((Len(pre) + 1) + k) - 1]
      BY <1>1, <1>3, PieceIs DEF From
    <3>. HIDE DEF r
    <3>3. ASSUME NEW k \in 1 .. Len(s) - Len(pre) PROVE r[k] = s[Len(pre) + k]
      <4>1. k \in 1 .. (Len(s) - (Len(pre) + 1)) + 1 /\ ((Len(pre) + 1) + k) - 1 = Len(pre) + k
        BY <1>1
      <4>2. r[k] = s[((Len(pre) + 1) + k) - 1]
        BY <3>2, <4>1
      <4>. QED
        BY <4>1, <4>2
    <3>. QED
      BY <3>1, <3>2, <3>3
  <2>. HIDE DEF r
  <2>2. IsSuffix(suf, r) <=> /\ Len(suf) <= Len(r)
                             /\ \A i \in 1 .. Len(suf) : suf[i] = r[(Len(r) - Len(suf)) + i]
    BY <2>1, SuffixIs
  <2>3. ASSUME Len(suf) <= Len(r), NEW i \in 1 .. Len(suf)
        PROVE  r[(Len(r) - Len(suf)) + i] = s[(Len(s) - Len(suf)) + i]
    <3>1. (Len(r) - Len(suf)) + i \in 1 .. Len(s) - Len(pre)
      BY <1>1, <2>1, <2>3
    <3>2. Len(pre) + ((Len(r) - Len(suf)) + i) = (Len(s) - Len(suf)) + i
      BY <1>1, <2>1
    <3>. QED
      BY <2>1, <3>1, <3>2
  <2>4. IsSuffix(suf, r) <=> /\ Len(pre) + Len(suf) <= Len(s)
                             /\ \A i \in 1 .. Len(suf) : s[(Len(s) - Len(suf)) + i] = suf[i]
    BY <1>1, <2>1, <2>2, <2>3
  <2>. QED
    BY <1>1, <1>3, <2>4, PrefixIs DEF Framed, r
<1>. QED
  BY <1>2, <1>3

\* The reference's: prefix, anything, suffix.
LEMMA ConcatIsFramed ==
  ASSUME NEW pre \in Name, NEW mid \in Name, NEW suf \in Name
  PROVE  Framed(pre, suf, pre \o mid \o suf)
<1>1. Len(pre) \in Nat /\ Len(suf) \in Nat /\ Len(mid) \in Nat
  BY DEF Name
<1>2. /\ Len(pre \o mid \o suf) = Len(pre) + Len(mid) + Len(suf)
      /\ \A i \in 1 .. Len(pre) : (pre \o mid \o suf)[i] = pre[i]
  BY DEF Name
<1>3. \A i \in 1 .. Len(suf) : (pre \o mid \o suf)[(Len(pre) + Len(mid)) + i] = suf[i]
  BY DEF Name
<1>4. (Len(pre) + Len(mid) + Len(suf)) - Len(suf) = Len(pre) + Len(mid)
  BY <1>1
<1>. QED
  BY <1>1, <1>2, <1>3, <1>4 DEF Framed

LEMMA FramedIsConcat ==
  ASSUME NEW pre \in Name, NEW suf \in Name, NEW s \in Name, Framed(pre, suf, s)
  PROVE  s = pre \o SubSeq(s, Len(pre) + 1, Len(s) - Len(suf)) \o suf
<1>. DEFINE i == Len(pre) + 1
            j == Len(s) - Len(suf)
            mid == SubSeq(s, i, j)
<1>1. /\ Len(pre) \in Nat /\ Len(suf) \in Nat /\ Len(s) \in Nat
      /\ i \in Nat \ {0} /\ j \in Nat /\ i <= j + 1 /\ j <= Len(s)
  BY DEF Name, Framed
<1>2. /\ mid \in Name /\ Len(mid) = (j - i) + 1
      /\ \A k \in 1 .. (j - i) + 1 : mid[k] = s[(i + k) - 1]
  BY <1>1, PieceIs
<1>3. Len(mid) = Len(s) - Len(pre) - Len(suf)
  BY <1>1, <1>2
<1>4. \A k \in 1 .. Len(mid) : mid[k] = s[Len(pre) + k]
  BY <1>1, <1>2
<1>. HIDE DEF mid
<1>5. pre \o mid \o suf \in Name /\ Len(pre \o mid \o suf) = Len(s)
  BY <1>1, <1>2, <1>3 DEF Name
<1>6. ASSUME NEW k \in 1 .. Len(s) PROVE (pre \o mid \o suf)[k] = s[k]
  <2>1. CASE k <= Len(pre)
    BY <1>1, <1>2, <2>1 DEF Name, Framed
  <2>2. CASE k > Len(pre) /\ k <= Len(pre) + Len(mid)
    <3>1. (pre \o mid \o suf)[k] = mid[k - Len(pre)]
      BY <1>1, <1>2, <2>2 DEF Name
    <3>2. k - Len(pre) \in 1 .. Len(mid) /\ Len(pre) + (k - Len(pre)) = k
      BY <1>1, <1>2, <2>2 DEF Name
    <3>3. mid[k - Len(pre)] = s[Len(pre) + (k - Len(pre))]
      BY <1>4, <3>2
    <3>. QED
      BY <3>1, <3>2, <3>3
  <2>3. CASE k > Len(pre) + Len(mid)
    <3>. DEFINE m == k - (Len(pre) + Len(mid))
    <3>1. m \in 1 .. Len(suf) /\ (Len(s) - Len(suf)) + m = k
      BY <1>1, <1>2, <1>3, <2>3 DEF Name
    <3>2. (pre \o mid \o suf)[k] = suf[m]
      <4>. DEFINE front == pre \o mid
      <4>1. front \in Seq(STRING) /\ suf \in Seq(STRING) /\ Len(front) = Len(pre) + Len(mid)
        BY <1>2 DEF Name
      <4>. HIDE DEF front
      <4>2. k \in Len(front) + 1 .. Len(front) + Len(suf) /\ Len(front) \in Nat
        BY <1>1, <1>2, <2>3, <3>1, <4>1 DEF Name
      <4>3. (front \o suf)[k] = suf[k - Len(front)]
        BY <4>1, <4>2
      <4>. QED
        BY <4>1, <4>3 DEF front
    <3>3. s[(Len(s) - Len(suf)) + m] = suf[m]
      BY <3>1 DEF Framed
    <3>. QED
      BY <3>1, <3>2, <3>3
  <2>. QED
    BY <1>1, <1>2, <2>1, <2>2, <2>3
<1>7. s = pre \o mid \o suf
  BY <1>5, <1>6, SameName
<1>. QED
  BY <1>7 DEF mid

\* Slices that may be empty.
LEMMA AnyPiece ==
  ASSUME NEW s \in Name, NEW i \in Nat \ {0}, NEW j \in Nat, j <= Len(s)
  PROVE  SubSeq(s, i, j) \in Name
BY DEF Name

\* A further dot is a dot found in the rest of the pattern.
LEMMA LabelAfter ==
  ASSUME NEW p \in Name, NEW dot \in 1 .. Len(p)
  PROVE  Find(From(p, dot + 1), ".") = 0 <=> ~ \E k \in (dot + 1) .. Len(p) : p[k] = "."
<1>. DEFINE r == From(p, dot + 1)
<1>1. Len(p) \in Nat
  BY DEF Name
<1>2. /\ r \in Name /\ Len(r) = (Len(p) - (dot + 1)) + 1
      /\ \A k \in 1 .. (Len(p) - (dot + 1)) + 1 : r[k] = p[((dot + 1) + k) - 1]
  BY <1>1, PieceIs DEF From
<1>. HIDE DEF r
<1>3. Find(r, ".") = 0 <=> \A i \in 1 .. Len(r) : r[i] # "."
  BY <1>2, FindIs
<1>4. ASSUME \A i \in 1 .. Len(r) : r[i] # ".", NEW k \in (dot + 1) .. Len(p) PROVE p[k] # "."
  <2>1. k - dot \in 1 .. Len(r) /\ ((dot + 1) + (k - dot)) - 1 = k
    BY <1>1, <1>2
  <2>2. r[k - dot] = p[((dot + 1) + (k - dot)) - 1]
    BY <1>2, <2>1
  <2>. QED
    BY <1>4, <2>1, <2>2
<1>5. ASSUME ~ \E k \in (dot + 1) .. Len(p) : p[k] = ".", NEW i \in 1 .. Len(r) PROVE r[i] # "."
  <2>1. ((dot + 1) + i) - 1 \in (dot + 1) .. Len(p)
    BY <1>1, <1>2
  <2>. QED
    BY <1>2, <1>5, <2>1
<1>. QED
  BY <1>3, <1>4, <1>5 DEF r

\* What stands between prefix and suffix is a piece of the host.
LEMMA MiddleIsFramed ==
  ASSUME NEW h \in Name, NEW cut \in 1 .. Len(h), NEW pre \in Name, NEW suf \in Name,
         NEW label, label = SubSeq(h, 1, cut - 1)
  PROVE  (\E i \in 1 .. cut, j \in 0 .. (cut - 1) : label = pre \o SubSeq(h, i, j) \o suf)
           <=> Framed(pre, suf, label)
<1>1. Len(h) \in Nat /\ Len(pre) \in Nat /\ Len(suf) \in Nat
  BY DEF Name
<1>2. /\ label \in Name /\ Len(label) = cut - 1
      /\ \A k \in 1 .. cut - 1 : label[k] = h[k]
  <2>1. /\ label \in Name /\ Len(label) = ((cut - 1) - 1) + 1
        /\ \A k \in 1 .. ((cut - 1) - 1) + 1 : label[k] = h[(1 + k) - 1]
    BY <1>1, PieceIs
  <2>2. ((cut - 1) - 1) + 1 = cut - 1
    BY <1>1
  <2>3. ASSUME NEW k \in 1 .. cut - 1 PROVE label[k] = h[k]
    <3>1. (1 + k) - 1 = k /\ k \in 1 .. ((cut - 1) - 1) + 1
      BY <1>1
    <3>2. label[k] = h[(1 + k) - 1]
      BY <2>1, <3>1
    <3>. QED
      BY <3>1, <3>2
  <2>. QED
    BY <2>1, <2>2, <2>3
<1>3. ASSUME NEW i \in 1 .. cut, NEW j \in 0 .. (cut - 1), label = pre \o SubSeq(h, i, j) \o suf
      PROVE  Framed(pre, suf, label)
  <2>1. SubSeq(h, i, j) \in Name
    BY <1>1, AnyPiece
  <2>. QED
    BY <1>3, <2>1, ConcatIsFramed
<1>4. ASSUME Framed(pre, suf, label)
      PROVE  \E i \in 1 .. cut, j \in 0 .. (cut - 1) : label = pre \o SubSeq(h, i, j) \o suf
  <2>. DEFINE i == Len(pre) + 1
              j == Len(label) - Len(suf)
  <2>1. label = pre \o SubSeq(label, i, j) \o suf
    BY <1>2, <1>4, FramedIsConcat
  <2>2. i \in 1 .. cut /\ j \in 0 .. (cut - 1) /\ i <= j + 1
    BY <1>1, <1>2, <1>4 DEF Framed
  <2>3. SubSeq(label, i, j) = SubSeq(h, i, j)
    <3>. HIDE DEF i, j
    <3>0. i \in Nat \ {0} /\ j \in Nat /\ i <= j + 1 /\ j <= Len(label) /\ j <= Len(h)
      BY <1>1, <1>2, <2>2
    <3>1. /\ SubSeq(label, i, j) \in Name /\ Len(SubSeq(label, i, j)) = (j - i) + 1
          /\ \A k \in 1 .. (j - i) + 1 : SubSeq(label, i, j)[k] = label[(i + k) - 1]
      BY <1>2, <3>0, PieceIs
    <3>2. /\ SubSeq(h, i, j) \in Name /\ Len(SubSeq(h, i, j)) = (j - i) + 1
          /\ \A k \in 1 .. (j - i) + 1 : SubSeq(h, i, j)[k] = h[(i + k) - 1]
      BY <3>0, PieceIs
    <3>3. \A k \in 1 .. (j - i) + 1 : (i + k) - 1 \in 1 .. cut - 1
      BY <1>1, <2>2
    <3>4. \A k \in 1 .. (j - i) + 1 : SubSeq(label, i, j)[k] = SubSeq(h, i, j)[k]
      BY <1>2, <3>1, <3>2, <3>3
    <3>. QED
      BY <3>1, <3>2, <3>4, SameName
  <2>. HIDE DEF i, j
  <2>. QED
    BY <2>1, <2>2, <2>3
<1>. QED
  BY <1>3, <1>4

\* The first cut - 1 characters of h are pre, a piece of h, and suf.
Between(h, cut, pre, suf) ==
  \E i \in 1 .. cut, j \in 0 .. (cut - 1) :
    SubSeq(h, 1, cut - 1) = pre \o SubSeq(h, i, j) \o suf

LEMMA BetweenIsFramed ==
  ASSUME NEW h \in Name, NEW cut \in 1 .. Len(h), NEW pre \in Name, NEW suf \in Name
  PROVE  Between(h, cut, pre, suf) <=> Framed(pre, suf, SubSeq(h, 1, cut - 1))
<1>. DEFINE label == SubSeq(h, 1, cut - 1)
<1>1. (\E i \in 1 .. cut, j \in 0 .. (cut - 1) : label = pre \o SubSeq(h, i, j) \o suf)
        <=> Framed(pre, suf, label)
  BY MiddleIsFramed
<1>. QED
  BY <1>1 DEF Between

\* The pattern has a wildcard that the code takes as one, and the host a label
\* to match it with.
Wild(p, h, isIp) ==
  /\ ~ isIp
  /\ ~ (p # <<>> /\ p[1] = "x")
  /\ Find(p, "*") # 0
  /\ Find(p, ".") # 0
  /\ Find(From(p, Find(p, ".") + 1), ".") # 0
  /\ ~ (Find(p, "*") > Find(p, "."))
  /\ Find(h, ".") # 0

\* matches_wildcard: None unless the wildcard counts, and then the test of the label.
LEMMA WildcardIs ==
  ASSUME NEW p, NEW h, NEW isIp, NEW w, w = matches_wildcard(p, h, isIp)
  PROVE  /\ ~ Wild(p, h, isIp) => w = "none"
         /\ Wild(p, h, isIp) =>
              /\ w # "none"
              /\ w = "yes" <=>
                   /\ From(p, Find(p, ".")) = From(h, Find(h, "."))
                   /\ IsPrefix(SubSeq(p, 1, Find(p, "*") - 1), SubSeq(h, 1, Find(h, ".") - 1))
                   /\ IsSuffix(SubSeq(p, Find(p, "*") + 1, Find(p, ".") - 1),
                               From(SubSeq(h, 1, Find(h, ".") - 1), Len(SubSeq(p, 1, Find(p, "*") - 1)) + 1))
BY DEF matches_wildcard, Wild

LEMMA FoundAt ==
  ASSUME NEW s \in Name, NEW c, Find(s, c) # 0
  PROVE  Find(s, c) \in 1 .. Len(s) /\ s[Find(s, c)] = c
<1>1. Find(s, c) \in 0 .. Len(s) /\ Splits(s, c) = {Find(s, c)} /\ Len(s) \in Nat
  BY FindIs DEF Name
<1>. QED
  BY <1>1 DEF Splits

\* A pattern matches itself, so that equality needs no case of its own.
LEMMA EqualIsFramed ==
  ASSUME NEW p \in Name, NEW star \in 1 .. Len(p), NEW dot \in 1 .. Len(p), star < dot
  PROVE  Framed(SubSeq(p, 1, star - 1), SubSeq(p, star + 1, dot - 1), SubSeq(p, 1, dot - 1))
<1>. DEFINE pre == SubSeq(p, 1, star - 1)
            suf == SubSeq(p, star + 1, dot - 1)
            label == SubSeq(p, 1, dot - 1)
<1>1. Len(p) \in Nat
  BY DEF Name
<1>2. Len(pre) = star - 1 /\ \A k \in 1 .. star - 1 : pre[k] = p[k]
  BY <1>1 DEF Name
<1>3. Len(suf) = (dot - 1) - star /\ \A k \in 1 .. (dot - 1) - star : suf[k] = p[star + k]
  BY <1>1 DEF Name
<1>4. Len(label) = dot - 1 /\ \A k \in 1 .. dot - 1 : label[k] = p[k]
  BY <1>1 DEF Name
<1>. HIDE DEF pre, suf, label
<1>5. Len(pre) + Len(suf) <= Len(label) /\ Len(label) - Len(suf) = star
  BY <1>1, <1>2, <1>3, <1>4
<1>6. \A k \in 1 .. Len(pre) : label[k] = pre[k]
  BY <1>1, <1>2, <1>4
<1>7. \A k \in 1 .. Len(suf) : label[star + k] = suf[k]
  BY <1>1, <1>3, <1>4
<1>8. Framed(pre, suf, label)
  BY <1>5, <1>6, <1>7 DEF Framed
<1>. QED
  BY <1>8 DEF pre, suf, label

\* Covers, without and with a wildcard that counts.
LEMMA CoversTame ==
  ASSUME NEW p \in Name, NEW h \in Name, NEW isIp \in BOOLEAN, ~ Wild(p, h, isIp)
  PROVE  Covers(p, h, isIp) <=> p = h
<1>1. ASSUME ~ isIp,
             NEW star \in Splits(p, "*"), NEW dot \in Splits(p, "."), NEW cut \in Splits(h, "."),
             p[1] # "x", star < dot, \E k \in (dot + 1) .. Len(p) : p[k] = "."
      PROVE  FALSE
  <2>1. /\ Find(p, "*") # 0 /\ star = Find(p, "*")
        /\ Find(p, ".") # 0 /\ dot = Find(p, ".")
        /\ Find(h, ".") # 0 /\ cut = Find(h, ".")
    BY FindIs
  <2>2. star \in 1 .. Len(p) /\ dot \in 1 .. Len(p) /\ Len(p) \in Nat
    BY <2>1, FoundAt DEF Name
  <2>3. Find(From(p, dot + 1), ".") # 0
    BY <1>1, <2>2, LabelAfter
  <2>4. ~ (star > dot)
    BY <1>1, <2>2
  <2>. QED
    BY <1>1, <2>1, <2>3, <2>4 DEF Wild
<1>. QED
  BY <1>1 DEF Covers

LEMMA CoversWild ==
  ASSUME NEW p \in Name, NEW h \in Name, NEW isIp \in BOOLEAN, Wild(p, h, isIp),
         NEW star, star = Find(p, "*"), NEW dot, dot = Find(p, "."), NEW cut, cut = Find(h, ".")
  PROVE  Covers(p, h, isIp) <=>
           /\ From(p, dot) = From(h, cut)
           /\ Framed(SubSeq(p, 1, star - 1), SubSeq(p, star + 1, dot - 1), SubSeq(h, 1, cut - 1))
<1>1. /\ star \in 1 .. Len(p) /\ p[star] = "*"
      /\ dot \in 1 .. Len(p) /\ p[dot] = "."
      /\ cut \in 1 .. Len(h)
      /\ Splits(p, "*") = {star} /\ Splits(p, ".") = {dot} /\ Splits(h, ".") = {cut}
  BY FoundAt, FindIs DEF Wild
<1>2. Len(p) \in Nat /\ Len(h) \in Nat /\ p # <<>> /\ p[1] # "x" /\ ~ isIp
  BY <1>1 DEF Name, Wild
<1>3. star < dot
  <2>1. star # dot /\ ~ (star > dot)
    BY <1>1 DEF Wild
  <2>. QED
    BY <1>1, <1>2, <2>1
<1>4. \E k \in (dot + 1) .. Len(p) : p[k] = "."
  BY <1>1, LabelAfter DEF Wild
<1>. DEFINE pre == SubSeq(p, 1, star - 1)
            suf == SubSeq(p, star + 1, dot - 1)
            label == SubSeq(h, 1, cut - 1)
            Middle == Between(h, cut, pre, suf)
            Tail1 == SubSeq(p, dot, Len(p)) = SubSeq(h, cut, Len(h))
<1>5. pre \in Name /\ suf \in Name
  BY <1>1, <1>2, <1>3, AnyPiece
<1>6. Middle <=> Framed(pre, suf, label)
  <2>. HIDE DEF pre, suf
  <2>. QED
    BY <1>1, <1>5, BetweenIsFramed
<1>7. Covers(p, h, isIp) <=> p = h \/ (Tail1 /\ Middle)
  <2>1. ASSUME Covers(p, h, isIp), p # h
        PROVE  Tail1 /\ Middle
    BY <1>1, <2>1 DEF Covers, Between
  <2>2. ASSUME Tail1, Middle
        PROVE  Covers(p, h, isIp)
    <3>1. star \in Splits(p, "*") /\ dot \in Splits(p, ".") /\ cut \in Splits(h, ".")
      BY <1>1
    <3>2. \E i \in 1 .. cut, j \in 0 .. (cut - 1) :
             SubSeq(h, 1, cut - 1) = SubSeq(p, 1, star - 1) \o SubSeq(h, i, j)
                                       \o SubSeq(p, star + 1, dot - 1)
      BY <2>2 DEF Between
    <3>. QED
      BY <1>2, <1>3, <1>4, <2>2, <3>1, <3>2, Zenon DEF Covers
  <2>. QED
    BY <2>1, <2>2 DEF Covers
<1>8. p = h => Tail1 /\ Framed(pre, suf, label)
  BY <1>1, <1>3, EqualIsFramed
<1>. QED
  BY <1>6, <1>7, <1>8 DEF From

\* matches_wildcard and the comparison of matches_dns agree with Covers.
LEMMA MatchesIsCovers ==
  ASSUME NEW p \in Name, NEW h \in Name, NEW isIp \in BOOLEAN,
         NEW w, w = matches_wildcard(p, h, isIp)
  PROVE  (IF w = "none" THEN p = h ELSE w = "yes") <=> Covers(p, h, isIp)
<1>1. CASE ~ Wild(p, h, isIp)
  BY <1>1, WildcardIs, CoversTame
<1>2. CASE Wild(p, h, isIp)
  <2>. DEFINE star == Find(p, "*")
              dot == Find(p, ".")
              cut == Find(h, ".")
              pre == SubSeq(p, 1, star - 1)
              suf == SubSeq(p, star + 1, dot - 1)
              label == SubSeq(h, 1, cut - 1)
  <2>1. star \in 1 .. Len(p) /\ dot \in 1 .. Len(p) /\ cut \in 1 .. Len(h) /\ Len(p) \in Nat /\ Len(h) \in Nat
    BY <1>2, FoundAt DEF Name, Wild
  <2>2. pre \in Name /\ suf \in Name /\ label \in Name
    <3>. HIDE DEF star, dot, cut
    <3>. QED
      BY <2>1, AnyPiece
  <2>3. /\ w # "none"
        /\ w = "yes" <=> /\ From(p, dot) = From(h, cut)
                         /\ IsPrefix(pre, label)
                         /\ IsSuffix(suf, From(label, Len(pre) + 1))
    BY <1>2, WildcardIs
  <2>4. Covers(p, h, isIp) <=> From(p, dot) = From(h, cut) /\ Framed(pre, suf, label)
    BY <1>2, CoversWild
  <2>. HIDE DEF pre, suf, label, star, dot, cut
  <2>5. IsPrefix(pre, label) /\ IsSuffix(suf, From(label, Len(pre) + 1)) <=> Framed(pre, suf, label)
    BY <2>2, SearchIsFramed
  <2>. QED
    BY <2>3, <2>4, <2>5
<1>. QED
  BY <1>1, <1>2

LEMMA StrippedIsName ==
  ASSUME NEW s \in Name
  PROVE  Stripped(s) \in Name
<1>1. CASE s # <<>>
  <2>1. Len(s) - 1 \in Nat /\ Len(s) - 1 <= Len(s)
    BY <1>1 DEF Name
  <2>2. SubSeq(s, 1, Len(s) - 1) \in Name
    BY <2>1, AnyPiece
  <2>. QED
    BY <2>2 DEF Stripped, Front
<1>2. CASE s = <<>>
  BY <1>2 DEF Stripped
<1>. QED
  BY <1>1, <1>2

LEMMA DnsIsCovers ==
  ASSUME NEW p \in Name, NEW h \in Name, NEW isIp \in BOOLEAN
  PROVE  matches_dns(p, h, isIp) <=> Covers(Stripped(p), Stripped(h), isIp)
<1>. DEFINE w == matches_wildcard(Stripped(p), Stripped(h), isIp)
<1>1. (IF w = "none" THEN Stripped(p) = Stripped(h) ELSE w = "yes")
        <=> Covers(Stripped(p), Stripped(h), isIp)
  BY StrippedIsName, MatchesIsCovers
<1>. QED
  BY <1>1 DEF matches_dns

LEMMA ParsedIsIp ==
  ASSUME NEW d
  PROVE  /\ ParseIp(d) # NoIp <=> d \in DOMAIN IpOf
         /\ d \in DOMAIN IpOf => ParseIp(d) = IpOf[d]
BY HostAssumption DEF ParseIp

\* verify_hostname accepts exactly the certificates that are for the domain.
LEMMA VerifiedIsFor ==
  ASSUME NEW d \in Hosts, NEW cert, IsCert(cert)
  PROVE  verify_hostname(d, cert) <=> IsFor(cert, d)
<1>1. d \in Name
  BY HostAssumption
<1>2. CASE cert.san # NoSan
  <2>. DEFINE san == cert.san
              Asked(i) == IF ParseIp(d) # NoIp
                          THEN san[i].kind = "ip" /\ matches_ip(ParseIp(d), san[i].value)
                          ELSE san[i].kind = "dns" /\ matches_dns(san[i].value, d, FALSE)
              Named(n) == IF d \in DOMAIN IpOf
                          THEN /\ n.kind = "ip"
                               /\ n.value.octets = IpOf[d].octets
                               /\ n.value.len = (IF IpOf[d].family = "v4" THEN 4 ELSE 16)
                          ELSE n.kind = "dns" /\ Covers(Stripped(n.value), Stripped(d), FALSE)
  <2>1. \A i \in DOMAIN san : san[i].kind = "dns" => san[i].value \in Name
    BY <1>2 DEF IsCert
  <2>2. ASSUME NEW i \in DOMAIN san
        PROVE  Asked(i) <=> Named(san[i])
    <3>1. CASE d \in DOMAIN IpOf
      BY <3>1, ParsedIsIp DEF matches_ip
    <3>2. CASE d \notin DOMAIN IpOf
      <4>1. ASSUME san[i].kind = "dns"
            PROVE  matches_dns(san[i].value, d, FALSE) <=> Covers(Stripped(san[i].value), Stripped(d), FALSE)
        <5>1. san[i].value \in Name
          BY <2>1, <4>1
        <5>. QED
          BY <1>1, <5>1, DnsIsCovers
      <4>2. ~ (ParseIp(d) # NoIp)
        BY <3>2, ParsedIsIp
      <4>. QED
        BY <3>2, <4>1, <4>2
    <3>. QED
      BY <3>1, <3>2
  <2>. HIDE DEF Named, Asked
  <2>3. (\E i \in DOMAIN san : Asked(i)) <=> (\E n \in ToSet(san) : Named(n))
    BY <2>2 DEF ToSet
  <2>4. verify_hostname(d, cert) <=> \E i \in DOMAIN san : Asked(i)
    BY <1>2 DEF verify_hostname, verify_subject_alt_names, Asked
  <2>5. IsFor(cert, d) <=> \E n \in ToSet(san) : Named(n)
    BY <1>2 DEF IsFor, Named
  <2>. QED
    BY <2>3, <2>4, <2>5
<1>3. CASE cert.san = NoSan
  <2>1. CASE cert.cn = <<>>
    BY <1>3, <2>1 DEF verify_hostname, verify_subject_name, IsFor
  <2>2. CASE cert.cn # <<>>
    <3>1. Head(cert.cn) = cert.cn[1] /\ cert.cn[1].value \in Name
      <4>. DEFINE CnEntry == [kind : STRING, value : Name]
      <4>1. cert.cn \in Seq(CnEntry)
        BY DEF IsCert
      <4>. HIDE DEF CnEntry
      <4>2. Head(cert.cn) = cert.cn[1] /\ cert.cn[1] \in CnEntry
        BY <2>2, <4>1
      <4>3. \A e \in CnEntry : e.value \in Name
        BY DEF CnEntry
      <4>. QED
        BY <4>2, <4>3
    <3>2. (ParseIp(d) # NoIp) = (d \in DOMAIN IpOf)
      <4>1. CASE d \in DOMAIN IpOf
        <5>1. ParseIp(d) # NoIp
          BY <4>1, ParsedIsIp
        <5>. QED
          BY <4>1, <5>1, Zenon
      <4>2. CASE d \notin DOMAIN IpOf
        <5>1. ~ (ParseIp(d) # NoIp)
          BY <4>2, ParsedIsIp
        <5>. QED
          BY <4>2, <5>1
      <4>. QED
        BY <4>1, <4>2
    <3>3. \A b \in BOOLEAN : matches_dns(cert.cn[1].value, d, b)
                                <=> Covers(Stripped(cert.cn[1].value), Stripped(d), b)
      BY <1>1, <3>1, DnsIsCovers
    <3>4. matches_dns(cert.cn[1].value, d, ParseIp(d) # NoIp)
            <=> Covers(Stripped(cert.cn[1].value), Stripped(d), d \in DOMAIN IpOf)
      BY <3>2, <3>3, Zenon
    <3>. QED
      BY <1>3, <2>2, <3>1, <3>4 DEF verify_hostname, verify_subject_name, IsFor
  <2>. QED
    BY <2>1, <2>2
<1>. QED
  BY <1>2, <1>3

\* What one session keeps: nothing before connect; while the chain is verified
\* the name asked for, with every certificate above the depth found valid; and
\* then the verdict.
SessionInv(s) ==
  /\ state[s] = "configured" => asked[s] = NoHost /\ hostname[s] = NoHost /\ chain[s] = <<>>
  /\ state[s] = "verifying" =>
       /\ hostname[s] = asked[s]
       /\ chain[s] \in Chains
       /\ depth[s] < Len(chain[s])
       /\ \A i \in DOMAIN chain[s] : i > depth[s] + 1 => chain[s][i].valid
  /\ state[s] = "connected" =>
       /\ ChainValid(chain[s])
       /\ asked[s] # NoHost => IsFor(chain[s][1], asked[s])
  /\ (state[s] = "failed" /\ chain[s] # <<>> /\ ChainValid(chain[s])) =>
       (asked[s] # NoHost /\ ~ IsFor(chain[s][1], asked[s]))

HostInv == HostTypeOK /\ \A s \in Sessions : SessionInv(s)

\* The steps of a session.
LEMMA HostInitial == HostInit => HostInv
<1>. SUFFICES ASSUME HostInit PROVE HostInv
  OBVIOUS
<1>1. HostTypeOK
  BY DEF HostInit, HostTypeOK, States
<1>2. ASSUME NEW s \in Sessions PROVE SessionInv(s)
  BY DEF HostInit, SessionInv
<1>. QED
  BY <1>1, <1>2 DEF HostInv

\* A session is untouched by the steps of the others.
LEMMA OtherSession ==
  ASSUME NEW t \in Sessions, SessionInv(t),
         state'[t] = state[t], asked'[t] = asked[t], hostname'[t] = hostname[t],
         chain'[t] = chain[t], depth'[t] = depth[t]
  PROVE  SessionInv(t)'
BY DEF SessionInv, ChainValid, IsFor

LEMMA ConnectKeeps ==
  ASSUME HostInv, NEW s \in Sessions, NEW d \in Hosts, connect(s, d, Chains)
  PROVE  HostInv'
<1>1. CASE setup_verify_hostname(s, d) /\ Handshake(s, Chains)
  <2>1. PICK c \in Chains : /\ state' = [state EXCEPT ![s] = "verifying"]
                            /\ chain' = [chain EXCEPT ![s] = c]
                            /\ depth' = [depth EXCEPT ![s] = Len(c) - 1]
    BY <1>1 DEF Handshake
  <2>2. /\ asked' = [asked EXCEPT ![s] = d]
        /\ hostname' = [hostname EXCEPT ![s] = d]
    BY <1>1 DEF connect, setup_verify_hostname
  <2>3. Len(c) \in Nat \ {0} /\ DOMAIN c = 1 .. Len(c)
    BY HostAssumption
  <2>4. HostTypeOK'
    BY <2>1, <2>2, <2>3 DEF HostInv, HostTypeOK, States
  <2>5. SessionInv(s)'
    <3>1. /\ state'[s] = "verifying" /\ asked'[s] = d /\ hostname'[s] = d
          /\ chain'[s] = c /\ depth'[s] = Len(c) - 1
      BY <2>1, <2>2 DEF HostInv, HostTypeOK
    <3>2. ~ \E i \in DOMAIN c : i > (Len(c) - 1) + 1
      BY <2>3
    <3>. QED
      BY <2>3, <3>1, <3>2 DEF SessionInv
  <2>6. ASSUME NEW t \in Sessions, t # s PROVE SessionInv(t)'
    BY <2>1, <2>2, <2>6, OtherSession DEF HostInv, HostTypeOK
  <2>. QED
    BY <2>4, <2>5, <2>6 DEF HostInv
<1>2. CASE state' = [state EXCEPT ![s] = "failed"] /\ UNCHANGED <<hostname, chain, depth>>
  <2>1. asked' = [asked EXCEPT ![s] = d] /\ state[s] = "configured"
    BY DEF connect
  <2>2. HostTypeOK'
    BY <1>2, <2>1 DEF HostInv, HostTypeOK, States
  <2>3. SessionInv(s)'
    BY <1>2, <2>1 DEF HostInv, HostTypeOK, SessionInv
  <2>4. ASSUME NEW t \in Sessions, t # s PROVE SessionInv(t)'
    BY <1>2, <2>1, <2>4, OtherSession DEF HostInv, HostTypeOK
  <2>. QED
    BY <2>2, <2>3, <2>4 DEF HostInv
<1>. QED
  BY <1>1, <1>2 DEF connect

LEMMA DangerConnectKeeps ==
  ASSUME HostInv, NEW s \in Sessions, danger_connect(s, Chains)
  PROVE  HostInv'
<1>1. PICK c \in Chains : /\ state' = [state EXCEPT ![s] = "verifying"]
                          /\ chain' = [chain EXCEPT ![s] = c]
                          /\ depth' = [depth EXCEPT ![s] = Len(c) - 1]
  BY DEF danger_connect, Handshake
<1>2. state[s] = "configured" /\ asked' = asked /\ hostname' = hostname
  BY DEF danger_connect
<1>3. Len(c) \in Nat \ {0} /\ DOMAIN c = 1 .. Len(c)
  BY HostAssumption
<1>4. HostTypeOK'
  BY <1>1, <1>2, <1>3 DEF HostInv, HostTypeOK, States
<1>5. SessionInv(s)'
  <2>1. /\ state'[s] = "verifying" /\ asked'[s] = NoHost /\ hostname'[s] = NoHost
        /\ chain'[s] = c /\ depth'[s] = Len(c) - 1
    BY <1>1, <1>2 DEF HostInv, HostTypeOK, SessionInv
  <2>2. ~ \E i \in DOMAIN c : i > (Len(c) - 1) + 1
    BY <1>3
  <2>. QED
    BY <1>3, <2>1, <2>2 DEF SessionInv
<1>6. ASSUME NEW t \in Sessions, t # s PROVE SessionInv(t)'
  BY <1>1, <1>2, <1>6, OtherSession DEF HostInv, HostTypeOK
<1>. QED
  BY <1>4, <1>5, <1>6 DEF HostInv

\* The closure accepts a certificate that is valid and, at the leaf, names the
\* host its session was asked for.
LEMMA VerdictIs ==
  ASSUME HostInv, NEW s \in Sessions, state[s] = "verifying",
         NEW cert, cert = chain[s][depth[s] + 1]
  PROVE  /\ Verdict(s, cert.valid, cert) => cert.valid
         /\ (Verdict(s, cert.valid, cert) /\ depth[s] = 0 /\ asked[s] # NoHost) => IsFor(cert, asked[s])
         /\ ~ Verdict(s, cert.valid, cert) /\ cert.valid =>
              depth[s] = 0 /\ asked[s] # NoHost /\ ~ IsFor(cert, asked[s])
<1>1. /\ chain[s] \in Chains /\ depth[s] \in Nat /\ depth[s] < Len(chain[s])
      /\ hostname[s] = asked[s] /\ asked[s] \in Hosts \cup {NoHost}
  BY DEF HostInv, HostTypeOK, SessionInv
<1>2. IsCert(cert)
  BY <1>1, HostAssumption
<1>3. CASE asked[s] = NoHost
  BY <1>1, <1>3 DEF Verdict
<1>4. CASE asked[s] # NoHost
  <2>1. verify_hostname(asked[s], cert) <=> IsFor(cert, asked[s])
    BY <1>1, <1>2, <1>4, VerifiedIsFor
  <2>. QED
    BY <1>1, <1>2, <1>4, <2>1 DEF Verdict, verify_callback, IsCert
<1>. QED
  BY <1>3, <1>4

LEMMA VerifyKeeps ==
  ASSUME HostInv, NEW s \in Sessions, Verify(s)
  PROVE  HostInv'
<1>. DEFINE cert == chain[s][depth[s] + 1]
            accepted == Verdict(s, cert.valid, cert)
<1>1. /\ state[s] = "verifying" /\ asked' = asked /\ hostname' = hostname /\ chain' = chain
      /\ IF ~ accepted
         THEN state' = [state EXCEPT ![s] = "failed"] /\ depth' = depth
         ELSE IF depth[s] > 0
              THEN depth' = [depth EXCEPT ![s] = @ - 1] /\ state' = state
              ELSE state' = [state EXCEPT ![s] = "connected"] /\ depth' = depth
  BY DEF Verify
<1>2. /\ chain[s] \in Chains /\ depth[s] \in Nat /\ depth[s] < Len(chain[s])
      /\ \A i \in DOMAIN chain[s] : i > depth[s] + 1 => chain[s][i].valid
  BY <1>1 DEF HostInv, HostTypeOK, SessionInv
<1>3. Len(chain[s]) \in Nat \ {0} /\ DOMAIN chain[s] = 1 .. Len(chain[s])
  BY <1>2, HostAssumption
<1>4. /\ accepted => cert.valid
      /\ (accepted /\ depth[s] = 0 /\ asked[s] # NoHost) => IsFor(cert, asked[s])
      /\ ~ accepted /\ cert.valid => depth[s] = 0 /\ asked[s] # NoHost /\ ~ IsFor(cert, asked[s])
  BY <1>1, VerdictIs
<1>. HIDE DEF accepted
<1>5. HostTypeOK'
  BY <1>1, <1>2 DEF HostInv, HostTypeOK, States
<1>6. SessionInv(s)'
  <2>1. depth[s] + 1 \in DOMAIN chain[s]
    BY <1>2, <1>3
  <2>2. CASE ~ accepted
    <3>1. state'[s] = "failed" /\ asked'[s] = asked[s] /\ chain'[s] = chain[s]
      BY <1>1, <2>2 DEF HostInv, HostTypeOK
    <3>2. ChainValid(chain[s]) => cert.valid
      BY <2>1 DEF ChainValid
    <3>3. ChainValid(chain[s]) => asked[s] # NoHost /\ ~ IsFor(chain[s][1], asked[s])
      BY <1>2, <1>4, <2>2, <3>2
    <3>4. /\ ChainValid(chain[s]) <=> ChainValid(chain'[s])
          /\ IsFor(chain[s][1], asked[s]) <=> IsFor(chain'[s][1], asked'[s])
      BY <3>1
    <3>. QED
      BY <3>1, <3>3, <3>4 DEF SessionInv
  <2>3. CASE accepted /\ depth[s] > 0
    <3>1. /\ state'[s] = "verifying" /\ asked'[s] = asked[s] /\ chain'[s] = chain[s]
          /\ hostname'[s] = hostname[s] /\ depth'[s] = depth[s] - 1
      BY <1>1, <2>3 DEF HostInv, HostTypeOK
    <3>2. hostname[s] = asked[s]
      BY <1>1 DEF HostInv, SessionInv
    <3>3. ASSUME NEW i \in DOMAIN chain[s], i > (depth[s] - 1) + 1 PROVE chain[s][i].valid
      <4>1. i = depth[s] + 1 \/ i > depth[s] + 1
        BY <1>2, <1>3, <3>3
      <4>. QED
        BY <1>2, <1>4, <2>3, <4>1
    <3>4. depth[s] - 1 < Len(chain[s])
      BY <1>2, <1>3
    <3>. QED
      BY <1>2, <3>1, <3>2, <3>3, <3>4 DEF SessionInv
  <2>4. CASE accepted /\ ~ (depth[s] > 0)
    <3>1. state'[s] = "connected" /\ asked'[s] = asked[s] /\ chain'[s] = chain[s]
      BY <1>1, <2>4 DEF HostInv, HostTypeOK
    <3>2. depth[s] = 0
      BY <1>2, <2>4
    <3>3. ASSUME NEW i \in DOMAIN chain[s] PROVE chain[s][i].valid
      <4>1. i = depth[s] + 1 \/ i > depth[s] + 1
        BY <1>3, <3>2
      <4>. QED
        BY <1>2, <1>4, <2>4, <4>1
    <3>4. ChainValid(chain[s]) /\ (asked[s] # NoHost => IsFor(chain[s][1], asked[s]))
      BY <1>4, <2>4, <3>2, <3>3 DEF ChainValid
    <3>. QED
      BY <3>1, <3>4 DEF SessionInv
  <2>. QED
    BY <2>2, <2>3, <2>4
<1>7. ASSUME NEW t \in Sessions, t # s PROVE SessionInv(t)'
  <2>1. state'[t] = state[t] /\ depth'[t] = depth[t]
    BY <1>1, <1>7 DEF HostInv, HostTypeOK
  <2>. QED
    BY <1>1, <2>1, OtherSession DEF HostInv
<1>. QED
  BY <1>5, <1>6, <1>7 DEF HostInv

LEMMA HostStep == HostInv /\ [HostNext]_hostVars => HostInv'
<1>. SUFFICES ASSUME HostInv, [HostNext]_hostVars PROVE HostInv'
  OBVIOUS
<1>1. CASE HostNext
  BY <1>1, ConnectKeeps, DangerConnectKeeps, VerifyKeeps DEF HostNext, Session
<1>2. CASE UNCHANGED hostVars
  <2>1. UNCHANGED <<state, asked, hostname, chain, depth>>
    BY <1>2 DEF hostVars
  <2>2. HostTypeOK'
    BY <2>1 DEF HostInv, HostTypeOK
  <2>. QED
    BY <2>1, <2>2, OtherSession DEF HostInv
<1>. QED
  BY <1>1, <1>2

\* For every set of hosts, chains and sessions of one connector: connect succeeds only
\* with a valid chain whose leaf names the host its own caller gave, and a valid chain
\* is refused only if its leaf does not (connector.rs, setup_verify and mod verify).
THEOREM HostConnectedIffNamed == HostSpec => []ConnectedIffNamed
<1>1. HostInv => ConnectedIffNamed
  BY DEF HostInv, SessionInv, ConnectedIffNamed, ConnectedIsNamed, RefusedIsNotNamed
<1>. QED
  BY <1>1, HostInitial, HostStep, PTL DEF HostSpec

-----------------------------------------------------------------------------
(***************************************************************************)
(* ProtocolLists.  ssl_encode_byte_strings and the walk of                 *)
(* SSL_select_next_proto are loops over data; what they compute is proved by *)
(* induction with CountUp, from the layout of an encoded list.             *)
(***************************************************************************)

\* Induction up to N, with a set in place of a predicate.
LEMMA CountUp ==
  ASSUME NEW N \in Nat, NEW S, 0 \in S, \A n \in 0 .. N - 1 : n \in S => n + 1 \in S
  PROVE  \A n \in 0 .. N : n \in S
<1>. SUFFICES ASSUME (0 .. N) \ S # {} PROVE FALSE
  OBVIOUS
<1>1. (0 .. N) \ S \in SUBSET Nat
  OBVIOUS
<1>2. PICK x \in (0 .. N) \ S : \A y \in (0 .. N) \ S : x <= y
  BY <1>1, Least
<1>3. x # 0 /\ x \in Nat /\ x <= N
  OBVIOUS
<1>4. x - 1 \in 0 .. N - 1 /\ (x - 1) + 1 = x /\ ~ (x <= x - 1)
  BY <1>3
<1>5. x - 1 \in S
  BY <1>2, <1>4
<1>. QED
  BY <1>4, <1>5

\* f starts with d and applies G[1], G[2] and so on.
Iterated(N, d, G, f) == f[0] = d /\ \A n \in 1 .. N : f[n] = G[n][f[n - 1]]

\* There is such an f.
LEMMA Iterates ==
  ASSUME NEW N \in Nat, NEW D, NEW d \in D, NEW G \in [1 .. N -> [D -> D]]
  PROVE  \E f \in [0 .. N -> D] : Iterated(N, d, G, f)
<1>. DEFINE Good(m, f) == f[0] = d /\ \A n \in 1 .. m : f[n] = G[n][f[n - 1]]
            S == {m \in 0 .. N : \E f \in [0 .. m -> D] : Good(m, f)}
<1>1. 0 \in S
  <2>. DEFINE f == [n \in 0 .. 0 |-> d]
  <2>1. f \in [0 .. 0 -> D] /\ f[0] = d /\ \A n \in 1 .. 0 : f[n] = G[n][f[n - 1]]
    OBVIOUS
  <2>. HIDE DEF f
  <2>2. 0 \in 0 .. N
    OBVIOUS
  <2>. QED
    BY <2>1, <2>2
<1>2. ASSUME NEW m \in 0 .. N - 1, m \in S PROVE m + 1 \in S
  <2>1. PICK f \in [0 .. m -> D] : Good(m, f)
    BY <1>2
  <2>. DEFINE g == [n \in 0 .. m + 1 |-> IF n = m + 1 THEN G[m + 1][f[m]] ELSE f[n]]
  <2>2. m + 1 \in 1 .. N /\ m \in 0 .. m /\ f[m] \in D
    OBVIOUS
  <2>3. G[m + 1][f[m]] \in D
    BY <2>2
  <2>4. g \in [0 .. m + 1 -> D]
    BY <2>3
  <2>5. g[0] = d
    BY <2>1
  <2>6. ASSUME NEW n \in 1 .. m + 1 PROVE g[n] = G[n][g[n - 1]]
    <3>1. CASE n = m + 1
      <4>1. n - 1 = m /\ g[n - 1] = f[m]
        BY <3>1
      <4>. QED
        BY <3>1, <4>1
    <3>2. CASE n # m + 1
      <4>1. n \in 1 .. m /\ n - 1 \in 0 .. m
        BY <3>2
      <4>2. g[n] = f[n] /\ g[n - 1] = f[n - 1]
        BY <4>1
      <4>. QED
        BY <2>1, <4>1, <4>2
    <3>. QED
      BY <3>1, <3>2
  <2>. HIDE DEF g
  <2>. QED
    BY <2>2, <2>4, <2>5, <2>6
<1>. HIDE DEF S
<1>3. \A n \in 0 .. N : n \in S
  BY <1>1, <1>2, CountUp
<1>4. N \in S
  BY <1>3
<1>. QED
  BY <1>4 DEF S, Iterated

\* What a name and a list are.
ByteSeq == Seq(0 .. MaxByte)

\* Their lengths are naturals.
LEMMA ByteSeqLen == \A s \in ByteSeq : Len(s) \in Nat
BY DEF ByteSeq

\* A name that fits is its length and its bytes, another one is nothing.
LEMMA EncodedIs ==
  ASSUME NEW n \in ByteSeq
  PROVE  /\ Encoded(n) \in ByteSeq
         /\ Fits(n) => /\ Len(Encoded(n)) = Len(n) + 1 /\ Encoded(n)[1] = Len(n)
                       /\ \A k \in 1 .. Len(n) : Encoded(n)[k + 1] = n[k]
         /\ ~ Fits(n) => Encoded(n) = <<>>
<1>1. Len(n) \in Nat /\ MaxByte \in Nat
  BY ProtocolsAssumption DEF ByteSeq
<1>2. CASE Fits(n)
  <2>1. Encoded(n) = <<Len(n)>> \o n
    BY <1>2 DEF Encoded
  <2>2. <<Len(n)>> \in Seq(0 .. MaxByte) /\ Len(<<Len(n)>>) = 1
    BY <1>1, <1>2 DEF Fits
  <2>3. Encoded(n) \in ByteSeq /\ Len(Encoded(n)) = Len(n) + 1 /\ Encoded(n)[1] = Len(n)
    BY <1>1, <2>1, <2>2 DEF ByteSeq
  <2>4. \A k \in 1 .. Len(n) : Encoded(n)[k + 1] = n[k]
    BY <1>1, <2>1, <2>2 DEF ByteSeq
  <2>. QED
    BY <1>2, <2>3, <2>4
<1>3. CASE ~ Fits(n)
  BY <1>3 DEF Encoded, ByteSeq
<1>. QED
  BY <1>2, <1>3

\* What FlattenSeq computes, one piece at a time.
LEMMA FlattenIs ==
  ASSUME NEW s \in Seq(ByteSeq)
  PROVE  \E f \in [0 .. Len(s) -> ByteSeq] :
           /\ f[0] = <<>>
           /\ \A n \in 1 .. Len(s) : f[n] = f[n - 1] \o s[n]
           /\ FlattenSeq(s) = f[Len(s)]
<1>. DEFINE N == Len(s)
            G == [n \in 1 .. N |-> [x \in ByteSeq |-> x \o s[n]]]
<1>1. N \in Nat /\ \A n \in 1 .. N : s[n] \in ByteSeq
  OBVIOUS
<1>2. G \in [1 .. N -> [ByteSeq -> ByteSeq]]
  BY <1>1 DEF ByteSeq
<1>3. <<>> \in ByteSeq
  BY DEF ByteSeq
<1>4. PICK h \in [0 .. N -> ByteSeq] : h[0] = <<>> /\ \A n \in 1 .. N : h[n] = G[n][h[n - 1]]
  <2>. HIDE DEF G, N
  <2>1. \E h \in [0 .. N -> ByteSeq] : Iterated(N, <<>>, G, h)
    BY <1>1, <1>2, <1>3, Iterates
  <2>. QED
    BY <2>1 DEF Iterated
<1>5. ASSUME NEW n \in 1 .. N PROVE h[n] = h[n - 1] \o s[n]
  <2>1. n - 1 \in 0 .. N
    BY <1>1
  <2>2. h[n - 1] \in ByteSeq
    BY <2>1
  <2>. QED
    BY <1>4, <2>2
<1>6. CASE N = 0
  BY <1>4, <1>5, <1>6 DEF FlattenSeq
<1>7. CASE N # 0
  <2>. DEFINE Is(f) == f = [i \in 1 .. N |-> IF i = 1 THEN s[i] ELSE f[i - 1] \o s[i]]
              fl == CHOOSE f : Is(f)
              g == [i \in 1 .. N |-> h[i]]
  <2>1. FlattenSeq(s) = fl[N]
    BY <1>7 DEF FlattenSeq
  <2>2. ASSUME NEW i \in 1 .. N PROVE g[i] = IF i = 1 THEN s[i] ELSE g[i - 1] \o s[i]
    <3>1. CASE i = 1
      <4>1. g[i] = h[0] \o s[i]
        BY <1>5, <3>1
      <4>2. <<>> \o s[i] = s[i]
        BY <1>1 DEF ByteSeq
      <4>. QED
        BY <1>4, <3>1, <4>1, <4>2
    <3>2. CASE i # 1
      <4>1. i - 1 \in 1 .. N
        BY <1>1, <3>2
      <4>. QED
        BY <1>5, <3>2, <4>1
    <3>. QED
      BY <3>1, <3>2
  <2>3. Is(g)
    BY <2>2
  <2>4. Is(fl)
    <3>. HIDE DEF Is, g
    <3>. QED
      BY <2>3
  <2>. HIDE DEF fl
  <2>5. ASSUME NEW i \in 1 .. N PROVE fl[i] = IF i = 1 THEN s[i] ELSE fl[i - 1] \o s[i]
    BY <2>4
  <2>6. \A n \in 0 .. N : n \in {m \in 0 .. N : m = 0 \/ fl[m] = h[m]}
    <3>. DEFINE S == {m \in 0 .. N : m = 0 \/ fl[m] = h[m]}
    <3>1. 0 \in S
      BY <1>1
    <3>2. ASSUME NEW m \in 0 .. N - 1, m \in S PROVE m + 1 \in S
      <4>1. m + 1 \in 1 .. N /\ (m + 1) - 1 = m
        BY <1>1
      <4>2. h[m + 1] = h[m] \o s[m + 1]
        BY <1>5, <4>1
      <4>3. fl[m + 1] = IF m + 1 = 1 THEN s[m + 1] ELSE fl[(m + 1) - 1] \o s[m + 1]
        BY <2>5, <4>1, Zenon
      <4>4. fl[m + 1] = h[m + 1]
        <5>1. CASE m = 0
          <6>1. h[m] = <<>> /\ s[m + 1] \in Seq(0 .. MaxByte) /\ m + 1 = 1
            BY <1>1, <1>4, <4>1, <5>1 DEF ByteSeq
          <6>2. <<>> \o s[m + 1] = s[m + 1]
            BY <6>1
          <6>3. fl[m + 1] = s[m + 1]
            BY <4>3, <6>1, Zenon
          <6>. QED
            BY <4>2, <6>1, <6>2, <6>3, Zenon
        <5>2. CASE m # 0
          <6>1. fl[m] = h[m] /\ m + 1 # 1
            BY <3>2, <5>2
          <6>. QED
            BY <4>1, <4>2, <4>3, <6>1, Zenon
        <5>. QED
          BY <5>1, <5>2
      <4>. QED
        BY <1>1, <4>1, <4>4
    <3>. HIDE DEF S
    <3>3. \A n \in 0 .. N : n \in S
      BY <1>1, <3>1, <3>2, CountUp
    <3>. QED
      BY <3>3 DEF S
  <2>7. fl[N] = h[N]
    BY <1>1, <1>7, <2>6
  <2>. QED
    BY <1>4, <1>5, <2>1, <2>7
<1>. QED
  BY <1>6, <1>7

\* f[n] is the encoding of the first n names of c.
Layout(c, f) ==
  /\ f \in [0 .. Len(c) -> ByteSeq]
  /\ f[0] = <<>>
  /\ \A n \in 1 .. Len(c) : f[n] = f[n - 1] \o Encoded(c[n])

\* ssl_encode_byte_strings goes through such a layout.
LEMMA EncodingIs ==
  ASSUME NEW c \in Seq(ByteSeq)
  PROVE  \E f : Layout(c, f) /\ ssl_encode_byte_strings(c) = f[Len(c)]
<1>. DEFINE s == [i \in DOMAIN c |-> Encoded(c[i])]
<1>1. DOMAIN c = 1 .. Len(c) /\ Len(c) \in Nat /\ \A i \in DOMAIN c : c[i] \in ByteSeq
  OBVIOUS
<1>2. s \in Seq(ByteSeq) /\ Len(s) = Len(c)
  <2>1. s \in [1 .. Len(c) -> ByteSeq]
    BY <1>1, EncodedIs
  <2>. QED
    BY <1>1, <2>1
<1>3. \A n \in 1 .. Len(c) : s[n] = Encoded(c[n])
  BY <1>1
<1>4. ssl_encode_byte_strings(c) = FlattenSeq(s)
  BY DEF ssl_encode_byte_strings
<1>. HIDE DEF s
<1>5. PICK f \in [0 .. Len(s) -> ByteSeq] :
           /\ f[0] = <<>>
           /\ \A n \in 1 .. Len(s) : f[n] = f[n - 1] \o s[n]
           /\ FlattenSeq(s) = f[Len(s)]
  BY <1>2, FlattenIs
<1>. QED
  BY <1>2, <1>3, <1>4, <1>5 DEF Layout

\* The n-th name only adds its encoding.
Grows(c, f, n) ==
  /\ f[n] \in ByteSeq /\ f[n - 1] \in ByteSeq
  /\ Len(f[n]) = Len(f[n - 1]) + Len(Encoded(c[n]))
  /\ Len(f[n - 1]) <= Len(f[n])
  /\ \A i \in 1 .. Len(f[n - 1]) : f[n][i] = f[n - 1][i]
  /\ \A k \in 1 .. Len(Encoded(c[n])) : f[n][Len(f[n - 1]) + k] = Encoded(c[n])[k]

\* Every layout grows like this.
LEMMA LayoutGrows ==
  ASSUME NEW c \in Seq(ByteSeq), NEW f, Layout(c, f), NEW n \in 1 .. Len(c)
  PROVE  Grows(c, f, n)
<1>1. n - 1 \in 0 .. Len(c) /\ n \in 0 .. Len(c) /\ c[n] \in ByteSeq
  OBVIOUS
<1>2. f[n] \in ByteSeq /\ f[n - 1] \in ByteSeq /\ f[n] = f[n - 1] \o Encoded(c[n])
  BY <1>1 DEF Layout
<1>3. Encoded(c[n]) \in ByteSeq
  BY <1>1, EncodedIs
<1>. DEFINE a == f[n - 1]
            b == Encoded(c[n])
<1>4. a \in Seq(0 .. MaxByte) /\ b \in Seq(0 .. MaxByte) /\ f[n] = a \o b
  BY <1>2, <1>3 DEF ByteSeq
<1>. HIDE DEF a, b
<1>5. /\ Len(a \o b) = Len(a) + Len(b) /\ Len(a) <= Len(a \o b)
      /\ \A i \in 1 .. Len(a) : (a \o b)[i] = a[i]
      /\ \A k \in 1 .. Len(b) : (a \o b)[Len(a) + k] = b[k]
  BY <1>4
<1>. QED
  BY <1>2, <1>4, <1>5 DEF a, b, Grows

\* What has been encoded stays as it is.
LEMMA LayoutKeeps ==
  ASSUME NEW c \in Seq(ByteSeq), NEW f, Layout(c, f), NEW n \in 0 .. Len(c)
  PROVE  /\ f[n] \in ByteSeq /\ Len(f[n]) <= Len(f[Len(c)])
         /\ \A i \in 1 .. Len(f[n]) : f[Len(c)][i] = f[n][i]
<1>1. Len(c) - n \in Nat /\ n + (Len(c) - n) = Len(c) /\ n \in Nat /\ Len(c) \in Nat
  OBVIOUS
<1>2. \A m \in 0 .. Len(c) : f[m] \in ByteSeq /\ Len(f[m]) \in Nat
  BY DEF Layout, ByteSeq
<1>3. ASSUME NEW j \in 1 .. Len(c)
      PROVE  /\ Len(f[j - 1]) <= Len(f[j])
             /\ \A i \in 1 .. Len(f[j - 1]) : f[j][i] = f[j - 1][i]
  <2>1. Grows(c, f, j)
    BY LayoutGrows
  <2>. QED
    BY <2>1 DEF Grows
<1>. DEFINE S == {m \in 0 .. Len(c) - n : /\ Len(f[n]) <= Len(f[n + m])
                                          /\ \A i \in 1 .. Len(f[n]) : f[n + m][i] = f[n][i]}
<1>4. 0 \in S
  BY <1>1, <1>2
<1>5. ASSUME NEW m \in 0 .. (Len(c) - n) - 1, m \in S PROVE m + 1 \in S
  <2>1. /\ n + (m + 1) \in 1 .. Len(c) /\ (n + (m + 1)) - 1 = n + m
        /\ n + m \in 0 .. Len(c) /\ n + (m + 1) \in 0 .. Len(c) /\ m + 1 \in 0 .. Len(c) - n
    BY <1>1
  <2>2. /\ Len(f[n + m]) <= Len(f[n + (m + 1)])
        /\ \A i \in 1 .. Len(f[n + m]) : f[n + (m + 1)][i] = f[n + m][i]
    BY <1>3, <2>1
  <2>3. Len(f[n]) <= Len(f[n + m]) /\ \A i \in 1 .. Len(f[n]) : f[n + m][i] = f[n][i]
    BY <1>5
  <2>4. Len(f[n + m]) \in Nat /\ Len(f[n]) \in Nat /\ Len(f[n + (m + 1)]) \in Nat
    BY <1>2, <2>1
  <2>5. Len(f[n]) <= Len(f[n + (m + 1)])
    BY <2>2, <2>3, <2>4
  <2>6. \A i \in 1 .. Len(f[n]) : f[n + (m + 1)][i] = f[n][i]
    BY <2>2, <2>3, <2>4
  <2>. QED
    BY <2>1, <2>5, <2>6
<1>. HIDE DEF S
<1>6. \A m \in 0 .. Len(c) - n : m \in S
  BY <1>1, <1>4, <1>5, CountUp
<1>7. Len(c) - n \in S
  BY <1>1, <1>6
<1>. QED
  BY <1>1, <1>2, <1>7 DEF S

\* The entry of a name that fits, where its encoding begins.
EntryAt(c, f, l, n, i) ==
  /\ i \in 1 .. Len(l)
  /\ l[i] = Len(c[n])
  /\ i + l[i] + 1 = Len(f[n]) + 1
  /\ Entry(l, i) = c[n]

\* It is found there, whatever follows.
LEMMA EntryIs ==
  ASSUME NEW c \in Seq(ByteSeq), NEW f, Layout(c, f), NEW n \in 1 .. Len(c), Fits(c[n]),
         NEW l, l = f[Len(c)], NEW i, i = Len(f[n - 1]) + 1
  PROVE  EntryAt(c, f, l, n, i)
<1>. DEFINE e == Encoded(c[n])
            p == Len(f[n - 1])
<1>1. c[n] \in ByteSeq /\ Len(c[n]) \in Nat /\ n \in 0 .. Len(c) /\ Len(c) \in 0 .. Len(c)
  BY DEF ByteSeq
<1>2. /\ Len(e) = Len(c[n]) + 1 /\ e[1] = Len(c[n])
      /\ \A k \in 1 .. Len(c[n]) : e[k + 1] = c[n][k]
  BY <1>1, EncodedIs
<1>3. /\ f[n] \in ByteSeq /\ f[n - 1] \in ByteSeq
      /\ Len(f[n]) = p + Len(e)
      /\ \A k \in 1 .. Len(e) : f[n][p + k] = e[k]
  <2>1. Grows(c, f, n)
    BY LayoutGrows
  <2>. QED
    BY <2>1 DEF Grows
<1>4. l \in ByteSeq /\ Len(f[n]) <= Len(l) /\ \A j \in 1 .. Len(f[n]) : l[j] = f[n][j]
  BY <1>1, LayoutKeeps
<1>5. p \in Nat /\ Len(f[n]) \in Nat /\ Len(l) \in Nat
  BY <1>3, <1>4, ByteSeqLen
<1>. DEFINE a == Len(c[n])
            q == Len(f[n])
<1>7. a \in Nat /\ i = p + 1 /\ q = p + (a + 1) /\ q <= Len(l) /\ Len(e) = a + 1
  BY <1>1, <1>2, <1>3, <1>4
<1>8. e[1] = a /\ \A k \in 1 .. a : e[k + 1] = c[n][k]
  BY <1>2
<1>. HIDE DEF e, p, a, q
<1>6. ASSUME NEW k \in 1 .. a + 1 PROVE l[p + k] = e[k] /\ p + k <= Len(l)
  <2>1. p + k \in 1 .. q /\ p + k <= Len(l)
    BY <1>5, <1>7
  <2>2. f[n][p + k] = e[k]
    BY <1>3, <1>7
  <2>3. l[p + k] = f[n][p + k]
    BY <1>4, <2>1 DEF q
  <2>. QED
    BY <2>1, <2>2, <2>3
<1>9. i \in 1 .. Len(l) /\ l[i] = a
  BY <1>5, <1>6, <1>7, <1>8
<1>10. i + l[i] + 1 = q + 1
  <2>1. i + a + 1 = q + 1
    BY <1>5, <1>7
  <2>. QED
    BY <1>9, <2>1
<1>11. Entry(l, i) = c[n]
  <2>1. Entry(l, i) = [k \in 1 .. a |-> IF i + k <= Len(l) THEN l[i + k] ELSE -1]
    BY <1>9 DEF Entry
  <2>2. ASSUME NEW k \in 1 .. a PROVE i + k <= Len(l) /\ l[i + k] = c[n][k]
    <3>1. k + 1 \in 1 .. a + 1 /\ p + (k + 1) = i + k
      BY <1>5, <1>7
    <3>2. l[p + (k + 1)] = e[k + 1] /\ p + (k + 1) <= Len(l)
      BY <1>6, <3>1
    <3>. QED
      BY <1>8, <3>1, <3>2
  <2>3. c[n] = [k \in 1 .. a |-> c[n][k]]
    BY <1>1 DEF ByteSeq, a
  <2>. QED
    BY <2>1, <2>2, <2>3
<1>. QED
  BY <1>9, <1>10, <1>11 DEF a, q, EntryAt

\* One step of the walk, and the walk.
Hop(l, i) == IF i > Len(l) THEN i ELSE i + l[i] + 1
Walk(l, at) ==
  /\ at \in [1 .. Len(l) + 1 -> Nat \ {0}]
  /\ at[1] = 1
  /\ \A k \in 1 .. Len(l) : at[k + 1] = Hop(l, at[k])

\* A step does not leave the naturals.
LEMMA HopIs ==
  ASSUME NEW l \in ByteSeq, NEW i \in Nat \ {0}
  PROVE  Hop(l, i) \in Nat \ {0}
<1>1. Len(l) \in Nat /\ MaxByte \in Nat
  BY ByteSeqLen, ProtocolsAssumption
<1>2. CASE i > Len(l)
  BY <1>2 DEF Hop
<1>3. CASE ~ (i > Len(l))
  <2>1. l[i] \in 0 .. MaxByte
    BY <1>1, <1>3 DEF ByteSeq
  <2>. QED
    BY <1>1, <1>3, <2>1 DEF Hop
<1>. QED
  BY <1>2, <1>3

\* The walk of OpenSSL's loop is such a walk.
LEMMA StartsIs ==
  ASSUME NEW l \in ByteSeq
  PROVE  Walk(l, Starts(l))
<1>. DEFINE N == Len(l)
            D == Nat \ {0}
            G == [n \in 1 .. N |-> [x \in D |-> Hop(l, x)]]
<1>1. N \in Nat
  BY ByteSeqLen
<1>2. G \in [1 .. N -> [D -> D]] /\ 1 \in D
  BY HopIs
<1>3. PICK h \in [0 .. N -> D] : h[0] = 1 /\ \A n \in 1 .. N : h[n] = G[n][h[n - 1]]
  <2>. HIDE DEF G, N, D
  <2>1. \E h \in [0 .. N -> D] : Iterated(N, 1, G, h)
    BY <1>1, <1>2, Iterates
  <2>. QED
    BY <2>1 DEF Iterated
<1>4. ASSUME NEW n \in 1 .. N PROVE h[n] = Hop(l, h[n - 1])
  <2>1. n - 1 \in 0 .. N
    BY <1>1
  <2>2. h[n - 1] \in D
    BY <2>1
  <2>. QED
    BY <1>3, <2>2
<1>. DEFINE Is(f) == f = [k \in 1 .. N + 1 |->
                            IF k = 1 THEN 1
                            ELSE LET i == f[k - 1] IN IF i > N THEN i ELSE i + l[i] + 1]
            g == [k \in 1 .. N + 1 |-> h[k - 1]]
            at == CHOOSE f : Is(f)
<1>5. Starts(l) = at
  BY DEF Starts
<1>6. ASSUME NEW k \in 1 .. N + 1
      PROVE  g[k] = IF k = 1 THEN 1 ELSE Hop(l, g[k - 1])
  <2>1. CASE k = 1
    BY <1>3, <2>1
  <2>2. CASE k # 1
    <3>1. k - 1 \in 1 .. N /\ k - 1 \in 1 .. N + 1
      BY <1>1, <2>2
    <3>2. h[k - 1] = Hop(l, h[(k - 1) - 1])
      BY <1>4, <3>1
    <3>. QED
      BY <2>2, <3>1, <3>2
  <2>. QED
    BY <2>1, <2>2
<1>7. Is(g)
  BY <1>6 DEF Hop
<1>8. Is(at)
  <2>. HIDE DEF Is, g
  <2>. QED
    BY <1>7
<1>. HIDE DEF at
<1>9. at = [k \in 1 .. N + 1 |-> IF k = 1 THEN 1 ELSE Hop(l, at[k - 1])]
  BY <1>8 DEF Hop
<1>. HIDE DEF Is, g, G
<1>10. at[1] = 1
  BY <1>1, <1>9
<1>11. ASSUME NEW k \in 1 .. N PROVE at[k + 1] = Hop(l, at[k])
  <2>1. k + 1 \in 1 .. N + 1 /\ k + 1 # 1 /\ (k + 1) - 1 = k
    BY <1>1
  <2>. QED
    BY <1>9, <2>1
<1>. DEFINE S == {m \in 0 .. N : at[m + 1] \in D}
<1>12. 0 \in S
  BY <1>1, <1>10
<1>13. ASSUME NEW m \in 0 .. N - 1, m \in S PROVE m + 1 \in S
  <2>1. m + 1 \in 1 .. N /\ m + 1 \in 0 .. N
    BY <1>1
  <2>2. at[(m + 1) + 1] = Hop(l, at[m + 1])
    BY <1>11, <2>1
  <2>3. at[m + 1] \in D
    BY <1>13
  <2>. QED
    BY <2>1, <2>2, <2>3, HopIs
<1>. HIDE DEF S
<1>14. \A m \in 0 .. N : m \in S
  BY <1>1, <1>12, <1>13, CountUp
<1>15. ASSUME NEW k \in 1 .. N + 1 PROVE at[k] \in D
  <2>1. k - 1 \in 0 .. N /\ (k - 1) + 1 = k
    BY <1>1
  <2>. QED
    BY <1>14, <2>1 DEF S
<1>16. at \in [1 .. N + 1 -> D]
  BY <1>9, <1>15
<1>. QED
  BY <1>5, <1>10, <1>11, <1>16 DEF Walk

\* Lengths in a layout.
LEMMA LayoutLen ==
  ASSUME NEW c \in Seq(ByteSeq), NEW f, Layout(c, f), NEW l, l = f[Len(c)]
  PROVE  /\ l \in ByteSeq /\ Len(l) \in Nat /\ Len(c) \in Nat
         /\ \A n \in 0 .. Len(c) : f[n] \in ByteSeq /\ Len(f[n]) \in 0 .. Len(l)
<1>1. Len(c) \in 0 .. Len(c) /\ Len(c) \in Nat
  OBVIOUS
<1>2. l \in ByteSeq /\ Len(l) \in Nat
  BY <1>1, LayoutKeeps, ByteSeqLen
<1>3. ASSUME NEW n \in 0 .. Len(c) PROVE f[n] \in ByteSeq /\ Len(f[n]) \in 0 .. Len(l)
  <2>1. f[n] \in ByteSeq /\ Len(f[n]) <= Len(l)
    BY LayoutKeeps
  <2>2. Len(f[n]) \in Nat
    BY <2>1, ByteSeqLen
  <2>. QED
    BY <1>2, <2>1, <2>2
<1>. QED
  BY <1>1, <1>2, <1>3

\* From where an encoding begins, the walk goes to where it ends.
Hops(c, f, l, at, n, k) ==
  /\ k \in 1 .. Len(l) /\ at[k + 1] = Len(f[n]) + 1 /\ k + 1 <= at[k + 1]
  /\ at[k] <= Len(l)
  /\ Entry(l, at[k]) = c[n]

\* So does every walk.
LEMMA WalkHops ==
  ASSUME NEW c \in Seq(ByteSeq), NEW f, Layout(c, f), NEW l, l = f[Len(c)], NEW at, Walk(l, at),
         NEW n \in 1 .. Len(c), Fits(c[n]),
         NEW k \in 1 .. Len(l) + 1, k <= at[k], at[k] = Len(f[n - 1]) + 1
  PROVE  Hops(c, f, l, at, n, k)
<1>. DEFINE i == at[k]
            q == Len(f[n])
            N == Len(l)
            b == l[i]
<1>1. i \in 1 .. N /\ b = Len(c[n]) /\ i + b + 1 = q + 1 /\ Entry(l, i) = c[n]
  <2>1. i = Len(f[n - 1]) + 1
    OBVIOUS
  <2>2. EntryAt(c, f, l, n, i)
    <3>. HIDE DEF i
    <3>. QED
      BY <2>1, EntryIs
  <2>. QED
    BY <2>2 DEF EntryAt
<1>2. N \in Nat
  BY LayoutLen
<1>3. b \in Nat
  <2>1. c[n] \in ByteSeq
    OBVIOUS
  <2>. QED
    BY <1>1, <2>1, ByteSeqLen
<1>4. k \in 1 .. N /\ k <= i
  BY <1>1, <1>2
<1>5. at[k + 1] = Hop(l, i)
  BY <1>4 DEF Walk
<1>6. Hop(l, i) = IF i > N THEN i ELSE i + b + 1
  BY DEF Hop
<1>. DEFINE h == Hop(l, i)
<1>. HIDE DEF i, q, N, b, h
<1>7. h = q + 1 /\ k + 1 <= h
  BY <1>1, <1>2, <1>3, <1>4, <1>6 DEF h
<1>8. at[k + 1] = Len(f[n]) + 1 /\ k + 1 <= at[k + 1]
  BY <1>5, <1>7 DEF h, q
<1>9. i <= N
  BY <1>1, <1>2
<1>. QED
  BY <1>1, <1>4, <1>8, <1>9 DEF i, N, Hops

\* A name that does not fit takes no place.
LEMMA NoPlace ==
  ASSUME NEW c \in Seq(ByteSeq), NEW f, Layout(c, f), NEW n \in 1 .. Len(c), ~ Fits(c[n])
  PROVE  Len(f[n]) = Len(f[n - 1])
<1>1. c[n] \in ByteSeq /\ Encoded(c[n]) = <<>>
  BY EncodedIs
<1>2. Len(f[n]) = Len(f[n - 1]) + Len(Encoded(c[n])) /\ f[n - 1] \in ByteSeq
  <2>1. Grows(c, f, n)
    BY LayoutGrows
  <2>. QED
    BY <2>1 DEF Grows
<1>3. Len(Encoded(c[n])) = 0 /\ Len(f[n - 1]) \in Nat
  BY <1>1, <1>2, ByteSeqLen
<1>. QED
  BY <1>2, <1>3

\* The walk comes to where every encoding begins and to the end.
LEMMA WalkVisits ==
  ASSUME NEW c \in Seq(ByteSeq), NEW f, Layout(c, f), NEW l, l = f[Len(c)], NEW at, Walk(l, at)
  PROVE  \A n \in 0 .. Len(c) : \E k \in 1 .. Len(l) + 1 : at[k] = Len(f[n]) + 1 /\ k <= at[k]
<1>. DEFINE S == {n \in 0 .. Len(c) : \E k \in 1 .. Len(l) + 1 : at[k] = Len(f[n]) + 1 /\ k <= at[k]}
<1>1. Len(l) \in Nat /\ Len(c) \in Nat
  BY LayoutLen
<1>2. 0 \in S
  <2>1. at[1] = 1 /\ Len(f[0]) = 0
    BY DEF Walk, Layout
  <2>2. 1 \in 1 .. Len(l) + 1 /\ 0 \in 0 .. Len(c)
    BY <1>1
  <2>. QED
    BY <2>1, <2>2
<1>3. ASSUME NEW n \in 0 .. Len(c) - 1, n \in S PROVE n + 1 \in S
  <2>1. PICK k \in 1 .. Len(l) + 1 : at[k] = Len(f[n]) + 1 /\ k <= at[k]
    BY <1>3
  <2>2. n + 1 \in 1 .. Len(c) /\ (n + 1) - 1 = n /\ n + 1 \in 0 .. Len(c)
    BY <1>1
  <2>3. CASE Fits(c[n + 1])
    <3>1. at[k] = Len(f[(n + 1) - 1]) + 1
      BY <2>1, <2>2
    <3>2. Hops(c, f, l, at, n + 1, k)
      <4>. DEFINE m == n + 1
      <4>1. m \in 1 .. Len(c) /\ Fits(c[m]) /\ at[k] = Len(f[m - 1]) + 1
        BY <2>2, <2>3, <3>1
      <4>. HIDE DEF m
      <4>2. Hops(c, f, l, at, m, k)
        BY <2>1, <4>1, WalkHops
      <4>. QED
        BY <4>2 DEF m
    <3>3. k \in 1 .. Len(l) /\ k + 1 \in 1 .. Len(l) + 1
      BY <1>1, <3>2 DEF Hops
    <3>. QED
      BY <2>2, <3>2, <3>3 DEF Hops
  <2>4. CASE ~ Fits(c[n + 1])
    <3>1. Len(f[n + 1]) = Len(f[(n + 1) - 1])
      BY <2>2, <2>4, NoPlace
    <3>. QED
      BY <2>1, <2>2, <3>1
  <2>. QED
    BY <2>3, <2>4
<1>. HIDE DEF S
<1>4. \A n \in 0 .. Len(c) : n \in S
  BY <1>1, <1>2, <1>3, CountUp
<1>. QED
  BY <1>4 DEF S

\* What is left of the list begins with the encoding of a name that fits.
LEMMA NextFit ==
  ASSUME NEW c \in Seq(ByteSeq), NEW f, Layout(c, f), NEW l, l = f[Len(c)],
         NEW n \in 0 .. Len(c), Len(f[n]) # Len(l)
  PROVE  \E m \in 1 .. Len(c) : Fits(c[m]) /\ Len(f[m - 1]) = Len(f[n])
<1>. SUFFICES ASSUME \A m \in 1 .. Len(c) : Fits(c[m]) => Len(f[m - 1]) # Len(f[n])
              PROVE  FALSE
  OBVIOUS
<1>1. Len(c) \in Nat /\ Len(c) - n \in Nat /\ n + (Len(c) - n) = Len(c) /\ n + 0 = n
  OBVIOUS
<1>. DEFINE S == {j \in 0 .. Len(c) - n : Len(f[n + j]) = Len(f[n])}
<1>2. 0 \in S
  BY <1>1
<1>3. ASSUME NEW j \in 0 .. (Len(c) - n) - 1, j \in S PROVE j + 1 \in S
  <2>. DEFINE m == n + (j + 1)
  <2>1. m \in 1 .. Len(c) /\ m - 1 = n + j /\ j + 1 \in 0 .. Len(c) - n
    BY <1>1
  <2>2. Len(f[n + j]) = Len(f[n])
    BY <1>3
  <2>. HIDE DEF m
  <2>3. Len(f[m - 1]) = Len(f[n])
    BY <2>1, <2>2
  <2>4. ~ Fits(c[m])
    BY <2>1, <2>3
  <2>5. Len(f[m]) = Len(f[m - 1])
    BY <2>1, <2>4, NoPlace
  <2>. QED
    BY <2>1, <2>3, <2>5 DEF m
<1>. HIDE DEF S
<1>4. \A j \in 0 .. Len(c) - n : j \in S
  BY <1>1, <1>2, <1>3, CountUp
<1>5. Len(c) - n \in S
  BY <1>1, <1>4
<1>6. Len(f[n + (Len(c) - n)]) = Len(f[n])
  BY <1>5 DEF S
<1>. QED
  BY <1>1, <1>6

\* Before the end the walk is at the entry of a name that fits.
LEMMA WalkEntry ==
  ASSUME NEW c \in Seq(ByteSeq), NEW f, Layout(c, f), NEW l, l = f[Len(c)], NEW at, Walk(l, at),
         NEW k \in 1 .. Len(l) + 1, k <= at[k], at[k] <= Len(l),
         NEW n \in 0 .. Len(c), at[k] = Len(f[n]) + 1
  PROVE  \E m \in 1 .. Len(c) : Fits(c[m]) /\ Hops(c, f, l, at, m, k)
<1>1. Len(f[n]) \in Nat /\ Len(l) \in Nat
  BY LayoutLen
<1>2. Len(f[n]) # Len(l)
  BY <1>1
<1>3. PICK m \in 1 .. Len(c) : Fits(c[m]) /\ Len(f[m - 1]) = Len(f[n])
  BY <1>2, NextFit
<1>4. at[k] = Len(f[m - 1]) + 1
  BY <1>3
<1>5. Hops(c, f, l, at, m, k)
  BY <1>3, <1>4, WalkHops
<1>. QED
  BY <1>3, <1>5

\* The walk is never anywhere else.
LEMMA WalkStays ==
  ASSUME NEW c \in Seq(ByteSeq), NEW f, Layout(c, f), NEW l, l = f[Len(c)], NEW at, Walk(l, at)
  PROVE  \A k \in 1 .. Len(l) + 1 : k <= at[k] /\ \E n \in 0 .. Len(c) : at[k] = Len(f[n]) + 1
<1>. DEFINE At(k) == k <= at[k] /\ \E n \in 0 .. Len(c) : at[k] = Len(f[n]) + 1
            S == {j \in 0 .. Len(l) : At(j + 1)}
<1>1. Len(l) \in Nat /\ Len(c) \in Nat /\ \A n \in 0 .. Len(c) : Len(f[n]) \in 0 .. Len(l)
  BY LayoutLen
<1>2. 0 \in S
  <2>1. at[1] = 1 /\ Len(f[0]) = 0
    BY DEF Walk, Layout
  <2>2. 0 \in 0 .. Len(l) /\ 0 \in 0 .. Len(c)
    BY <1>1
  <2>3. At(1)
    BY <2>1, <2>2
  <2>. HIDE DEF At
  <2>. QED
    BY <2>2, <2>3
<1>3. ASSUME NEW j \in 0 .. Len(l) - 1, j \in S PROVE j + 1 \in S
  <2>. DEFINE k == j + 1
  <2>1. k \in 1 .. Len(l) /\ k \in 1 .. Len(l) + 1 /\ k + 1 \in 1 .. Len(l) + 1 /\ k \in 0 .. Len(l)
    BY <1>1
  <2>2. At(k)
    BY <1>3
  <2>. HIDE DEF k
  <2>3. PICK n \in 0 .. Len(c) : at[k] = Len(f[n]) + 1
    BY <2>2
  <2>4. at[k + 1] = Hop(l, at[k]) /\ Len(f[n]) \in 0 .. Len(l)
    BY <1>1, <2>1 DEF Walk
  <2>5. At(k + 1)
    <3>1. CASE at[k] > Len(l)
      <4>1. at[k + 1] = at[k]
        BY <2>4, <3>1 DEF Hop
      <4>2. k + 1 <= at[k]
        BY <1>1, <2>1, <2>3, <2>4, <3>1
      <4>. QED
        BY <2>3, <4>1, <4>2
    <3>2. CASE ~ (at[k] > Len(l))
      <4>1. at[k] <= Len(l) /\ k <= at[k]
        BY <1>1, <2>2, <2>3, <2>4, <3>2
      <4>2. PICK m \in 1 .. Len(c) : Hops(c, f, l, at, m, k)
        BY <2>1, <2>3, <4>1, WalkEntry
      <4>3. m \in 0 .. Len(c) /\ at[k + 1] = Len(f[m]) + 1 /\ k + 1 <= at[k + 1]
        BY <4>2 DEF Hops
      <4>. QED
        BY <4>3
    <3>. QED
      BY <3>1, <3>2
  <2>. HIDE DEF At
  <2>. QED
    BY <2>1, <2>5 DEF k
<1>. HIDE DEF S
<1>4. \A j \in 0 .. Len(l) : j \in S
  BY <1>1, <1>2, <1>3, CountUp
<1>5. ASSUME NEW k \in 1 .. Len(l) + 1 PROVE At(k)
  <2>1. k - 1 \in 0 .. Len(l) /\ (k - 1) + 1 = k
    BY <1>1
  <2>2. At((k - 1) + 1)
    <3>. HIDE DEF At
    <3>. QED
      BY <1>4, <2>1 DEF S
  <2>. QED
    BY <2>1, <2>2
<1>. QED
  BY <1>5

\* The entries of an encoded list are its names that fit.
LEMMA EntriesRange ==
  ASSUME NEW c \in Seq(ByteSeq)
  PROVE  ToSet(Entries(ssl_encode_byte_strings(c))) = {x \in ToSet(c) : Fits(x)}
<1>. DEFINE l == ssl_encode_byte_strings(c)
            at == Starts(l)
<1>1. PICK f : Layout(c, f) /\ l = f[Len(c)]
  BY EncodingIs
<1>. HIDE DEF l
<1>2. l \in ByteSeq /\ Len(l) \in Nat /\ Len(c) \in Nat
  BY <1>1, LayoutLen
<1>3. Walk(l, at)
  BY <1>2, StartsIs
<1>4. DOMAIN at = 1 .. Len(l) + 1
  BY <1>3 DEF Walk
<1>. HIDE DEF at
<1>5. Entries(l) = [k \in {j \in 1 .. Len(l) + 1 : at[j] <= Len(l)} |-> Entry(l, at[k])]
  BY <1>4 DEF Entries, at
<1>6. ToSet(Entries(l)) = {Entry(l, at[k]) : k \in {j \in 1 .. Len(l) + 1 : at[j] <= Len(l)}}
  BY <1>5 DEF ToSet
<1>7. DOMAIN c = 1 .. Len(c) /\ ToSet(c) = {c[n] : n \in 1 .. Len(c)}
  BY DEF ToSet
<1>8. ASSUME NEW k \in 1 .. Len(l) + 1, at[k] <= Len(l)
      PROVE  \E m \in 1 .. Len(c) : Fits(c[m]) /\ Entry(l, at[k]) = c[m]
  <2>1. PICK n \in 0 .. Len(c) : k <= at[k] /\ at[k] = Len(f[n]) + 1
    BY <1>1, <1>3, WalkStays
  <2>2. PICK m \in 1 .. Len(c) : Fits(c[m]) /\ Hops(c, f, l, at, m, k)
    BY <1>1, <1>3, <1>8, <2>1, WalkEntry
  <2>. QED
    BY <2>2 DEF Hops
<1>9. ASSUME NEW n \in 1 .. Len(c), Fits(c[n])
      PROVE  \E k \in 1 .. Len(l) + 1 : at[k] <= Len(l) /\ Entry(l, at[k]) = c[n]
  <2>1. n - 1 \in 0 .. Len(c)
    BY <1>2
  <2>2. PICK k \in 1 .. Len(l) + 1 : at[k] = Len(f[n - 1]) + 1 /\ k <= at[k]
    BY <1>1, <1>3, <2>1, WalkVisits
  <2>3. Hops(c, f, l, at, n, k)
    BY <1>1, <1>3, <1>9, <2>2, WalkHops
  <2>. QED
    BY <2>3 DEF Hops
<1>10. ToSet(Entries(l)) = {x \in ToSet(c) : Fits(x)}
  BY <1>6, <1>7, <1>8, <1>9
<1>. QED
  BY <1>10 DEF l

\* Where every name fits the entries are the names, in their order.
LEMMA EntriesAll ==
  ASSUME NEW c \in Seq(ByteSeq), \A n \in 1 .. Len(c) : Fits(c[n])
  PROVE  Entries(ssl_encode_byte_strings(c)) = c
<1>. DEFINE l == ssl_encode_byte_strings(c)
            at == Starts(l)
            C == Len(c)
            N == Len(l)
<1>1. PICK f : Layout(c, f) /\ l = f[Len(c)]
  BY EncodingIs
<1>. HIDE DEF l
<1>2. l \in ByteSeq /\ N \in Nat /\ C \in Nat
  BY <1>1, LayoutLen
<1>3. Walk(l, at)
  BY <1>2, StartsIs
<1>4. DOMAIN at = 1 .. Len(l) + 1 /\ at[1] = 1
  BY <1>3 DEF Walk
<1>. HIDE DEF at
<1>5. Entries(l) = [k \in {j \in 1 .. N + 1 : at[j] <= N} |-> Entry(l, at[k])]
  BY <1>4 DEF Entries, at
<1>6. ASSUME NEW n \in 1 .. C, n \in 1 .. N + 1, n <= at[n], at[n] = Len(f[n - 1]) + 1
      PROVE  Hops(c, f, l, at, n, n)
  BY <1>1, <1>3, <1>6, WalkHops
<1>. DEFINE S == {n \in 0 .. C : /\ n + 1 \in 1 .. N + 1 /\ n + 1 <= at[n + 1]
                                 /\ at[n + 1] = Len(f[n]) + 1}
<1>7. 0 \in S
  <2>1. Len(f[0]) = 0
    BY <1>1 DEF Layout
  <2>. QED
    BY <1>2, <1>4, <2>1
<1>8. ASSUME NEW n \in 1 .. C, n - 1 \in S PROVE Hops(c, f, l, at, n, n)
  <2>1. (n - 1) + 1 = n
    BY <1>2
  <2>2. n \in 1 .. N + 1 /\ n <= at[n] /\ at[n] = Len(f[n - 1]) + 1
    BY <1>8, <2>1
  <2>. QED
    BY <1>6, <2>2
<1>9. ASSUME NEW n \in 0 .. C - 1, n \in S PROVE n + 1 \in S
  <2>. DEFINE m == n + 1
  <2>1. m \in 1 .. C /\ m - 1 = n /\ m \in 0 .. C
    BY <1>2
  <2>. HIDE DEF m, S
  <2>2. Hops(c, f, l, at, m, m)
    BY <1>8, <1>9, <2>1
  <2>3. m \in 1 .. N /\ at[m + 1] = Len(f[m]) + 1 /\ m + 1 <= at[m + 1]
    BY <2>2 DEF Hops
  <2>4. m + 1 \in 1 .. N + 1
    BY <1>2, <2>3
  <2>5. m \in S
    BY <2>1, <2>3, <2>4 DEF S
  <2>. QED
    BY <2>5 DEF m
<1>. HIDE DEF S, C
<1>10. \A n \in 0 .. C : n \in S
  BY <1>2, <1>7, <1>9, CountUp
<1>11. ASSUME NEW n \in 1 .. C PROVE n \in 1 .. N + 1 /\ at[n] <= N /\ Entry(l, at[n]) = c[n]
  <2>1. n - 1 \in 0 .. C
    BY <1>2
  <2>2. Hops(c, f, l, at, n, n)
    BY <1>8, <1>10, <2>1
  <2>. QED
    BY <1>2, <2>2 DEF Hops
<1>12. C \in 0 .. N /\ at[C + 1] = N + 1
  <2>1. C \in S
    BY <1>2, <1>10
  <2>2. C + 1 \in 1 .. N + 1 /\ at[C + 1] = Len(f[C]) + 1
    BY <2>1 DEF S
  <2>3. Len(f[C]) = N
    BY <1>1 DEF C
  <2>. QED
    BY <1>2, <2>2, <2>3
<1>. DEFINE T == {j \in 0 .. N - C : at[C + 1 + j] = N + 1}
<1>. HIDE DEF N
<1>13. 0 \in T
  BY <1>2, <1>12
<1>14. ASSUME NEW j \in 0 .. (N - C) - 1, j \in T PROVE j + 1 \in T
  <2>. DEFINE k == C + 1 + j
  <2>1. k \in 1 .. N /\ k + 1 = C + 1 + (j + 1) /\ j + 1 \in 0 .. N - C
    BY <1>2, <1>12
  <2>2. at[k] = N + 1
    BY <1>14
  <2>. HIDE DEF k
  <2>3. at[k + 1] = Hop(l, at[k])
    BY <1>3, <2>1 DEF Walk, N
  <2>4. at[k] > Len(l)
    BY <1>2, <2>2 DEF N
  <2>5. at[k + 1] = N + 1
    BY <2>2, <2>3, <2>4 DEF Hop
  <2>. QED
    BY <2>1, <2>5
<1>. HIDE DEF T
<1>15. \A j \in 0 .. N - C : j \in T
  <2>1. N - C \in Nat
    BY <1>2, <1>12
  <2>. QED
    BY <1>13, <1>14, <2>1, CountUp
<1>16. ASSUME NEW k \in 1 .. N + 1, k \notin 1 .. C PROVE ~ (at[k] <= N)
  <2>1. k - (C + 1) \in 0 .. N - C /\ C + 1 + (k - (C + 1)) = k
    BY <1>2, <1>12, <1>16
  <2>2. k - (C + 1) \in T
    BY <1>15, <2>1
  <2>3. at[C + 1 + (k - (C + 1))] = N + 1
    BY <2>2 DEF T
  <2>4. at[k] = N + 1
    BY <2>1, <2>3
  <2>. QED
    BY <1>2, <2>4
<1>17. {j \in 1 .. N + 1 : at[j] <= N} = 1 .. C
  BY <1>11, <1>16
<1>18. Entries(l) = [k \in 1 .. C |-> c[k]]
  BY <1>5, <1>11, <1>17
<1>19. c = [k \in 1 .. C |-> c[k]]
  BY DEF C
<1>. QED
  BY <1>18, <1>19 DEF l

\* The callback takes the first name of the peer's list that is in the other.
FirstCommon(o, common, r) ==
  IF common = {} THEN r = NoAck
  ELSE \E i \in DOMAIN o : /\ r = o[i] /\ r \in common
                           /\ \A j \in 1 .. (i - 1) : o[j] \notin common

\* That is what SSL_select_next_proto returns for two encoded lists.
LEMMA SelectIs ==
  ASSUME NEW c \in Seq(ByteSeq), NEW o \in Seq(ByteSeq), \A n \in 1 .. Len(o) : Fits(o[n]),
         NEW common, common = {n \in ToSet(c) \cap ToSet(o) : Fits(n)},
         NEW r, r = SSL_select_next_proto(ssl_encode_byte_strings(o), ssl_encode_byte_strings(c))
  PROVE  FirstCommon(o, common, r)
<1>. DEFINE second == {x \in ToSet(c) : Fits(x)}
            found == {k \in DOMAIN o : o[k] \in second}
<1>1. Entries(ssl_encode_byte_strings(o)) = o
  BY EntriesAll
<1>2. ToSet(Entries(ssl_encode_byte_strings(c))) = second
  BY EntriesRange
<1>3. r = IF found = {} THEN NoAck ELSE o[Min(found)]
  BY <1>1, <1>2 DEF SSL_select_next_proto
<1>4. DOMAIN o = 1 .. Len(o) /\ Len(o) \in Nat /\ ToSet(o) = {o[k] : k \in DOMAIN o}
  BY DEF ToSet
<1>5. \A k \in DOMAIN o : k \in found <=> o[k] \in common
  BY <1>4
<1>6. common = {o[k] : k \in found}
  BY <1>4
<1>. HIDE DEF second, found
<1>7. CASE found = {}
  BY <1>3, <1>6, <1>7 DEF FirstCommon
<1>8. CASE found # {}
  <2>1. found \in SUBSET Nat /\ found \subseteq DOMAIN o
    BY <1>4 DEF found
  <2>2. \E x \in found : \A y \in found : x <= y
    BY <1>8, <2>1, Least
  <2>3. Min(found) \in found /\ \A y \in found : Min(found) <= y
    BY <2>2 DEF Min
  <2>. DEFINE i == Min(found)
  <2>4. i \in DOMAIN o /\ r = o[i] /\ r \in common /\ common # {}
    BY <1>3, <1>5, <1>8, <2>1, <2>3
  <2>5. ASSUME NEW j \in 1 .. (i - 1) PROVE o[j] \notin common
    <3>1. j \in DOMAIN o /\ ~ (i <= j)
      BY <1>4, <2>4
    <3>. QED
      BY <1>5, <2>3, <3>1
  <2>. HIDE DEF i
  <2>. QED
    BY <2>4, <2>5 DEF FirstCommon
<1>. QED
  BY <1>7, <1>8

\* The context's list is the encoding of the one configured last.
ProtocolsInv == /\ configured \in Seq(ByteSeq)
                /\ protocols = ssl_encode_byte_strings(configured)
                /\ SelectedIsCommon

\* The lists a program configures and those a peer sends.
LEMMA ListsAre ==
  /\ Lists(Names) \subseteq Seq(ByteSeq)
  /\ \A o \in Lists(PeerNames) : o \in Seq(ByteSeq) /\ \A n \in 1 .. Len(o) : Fits(o[n])
<1>1. Names \subseteq ByteSeq
  BY ProtocolsAssumption DEF ByteSeq
<1>2. ASSUME NEW l \in Lists(Names) PROVE l \in Seq(ByteSeq)
  <2>1. PICK n \in 0 .. MaxNames : l \in [1 .. n -> Names]
    BY DEF Lists
  <2>2. n \in Nat /\ l \in [1 .. n -> ByteSeq]
    BY <1>1, <2>1, ProtocolsAssumption
  <2>. QED
    BY <2>2
<1>3. ASSUME NEW o \in Lists(PeerNames)
      PROVE  o \in Seq(ByteSeq) /\ \A n \in 1 .. Len(o) : Fits(o[n])
  <2>1. PICK n \in 0 .. MaxNames : o \in [1 .. n -> PeerNames]
    BY DEF Lists
  <2>2. n \in Nat /\ o \in [1 .. n -> PeerNames] /\ PeerNames \subseteq ByteSeq
    BY <1>1, <2>1, ProtocolsAssumption DEF PeerNames
  <2>3. o \in Seq(ByteSeq) /\ Len(o) = n
    BY <2>2
  <2>. QED
    BY <2>2, <2>3 DEF PeerNames
<1>. QED
  BY <1>2, <1>3

\* The two actions.
LEMMA ProtocolsNextInv == ProtocolsInv /\ [ProtocolsNext]_protocolVars => ProtocolsInv'
<1>. SUFFICES ASSUME ProtocolsInv, [ProtocolsNext]_protocolVars PROVE ProtocolsInv'
  OBVIOUS
<1>1. ASSUME NEW l \in Lists(Names), set_protocols(l) PROVE ProtocolsInv'
  BY <1>1, ListsAre DEF set_protocols, ProtocolsInv, SelectedIsCommon
<1>2. ASSUME NEW l \in Lists(PeerNames), select_proto_using(l) PROVE ProtocolsInv'
  <2>. DEFINE common == {n \in ToSet(configured) \cap ToSet(l) : Fits(n)}
  <2>1. /\ offered' = l /\ configured' = configured /\ protocols' = protocols
        /\ selected' = SSL_select_next_proto(ssl_encode_byte_strings(l),
                                             ssl_encode_byte_strings(configured))
        /\ configured \in Seq(ByteSeq) /\ protocols = ssl_encode_byte_strings(configured)
    BY <1>2 DEF select_proto_using, ProtocolsInv
  <2>2. l \in Seq(ByteSeq) /\ \A n \in 1 .. Len(l) : Fits(l[n])
    BY ListsAre
  <2>. DEFINE r == selected'
  <2>3. FirstCommon(l, common, r)
    <3>1. common = {n \in ToSet(configured) \cap ToSet(l) : Fits(n)}
      OBVIOUS
    <3>2. r = SSL_select_next_proto(ssl_encode_byte_strings(l), ssl_encode_byte_strings(configured))
      BY <2>1
    <3>3. configured \in Seq(ByteSeq)
      BY <2>1
    <3>. HIDE DEF common, r
    <3>. QED
      BY <2>2, <3>1, <3>2, <3>3, SelectIs
  <2>4. SelectedIsCommon'
    BY <2>1, <2>3 DEF SelectedIsCommon, FirstCommon
  <2>. QED
    BY <2>1, <2>4 DEF ProtocolsInv
<1>3. CASE UNCHANGED protocolVars
  BY <1>3 DEF protocolVars, ProtocolsInv, SelectedIsCommon
<1>. QED
  BY <1>1, <1>2, <1>3 DEF ProtocolsNext

\* For names and lists of any length: the callback selects a name that both sides have
\* and that fits its length byte, and none only if there is none; a name that is too
\* long leaves nothing in the encoding that OpenSSL could take for another (ssl/mod.rs,
\* ssl_encode_byte_strings; ssl/callbacks.rs, select_proto_using).
THEOREM ProtocolSelectedIsCommon == ProtocolsSpec => []SelectedIsCommon
<1>1. ProtocolsInit => ProtocolsInv
  BY ListsAre DEF ProtocolsInit, ProtocolsInv, SelectedIsCommon
<1>2. ProtocolsInv => SelectedIsCommon
  BY DEF ProtocolsInv
<1>. QED
  BY <1>1, <1>2, ProtocolsNextInv, PTL DEF ProtocolsSpec
=============================================================================
