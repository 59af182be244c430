---------------------------- MODULE SslCallbacks -----------------------------
(***************************************************************************)
(* Closures as callbacks of OpenSSL (ssl/callbacks.rs and the setters in   *)
(* ssl/mod.rs).  A setter boxes the closure, stores the box in the extra   *)
(* data of its context or Ssl under an index that depends on the closure's *)
(* type, and registers the trampoline of that type.  The trampoline looks  *)
(* the box up again: in the Ssl, or in the context the Ssl has by then.    *)
(*                                                                         *)
(* OpenSSL is external: SSL_new copies the verify, psk and tmp_dh          *)
(* callbacks into the Ssl, SSL_set_SSL_CTX replaces the tmp_dh one, all    *)
(* others are those of the present context, and for sni also those of the  *)
(* context that the Ssl was made from, which it never lets go of.          *)
(***************************************************************************)
EXTENDS Integers

CONSTANTS
  Contexts,     \* the contexts of the program
  Slots,        \* the callbacks that are configured
  MaxBoxes,     \* bound: boxes alive at a time
  StoreFails    \* SSL_CTX_set_ex_data and SSL_set_ex_data may run out of memory

ASSUME CallbacksAssumption == MaxBoxes \in Nat /\ StoreFails \in BOOLEAN

VARIABLES
  ctx,     \* contexts: state, whether the program has a handle, boxes, trampolines
  ssl,     \* an Ssl: its contexts, boxes and trampolines
  boxes,   \* the boxes that are alive
  running  \* the closure that OpenSSL is calling, and whether its context was left

callbackVars == <<ctx, ssl, boxes, running>>

Types == {"F", "G"}
Null == 0
Lost == MaxBoxes + 1
NoFn == [place |-> "none", type |-> "none"]

\* latest is what the program configured last, for comparison: a box, or Lost if it
\* could not be stored.
Empty == [data |-> [s \in Slots |-> [t \in Types |-> Null]],
          fn |-> [s \in Slots |-> NoFn], latest |-> [s \in Slots |-> Null]]

NoCtx == [state |-> "none", handle |-> FALSE, own |-> Empty]
NoSsl == [alive |-> FALSE, ctx |-> "none", initial |-> "none", own |-> Empty]
Idle == [slot |-> "none", box |-> Null, left |-> FALSE]

CallbacksInit ==
  /\ ctx = [c \in Contexts |-> NoCtx]
  /\ ssl = NoSsl
  /\ boxes = {}
  /\ running = Idle

-----------------------------------------------------------------------------
(***************************************************************************)
(* Boxes                                                                   *)
(***************************************************************************)

BoxesOf(o) == {o.data[s][t] : s \in Slots, t \in Types} \ {Null}

\* Box::new, set_ex_data under the index of the type, and the trampoline, whatever
\* set_ex_data returned.
SetClosure(o, s, t, place, b, stored) ==
  [o EXCEPT !.data[s][t] = IF stored THEN b ELSE @,
            !.fn[s] = [place |-> place, type |-> t],
            !.latest[s] = IF stored THEN b ELSE Lost]

\* Mutant of Kept: the box that is replaced is freed.
KeptFreeing(o, s, t) == boxes \ {o.data[s][t]}

\* set_ex_data overwrites the pointer; the old box stays.
Kept(o, s, t) == boxes

\* A box for a closure of type t in slot s; protocol lists are of one type.
NewBox(s, t) ==
  /\ s = "protocols" => t = "F"
  /\ boxes # 1..MaxBoxes
Fresh == CHOOSE b \in 1..MaxBoxes : b \notin boxes

\* What set_ex_data may return.
Stored == IF StoreFails THEN BOOLEAN ELSE {TRUE}

\* free_data_box of what c holds, if nothing refers to the context any more.
Held(c, cs, l) == cs[c].handle \/ (l.alive /\ c \in {l.ctx, l.initial})
Freed(cs, l) == {c \in Contexts : cs[c].state # "none" /\ ~Held(c, cs, l)}
FreeContexts(cs, l, bs) ==
  /\ ctx' = [c \in Contexts |-> IF c \in Freed(cs, l) THEN NoCtx ELSE cs[c]]
  /\ boxes' = bs \ UNION {BoxesOf(cs[c].own) : c \in Freed(cs, l)}

-----------------------------------------------------------------------------
(***************************************************************************)
(* The program                                                             *)
(***************************************************************************)

NewBuilder(c) ==
  /\ ctx[c].state = "none"
  /\ ctx' = [ctx EXCEPT ![c] = [NoCtx EXCEPT !.state = "builder", !.handle = TRUE]]
  /\ UNCHANGED <<ssl, boxes, running>>

\* set_verify_callback, set_servername_callback, set_tmp_dh_callback,
\* set_status_callback, set_psk_callback, set_npn_protocols.
SetOnContext(c, s, t, stored) ==
  /\ ctx[c].state = "builder" /\ NewBox(s, t)
  /\ s = "protocols" => stored
  /\ ctx' = [ctx EXCEPT ![c].own = SetClosure(@, s, t, "ctx", Fresh, stored)]
  /\ boxes' = Kept(ctx[c].own, s, t) \union {Fresh}
  /\ UNCHANGED <<ssl, running>>

\* set_npn_protocols and set_alpn_protocols return before they register the
\* trampoline; the box is nobody's.
SetProtocolsFails(c) ==
  /\ ctx[c].state = "builder" /\ "protocols" \in Slots /\ NewBox("protocols", "F")
  /\ FALSE \in Stored
  /\ boxes' = boxes \union {Fresh}
  /\ UNCHANGED <<ctx, ssl, running>>

build(c) ==
  /\ ctx[c].state = "builder"
  /\ ctx' = [ctx EXCEPT ![c].state = "built"]
  /\ UNCHANGED <<ssl, boxes, running>>

DropContext(c) ==
  /\ ctx[c].handle
  /\ FreeContexts([ctx EXCEPT ![c].handle = FALSE], ssl, boxes)
  /\ UNCHANGED <<ssl, running>>

\* The callbacks an Ssl has of its own, and those SSL_set_SSL_CTX replaces.
Copied == Slots \intersect {"verify", "psk", "tmp_dh"}
CopiedAgain == Slots \intersect {"tmp_dh"}

\* Ssl::new: the copies of SSL_new.
NewSsl(c) ==
  /\ ctx[c].state = "built" /\ ctx[c].handle /\ ~ssl.alive
  /\ ssl' = [NoSsl EXCEPT !.alive = TRUE, !.ctx = c, !.initial = c,
               !.own.fn = [s \in Slots |-> IF s \in Copied THEN ctx[c].own.fn[s] ELSE NoFn]]
  /\ UNCHANGED <<ctx, boxes, running>>

\* Between calls, or in a closure that is given the Ssl as &mut.
SslAtHand == ssl.alive /\ running.slot # "verify"

\* set_verify_callback and set_tmp_dh_callback of an Ssl.
SetOnSsl(s, t, stored) ==
  /\ SslAtHand /\ s \in {"verify", "tmp_dh"} /\ NewBox(s, t)
  /\ ssl' = [ssl EXCEPT !.own = SetClosure(@, s, t, "ssl", Fresh, stored)]
  /\ boxes' = Kept(ssl.own, s, t) \union {Fresh}
  /\ UNCHANGED <<ctx, running>>

\* set_verify without a closure, of a builder and of an Ssl.
SetVerify ==
  /\ "verify" \in Slots
  /\ \/ \E c \in Contexts :
          /\ ctx[c].state = "builder"
          /\ ctx' = [ctx EXCEPT ![c].own.fn["verify"] = NoFn, ![c].own.latest["verify"] = Null]
          /\ UNCHANGED ssl
     \/ /\ SslAtHand
        /\ ssl' = [ssl EXCEPT !.own.fn["verify"] = NoFn, !.own.latest["verify"] = Null]
        /\ UNCHANGED ctx
  /\ UNCHANGED <<boxes, running>>

\* A call that fails changes nothing.
set_ssl_context(c) ==
  /\ SslAtHand /\ ctx[c].state = "built" /\ ctx[c].handle
  /\ ssl' = [ssl EXCEPT !.ctx = c,
               !.own.fn = [s \in Slots |-> IF s \in CopiedAgain THEN ctx[c].own.fn[s] ELSE @[s]],
               !.own.latest = [s \in Slots |-> IF s \in CopiedAgain THEN Null ELSE @[s]]]
  /\ FreeContexts(ctx, ssl', boxes)
  /\ running' = [running EXCEPT !.left = running # Idle /\ (@ \/ ssl.ctx # ssl.initial)]

DropSsl ==
  /\ ssl.alive /\ running = Idle
  /\ ssl' = NoSsl
  /\ FreeContexts(ctx, NoSsl, boxes \ BoxesOf(ssl.own))
  /\ UNCHANGED running

-----------------------------------------------------------------------------
(***************************************************************************)
(* OpenSSL calls a trampoline, which calls the closure                     *)
(***************************************************************************)

\* The trampoline OpenSSL has for a slot.
Trampoline(s) ==
  IF s \in Copied THEN ssl.own.fn[s]
  ELSE IF s = "sni" /\ ctx[ssl.ctx].own.fn[s] = NoFn THEN ctx[ssl.initial].own.fn[s]
  ELSE ctx[ssl.ctx].own.fn[s]

\* Mutant of Lookup: closures of an Ssl are looked up in its context.
LookupInContext(s, fn) == ctx[ssl.ctx].own.data[s][fn.type]

\* raw_verify, raw_psk, raw_sni, raw_tmp_dh, raw_tlsext_status and
\* select_proto_using ask the context, ssl_raw_verify and raw_tmp_dh_ssl the Ssl.
Lookup(s, fn) ==
  IF fn.place = "ssl" THEN ssl.own.data[s][fn.type] ELSE ctx[ssl.ctx].own.data[s][fn.type]

Callback(s) ==
  /\ ssl.alive /\ running = Idle /\ Trampoline(s) # NoFn
  /\ running' = [slot |-> s, box |-> Lookup(s, Trampoline(s)), left |-> FALSE]
  /\ UNCHANGED <<ctx, ssl, boxes>>

\* raw_next_protos_advertise_cb and the others return; a null closure has no return.
Return ==
  /\ running # Idle /\ running.box # Null
  /\ running' = Idle
  /\ UNCHANGED <<ctx, ssl, boxes>>

CallbacksNext ==
  \/ \E c \in Contexts :
       \/ NewBuilder(c) \/ build(c) \/ DropContext(c) \/ NewSsl(c) \/ set_ssl_context(c)
       \/ \E s \in Slots, t \in Types, stored \in Stored : SetOnContext(c, s, t, stored)
       \/ SetProtocolsFails(c)
  \/ \E s \in Slots :
       Callback(s) \/ \E t \in Types, stored \in Stored : SetOnSsl(s, t, stored)
  \/ SetVerify \/ DropSsl \/ Return

CallbacksSpec == CallbacksInit /\ [][CallbacksNext]_callbackVars

-----------------------------------------------------------------------------
\* What the program configured for a slot: on the Ssl, or else on its context.
Configured(s) ==
  IF ssl.own.latest[s] # Null THEN ssl.own.latest[s] ELSE ctx[ssl.ctx].own.latest[s]

\* A step in which OpenSSL calls a closure.
RunsConfigured ==
  \A s \in Slots :
    /\ Callback(s) /\ Configured(s) # Lost
    /\ ssl.ctx = ssl.initial \/ s \in {"tmp_dh", "status", "protocols"}
    => running'.box = Configured(s)

\* The closure that a callback runs is the one that was configured last for it, out
\* of several of the same or of different types, on the Ssl or on its context.  Not
\* claimed of a closure that could not be stored, nor of the verify, psk and sni
\* callbacks of an Ssl whose context was switched: see ClosureFound.
ConfiguredRuns == [][RunsConfigured]_callbackVars

\* A closure is not freed while it runs: not when it replaces itself, nor when the
\* program drops its last handle of the context, nor when it switches the context
\* that the Ssl was made from, as set_servername_callback tells it to.  Only a closure
\* of a later context can lose its box, by switching again.
RunningIsAlive == running.box # Null /\ ~running.left => running.box \in boxes

-----------------------------------------------------------------------------
(***************************************************************************)
(* What a comment of the code tells the program to do, and the code does   *)
(* not support                                                             *)
(***************************************************************************)

\* set_servername_callback (ssl/mod.rs:386): "Obtain the server name with
\* `servername` then set the corresponding context with `set_ssl_context`".  Every
\* callback that OpenSSL then makes finds a closure to run.
ClosureFound == running # Idle => running.box # Null
=============================================================================
