----------------------------- MODULE SslStream -------------------------------
(***************************************************************************)
(* SslStream (ssl/mod.rs) over the BIO of ssl/bio.rs: connect or accept,   *)
(* handshake again, ssl_read, ssl_write, shutdown, and make_error, which   *)
(* turns a failed call of OpenSSL into a Rust error.                       *)
(*                                                                         *)
(* OpenSSL is external.  A call of it is a sequence of BIO calls; it ends  *)
(* with success, with the failure of a BIO call, with a protocol error,    *)
(* whose alert it tries to send, or at the peer's close_notify.  A warning *)
(* alert is sent in passing.  The outcome of sending an alert is ignored.  *)
(* A flush follows the writes that emptied the handshake's buffer.         *)
(***************************************************************************)
EXTENDS StreamBio, Integers

VARIABLES
  stage,   \* new, mid (MidHandshakeSslStream), open (SslStream), dropped
  op,      \* the call that is under way, none between calls
  ret,     \* what OpenSSL returned; Pending while it runs
  rwstate, \* what OpenSSL was waiting for when it returned
  closed,  \* close_notify has been received
  queue,   \* whether the thread's error queue holds an error
  last,    \* the last BIO call of this call and its outcome
  result,  \* what the last call returned to the program
  unwound  \* a panic has passed through a call on this thread

streamVars ==
  <<bioVars, stage, op, ret, rwstate, closed, queue, last, result, unwound>>

Pending == 2
Ops == {"handshake", "ssl_read", "ssl_write", "shutdown"}
NoCall == [call |-> "none", out |-> "ok"]
NoResult == [of |-> "none", kind |-> "none", err |-> NoError]
ResultOf(k, e) == [of |-> op, kind |-> k, err |-> e]

StreamInit ==
  /\ retry = "none" /\ error = NoError /\ panic = FALSE
  /\ stage = "new" /\ op = "none" /\ ret = Pending /\ rwstate = "nothing"
  /\ closed = FALSE /\ queue = FALSE /\ last = NoCall
  /\ result = NoResult /\ unwound = FALSE

\* new_base: the program gives up its stream, if any, and starts another one.
new_base ==
  /\ op = "none" /\ stage # "new"
  /\ NewBio
  /\ stage' = "new" /\ closed' = FALSE /\ result' = NoResult /\ last' = NoCall
  /\ UNCHANGED <<op, ret, rwstate, queue, unwound>>

-----------------------------------------------------------------------------
(***************************************************************************)
(* Calls, as far as OpenSSL                                                *)
(***************************************************************************)

\* connect and accept on a new stream, MidHandshakeSslStream::handshake, and the
\* calls of a stream whose handshake is through.
Call(o) ==
  /\ op = "none"
  /\ IF o = "handshake" THEN stage \in {"new", "mid"} ELSE stage = "open"
  /\ op' = o /\ ret' = Pending /\ rwstate' = "nothing" /\ last' = NoCall
  /\ error' = [error EXCEPT !.now = FALSE]
  /\ result' = NoResult
  /\ UNCHANGED <<retry, panic, stage, closed, queue, unwound>>

\* ssl_read and ssl_write with an empty buffer do not reach OpenSSL.
CallEmpty ==
  /\ op = "none" /\ stage = "open"
  /\ result' = ResultOf("ok", NoError) /\ last' = NoCall
  /\ UNCHANGED <<bioVars, stage, op, ret, rwstate, closed, queue, unwound>>

Running == op # "none" /\ ret = Pending

\* SSL_shutdown makes -1 of every failure.
Failed(out) == IF out = "zero" /\ op # "shutdown" THEN 0 ELSE -1

SslWrites ==
  /\ Running
  /\ \E out \in Outcomes :
       /\ bwrite(out)
       /\ last' = [call |-> "bwrite", out |-> out]
       /\ ret' = IF out = "ok" THEN Pending ELSE Failed(out)
  /\ rwstate' = "writing"
  /\ UNCHANGED <<stage, op, closed, queue, result, unwound>>

SslReads ==
  /\ Running
  /\ \E out \in Outcomes :
       /\ bread(out)
       /\ last' = [call |-> "bread", out |-> out]
       /\ ret' = IF out = "ok" THEN Pending ELSE Failed(out)
  /\ rwstate' = "reading"
  /\ UNCHANGED <<stage, op, closed, queue, result, unwound>>

SslFlushes ==
  /\ Running /\ op = "handshake" /\ last = [call |-> "bwrite", out |-> "ok"]
  /\ \E out \in Outcomes \ {"zero"} :
       /\ ctrl(out)
       /\ last' = [call |-> "ctrl", out |-> out]
       /\ ret' = IF out = "ok" THEN Pending ELSE -1
  /\ rwstate' = "writing"
  /\ UNCHANGED <<stage, op, closed, queue, result, unwound>>

\* A fatal alert ends the call, a warning does not.
SslAlerts ==
  /\ Running
  /\ \E out \in Outcomes :
       bwrite(out) /\ last' = [call |-> "alert", out |-> out]
  /\ \/ queue' = TRUE /\ ret' = -1
     \/ UNCHANGED <<queue, ret>>
  /\ rwstate' = "writing"
  /\ UNCHANGED <<stage, op, closed, result, unwound>>

\* ssl_read ends at close_notify; SSL_shutdown answers it.
SslClosed ==
  /\ Running /\ op \in {"ssl_read", "shutdown"}
  /\ closed' = TRUE
  /\ ret' = IF op = "shutdown" THEN 1 ELSE 0
  /\ rwstate' = "nothing"
  /\ UNCHANGED <<bioVars, stage, op, queue, last, result, unwound>>

\* 0 is a success of SSL_shutdown only: its close_notify is sent.
SslSucceeds ==
  /\ Running
  /\ ret' = IF op = "shutdown" THEN 0 ELSE 1
  /\ rwstate' = "nothing" /\ last' = NoCall
  /\ UNCHANGED <<bioVars, stage, op, closed, queue, result, unwound>>

\* SSL_get_error: one BIO serves both directions, so its flag decides.
get_error ==
  IF queue THEN "SSL"
  ELSE IF ret < 0 /\ rwstate # "nothing" /\ retry # "none"
       THEN IF retry = "read" THEN "WANT_READ" ELSE "WANT_WRITE"
       ELSE IF ret = 0 /\ closed THEN "ZERO_RETURN" ELSE "SYSCALL"

-----------------------------------------------------------------------------
(***************************************************************************)
(* Calls, back in Rust                                                     *)
(***************************************************************************)

Succeeded == ret > 0 \/ (op = "shutdown" /\ ret = 0)

\* Where the call leaves the stream.
StageAfter(kind) ==
  IF op # "handshake" THEN stage
  ELSE CASE kind = "ok" -> "open" [] kind = "panic" -> "dropped" [] OTHER -> "mid"

Returns(res) ==
  /\ result' = res
  /\ stage' = StageAfter(res.kind)
  /\ op' = "none"
  /\ UNCHANGED <<ret, rwstate, closed, last>>

ReturnOk ==
  /\ op # "none" /\ ret # Pending /\ Succeeded
  /\ Returns(ResultOf("ok", NoError))
  /\ UNCHANGED <<bioVars, queue, unwound>>

\* check_panic comes first in make_error.
MustUnwind == panic

Unwind ==
  /\ op # "none" /\ ret # Pending /\ ~Succeeded /\ MustUnwind
  /\ take_panic
  /\ Returns(ResultOf("panic", NoError))
  /\ unwound' = TRUE
  /\ UNCHANGED queue

\* ssl_read takes ConnectionAborted, which also stands for an end of input without
\* an error, for the end of the stream.
StreamError(e) ==
  IF op = "ssl_read" /\ e.kind = "ConnectionAborted"
  THEN ResultOf("ok", NoError) ELSE ResultOf("Stream", e)

\* get_bio_error, or the error that is made up without one.
BioErrorOr(kind) == IF error = NoError THEN [kind |-> kind, now |-> TRUE] ELSE error

\* Mutant of DrainQueue: the errors are looked at and left where they are.
KeepQueue == UNCHANGED queue

\* ErrorStack::get pops until the queue is empty.
DrainQueue == queue' = FALSE

\* The error made of what SSL_get_error says.  The last arm is for codes that no BIO
\* and no callback of the crate brings about.
ErrorOf(code) ==
  CASE code = "SSL" -> ResultOf("Ssl", NoError)
    [] code = "SYSCALL" -> StreamError(BioErrorOr("ConnectionAborted"))
    [] code = "ZERO_RETURN" -> ResultOf("ZeroReturn", NoError)
    [] code = "WANT_WRITE" -> ResultOf("WantWrite", BioErrorOr("BUG"))
    [] code = "WANT_READ" -> ResultOf("WantRead", BioErrorOr("BUG"))
    [] OTHER -> ResultOf("Stream", [kind |-> "InvalidData", now |-> TRUE])

make_error ==
  /\ op # "none" /\ ret # Pending /\ ~Succeeded /\ ~MustUnwind
  /\ Returns(ErrorOf(get_error))
  /\ IF get_error \in {"SSL", "SYSCALL"} THEN DrainQueue ELSE UNCHANGED queue
  /\ IF get_error \in {"SYSCALL", "WANT_WRITE", "WANT_READ"} THEN take_error ELSE UNCHANGED bioVars
  /\ UNCHANGED unwound

StreamNext ==
  \/ new_base \/ CallEmpty \/ (\E o \in Ops : Call(o))
  \/ SslWrites \/ SslReads \/ SslFlushes \/ SslAlerts \/ SslClosed \/ SslSucceeds
  \/ ReturnOk \/ Unwind \/ make_error

StreamSpec == StreamInit /\ [][StreamNext]_streamVars

-----------------------------------------------------------------------------
\* WantRead and WantWrite carry the error of this very call's last BIO call, in
\* the direction that blocked: never the message that begins with BUG, never an
\* error an earlier call or an ignored alert left in StreamState.
WantIsFresh ==
  result.kind \in {"WantRead", "WantWrite"} =>
    /\ result.err.now /\ retriable_error(result.err.kind)
    /\ last = [call |-> IF result.kind = "WantRead" THEN "bread" ELSE "bwrite",
               out |-> result.err.kind]

\* Unless a panic passed through, no call leaves errors in the thread's queue,
\* where the next call would mistake them for its own.
QueueDrained == op = "none" /\ queue => unwound

-----------------------------------------------------------------------------
\* Stated by comments and violated.

\* ssl_read: "Don't treat unexpected EOFs as errors when reading".  When the last read
\* of the stream found its end, ssl_read returns no I/O error.
UnexpectedEofIsNoError ==
  result.of = "ssl_read" /\ result.kind = "Stream"
    => last # [call |-> "bread", out |-> "zero"]

\* HandshakeError::Interrupted: "This error will never be returned for blocking
\* streams".
NeverInterrupted ==
  Blocking => ~(stage = "mid" /\ result.kind \in {"WantRead", "WantWrite"})
=============================================================================
