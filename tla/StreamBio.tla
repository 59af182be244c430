----------------------------- MODULE StreamBio -------------------------------
(***************************************************************************)
(* The BIO that hands OpenSSL's I/O to a Rust stream (ssl/bio.rs).  A call *)
(* of the stream ends well, transfers nothing, fails, or panics; failure   *)
(* and panic are kept in StreamState for the call of SslStream that is     *)
(* under way, and a retry flag tells OpenSSL that it may try again.        *)
(***************************************************************************)

CONSTANT Blocking  \* whether the stream is a blocking one

VARIABLES
  retry,  \* the BIO's retry flag
  error,  \* StreamState.error, and whether the call under way recorded it
  panic   \* StreamState.panic

bioVars == <<retry, error, panic>>

NoError == [kind |-> "none", now |-> FALSE]

\* Kinds of io::Error; a blocking stream never has WouldBlock.
IoErrors ==
  {"NotConnected", "ConnectionAborted", "Other"}
    \union (IF Blocking THEN {} ELSE {"WouldBlock"})

\* What stream.read, write and flush can do.
Outcomes == IoErrors \union {"ok", "zero", "panic"}

retriable_error(kind) == kind \in {"WouldBlock", "NotConnected"}

\* new: a fresh StreamState.
NewBio == retry' = "none" /\ error' = NoError /\ panic' = FALSE

\* Mutant of Record: a retriable error is not kept.
RecordFatal(out) ==
  /\ error' = IF out \in IoErrors /\ ~retriable_error(out)
              THEN [kind |-> out, now |-> TRUE] ELSE error
  /\ panic' = (panic \/ out = "panic")

\* The error or the panic is kept; a later one replaces it.
Record(out) ==
  /\ error' = IF out \in IoErrors THEN [kind |-> out, now |-> TRUE] ELSE error
  /\ panic' = (panic \/ out = "panic")

\* bwrite and bread clear the retry flags first.
bwrite(out) ==
  /\ retry' = IF retriable_error(out) THEN "write" ELSE "none"
  /\ Record(out)

bread(out) ==
  /\ retry' = IF retriable_error(out) THEN "read" ELSE "none"
  /\ Record(out)

\* ctrl with BIO_CTRL_FLUSH leaves the retry flags as they are.
ctrl(out) == Record(out) /\ UNCHANGED retry

take_error == error' = NoError /\ UNCHANGED <<retry, panic>>
take_panic == panic' = FALSE /\ UNCHANGED <<retry, error>>
=============================================================================
