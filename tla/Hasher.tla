------------------------------- MODULE Hasher --------------------------------
(***************************************************************************)
(* Hasher (hash.rs): a context of OpenSSL that is initialised lazily, and  *)
(* a state that says what was done with it last.  OpenSSL is external: a   *)
(* digest context must be initialised before data is added, and is spent   *)
(* once it has given its digest, also if it failed to.                     *)
(***************************************************************************)
EXTENDS Integers, Sequences

CONSTANTS
  Hashers,    \* a Hasher and its clones
  Chunks,     \* pieces of data
  MaxLen,     \* bound: chunks in a context
  FinalFails  \* whether EVP_DigestFinal_ex can fail (built-in digests do not)

VARIABLES
  hstate,  \* Hasher.state, Dead if there is no such hasher
  hctx,    \* what its EVP_MD_CTX has digested
  hlast    \* what the digest it returned last was computed over

hasherVars == <<hstate, hctx, hlast>>

NoDigest == <<"no result">>
Junk == <<"junk">>

HasherInit ==
  /\ hstate = [h \in Hashers |-> "Dead"]
  /\ hctx = [h \in Hashers |-> Junk]
  /\ hlast = [h \in Hashers |-> NoDigest]

-----------------------------------------------------------------------------
\* EVP_DigestUpdate may have added the data when it fails.
UpdateFailed(data, c) == {data, Append(data, c)}

\* init, called in state Finalized only: EVP_DigestInit_ex.
InitOf(h) == IF hstate[h] = "Finalized" THEN <<>> ELSE hctx[h]
ReadyState(h) == IF hstate[h] = "Finalized" THEN "Reset" ELSE hstate[h]

\* Hasher::new, and hash2 as far as it; a failing init drops the hasher.
HasherNew(h) ==
  /\ hstate[h] = "Dead"
  /\ hstate' = [hstate EXCEPT ![h] = "Reset"]
  /\ hctx' = [hctx EXCEPT ![h] = <<>>]
  /\ hlast' = [hlast EXCEPT ![h] = NoDigest]

\* The lazy init of update or of finish2 fails.
InitFails(h) ==
  /\ hstate[h] = "Finalized"
  /\ hlast' = [hlast EXCEPT ![h] = NoDigest]
  /\ UNCHANGED <<hstate, hctx>>

\* Mutant of update: a finalized hasher is not initialised.
HasherUpdate_spent(h, c) ==
  /\ hstate[h] # "Dead" /\ Len(hctx[h]) < MaxLen
  /\ hctx' = [hctx EXCEPT ![h] = Append(@, c)]
  /\ hstate' = [hstate EXCEPT ![h] = "Updated"]
  /\ hlast' = [hlast EXCEPT ![h] = NoDigest]

\* update, and write, which is the same; on failure the state stays Reset or Updated.
HasherUpdate(h, c) ==
  /\ hstate[h] # "Dead" /\ Len(InitOf(h)) < MaxLen
  /\ \/ hctx' = [hctx EXCEPT ![h] = Append(InitOf(h), c)] /\ hstate' = [hstate EXCEPT ![h] = "Updated"]
     \/ \E d \in UpdateFailed(InitOf(h), c) :
          hctx' = [hctx EXCEPT ![h] = d] /\ hstate' = [hstate EXCEPT ![h] = ReadyState(h)]
  /\ hlast' = [hlast EXCEPT ![h] = NoDigest]

\* finish2 and finish: EVP_DigestFinal_ex leaves a spent context.
finish2(h) ==
  /\ hstate[h] # "Dead"
  /\ hctx' = [hctx EXCEPT ![h] = Junk]
  /\ \/ /\ hlast' = [hlast EXCEPT ![h] = InitOf(h)]
        /\ hstate' = [hstate EXCEPT ![h] = "Finalized"]
     \/ /\ FinalFails
        /\ hlast' = [hlast EXCEPT ![h] = NoDigest]
        /\ hstate' = [hstate EXCEPT ![h] = ReadyState(h)]

\* The context is copied with what it holds, and the state with it.
HasherClone(h, g) ==
  /\ hstate[h] # "Dead" /\ hstate[g] = "Dead"
  /\ hctx' = [hctx EXCEPT ![g] = hctx[h]]
  /\ hstate' = [hstate EXCEPT ![g] = hstate[h]]
  /\ hlast' = [hlast EXCEPT ![g] = NoDigest]

\* drop finishes what was begun and frees the context.
HasherDrop(h) ==
  /\ hstate[h] # "Dead"
  /\ hstate' = [hstate EXCEPT ![h] = "Dead"]
  /\ hctx' = [hctx EXCEPT ![h] = Junk]
  /\ hlast' = [hlast EXCEPT ![h] = NoDigest]

HasherNext ==
  \E h \in Hashers :
    \/ HasherNew(h) \/ InitFails(h) \/ finish2(h) \/ HasherDrop(h)
    \/ (\E c \in Chunks : HasherUpdate(h, c)) \/ (\E g \in Hashers : HasherClone(h, g))

HasherSpec == HasherInit /\ [][HasherNext]_hasherVars

-----------------------------------------------------------------------------
\* A finalized hasher has nothing written to it yet: its context is not looked at.
Written == [h \in Hashers |-> IF hstate[h] \in {"Dead", "Finalized"} THEN <<>> ELSE hctx[h]]

HasherAbs == INSTANCE Digest WITH
  Objects <- Hashers, Resets <- TRUE, written <- Written, result <- hlast

\* Every digest is that of the data written since the last one, over any sequence of
\* writes, failures, clones and drops: "Returns the hash of the data written and
\* resets the hasher."
HashesWhatWasWritten == HasherAbs!Spec

\* finish2: "Returns the hash of the data written and resets the hasher."  It never
\* returns the digest of a context that is spent.  After a failed final it does (see README).
NoSpentDigest == 
  \A h \in Hashers :
    hlast[h] # NoDigest => \A i \in DOMAIN hlast[h] : hlast[h][i] # "junk"
=============================================================================
