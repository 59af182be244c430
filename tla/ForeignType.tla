---------------------------- MODULE ForeignType ------------------------------
(***************************************************************************)
(* Ownership of the OpenSSL objects that the crate wraps (foreign_type!).  *)
(* A C object has a reference count.  References are held by Rust handles  *)
(* (the owned wrapper types, which release theirs when they are dropped)   *)
(* and by other C objects (its owners hold it as a part).  A borrow, the   *)
(* type that ends in Ref, holds no reference: it relies on the handle it   *)
(* was taken from, which the compiler keeps from being moved, dropped or   *)
(* used mutably while the borrow lives.                                    *)
(*                                                                         *)
(* Every function of the crate is a row: its parameters, and the C calls   *)
(* it makes in order.  A step says separately what C does with references  *)
(* and what the Rust code around the call does (wraps the result as owned  *)
(* or as borrowed, forgets an argument), so that the two can disagree.     *)
(* The rows are in KeyTypes, X509Types and SslTypes, and a program uses    *)
(* one group of them.                                                      *)
(***************************************************************************)
EXTENDS Integers, FiniteSets, Sequences, FiniteSetsExt

CONSTANTS
  Groups,      \* programs by what they use: the functions they may call
  MaxObjects,  \* bound for each group: objects alive at a time
  MaxRefs      \* bound: references to an object

ASSUME ForeignTypeAssumption ==
  /\ DOMAIN MaxObjects = DOMAIN Groups
  /\ \A g \in DOMAIN MaxObjects : MaxObjects[g] \in Nat \ {0}
  /\ MaxRefs \in Nat \ {0}

VARIABLES
  group, \* what this program uses
  heap,  \* the C objects: kind, reference count, parts, and how many of the
         \* references a call that is known to lose one has lost
  own,   \* how many Rust handles each object has
  lent   \* the borrows: of which object, through the handle of which, mutable?

vars == <<group, heap, own, lent>>

Rows == Groups[group]
Ids == 1..MaxObjects[group]
FreeCell == [kind |-> "free", refs |-> 0, parts |-> [j \in Ids |-> 0], lost |-> 0]

Init ==
  /\ group \in DOMAIN MaxObjects
  /\ heap = [i \in Ids |-> FreeCell]
  /\ own = [i \in Ids |-> 0]
  /\ lent = {}

-----------------------------------------------------------------------------
(***************************************************************************)
(* Steps of a function.  Parameters are numbered from 1; every object that *)
(* a step produces takes the next number.                                  *)
(***************************************************************************)

Ref(kind) == [kind |-> kind, by |-> "ref"]
Mut(kind) == [kind |-> kind, by |-> "mut"]
Own(kind) == [kind |-> kind, by |-> "own"]

\* A function, or several that differ in data only.
Fn(names, params, steps) == [names |-> names, params |-> params, steps |-> steps]

\* Functions that give nothing but data to the program and change no reference.
Data(names, params) == Fn(names, params, <<>>)

\* C makes an object (cvt_p and a wrapper); a local one is dropped at the end.
New(kind) == [do |-> "new", kind |-> kind, c |-> "fresh", rust |-> "own", fails |-> TRUE]
Local(kind) == [New(kind) EXCEPT !.rust = "drop"]

\* C gives an object that belongs to object n: a part that is always there (part), a
\* part somebody put there (held), a new reference to the former (up) or to the only
\* part there is (sole), the object itself with a new reference (self) or without one
\* (here), the object that n is a part of (whole), or the reference of a part that
\* stops being one (out).
Get(n, kind, c, rust) ==
  [do |-> "get", from |-> n, kind |-> kind, c |-> c, rust |-> rust, fails |-> TRUE]

\* C is given the objects ns for object n: it reads them or makes copies of its own,
\* copies them over a part of that kind, takes a reference of its own (share), or
\* keeps the caller's (take).  A part of the same kind is released (set), overwritten
\* (over) or stays (add).  Rust forgets the arguments after the call succeeded, or
\* before it, or not at all.
Put(n, ns, c, how, rust) ==
  [do |-> "put", into |-> n, args |-> ns, c |-> c, how |-> how, rust |-> rust, fails |-> TRUE,
   loses |-> {}]

\* A Put that loses references in the cases given: the arguments when the call is
\* done, because Rust forgets them and C has its own, or when it failed, because Rust
\* forgot them before; the old part, because its pointer is overwritten.
Leaky(step, cases) == [step EXCEPT !.loses = cases]

\* The pointer of parameter n is wrapped as another type.
Wrap(n, kind, rust) == [do |-> "wrap", from |-> n, kind |-> kind, rust |-> rust, fails |-> FALSE]

\* A call whose result is not checked because it cannot fail.
Sure(step) == [step EXCEPT !.fails = FALSE]

-----------------------------------------------------------------------------
(***************************************************************************)
(* References in C                                                         *)
(***************************************************************************)

LiveIn(h, i) == h[i].kind # "free"
Used(i) == own[i] > 0 \/ (\E b \in lent : b.id = i)
HeldIn(h, i) == \E j \in Ids : h[j].parts[i] > 0
HoldersIn(h, i) == MapThenSumSet(LAMBDA j : h[j].parts[i], {j \in Ids : h[j].parts[i] > 0})

\* Objects without references are freed and release their parts.
FreeDead(h) ==
  LET dead == {i \in Ids : LiveIn(h, i) /\ h[i].refs <= 0}
  IN  IF dead = {} THEN h
      ELSE [i \in Ids |->
             IF i \in dead THEN FreeCell
             ELSE [h[i] EXCEPT !.refs = @ - MapThenSumSet(LAMBDA d : h[d].parts[i], dead)]]

Sweep(h) ==
  LET after[n \in {0} \union Ids] == IF n = 0 THEN h ELSE FreeDead(after[n - 1])
  IN  after[Max(Ids)]

Up(h, i) == [h EXCEPT ![i].refs = @ + 1]
Release(h, i) == Sweep([h EXCEPT ![i].refs = @ - 1])

\* A cell for a new object, the lowest that nothing refers to.
Room(h) == {i \in Ids : ~LiveIn(h, i) /\ ~Used(i) /\ ~HeldIn(h, i)}
Alloc(h, i, kind) == [h EXCEPT ![i] = [FreeCell EXCEPT !.kind = kind, !.refs = 1]]

Parts(h, n, kind) == {i \in Ids : h[n].parts[i] > 0 /\ h[i].kind = kind}

\* The objects is are known to have lost a reference.
Lose(h, is) == [i \in Ids |-> IF i \in is THEN [h[i] EXCEPT !.lost = @ + 1] ELSE h[i]]

\* n's pointers to its parts of the kind are overwritten.
Overwrite(h, n, kind) ==
  [h EXCEPT ![n].parts = [j \in Ids |-> IF j \in Parts(h, n, kind) THEN 0 ELSE @[j]]]

\* n lets go of its parts of the kind.
Replace(h, n, kind) ==
  LET g == Overwrite(h, n, kind)
  IN  Sweep([i \in Ids |-> [g[i] EXCEPT !.refs = @ - (h[n].parts[i] - g[n].parts[i])]])

-----------------------------------------------------------------------------
(***************************************************************************)
(* A call: the frame of the function is the heap, the objects it has       *)
(* numbered, what it must do with each (drop: release at its end; own,     *)
(* borrow, mut: hand to the caller; none), and whether it goes on.         *)
(***************************************************************************)

Fail(f) == [f EXCEPT !.ok = FALSE]

With(f, h, i, todo) ==
  [f EXCEPT !.heap = h, !.obj = Append(@, i), !.todo = Append(@, todo)]

DoNew(st, f) ==
  IF Room(f.heap) = {} THEN {}
  ELSE LET i == Min(Room(f.heap)) IN {With(f, Alloc(f.heap, i, st.kind), i, st.rust)}

DoGet(st, f) ==
  LET n == f.obj[st.from]
      h == f.heap
      there == Parts(h, n, st.kind)
      bare == \A i \in Ids : h[n].parts[i] = 0
      \* the part is looked at for the first time
      first == IF Room(h) # {} /\ there = {} /\ (st.c \in {"part", "up"} \/ (st.c = "sole" /\ bare))
               THEN {Min(Room(h))} ELSE {}
      seen(i) == IF i \in there THEN h
                 ELSE [Alloc(h, i, st.kind) EXCEPT ![n].parts[i] = 1]
  IN  CASE st.c = "self" -> {With(f, Up(h, n), n, st.rust)}
        [] st.c = "here" -> {With(f, h, n, st.rust)}
        [] st.c = "whole" -> {With(f, h, i, st.rust) : i \in {j \in Ids : h[j].parts[n] > 0}}
        [] st.c \in {"part", "held"} -> {With(f, seen(i), i, st.rust) : i \in there \union first}
        [] st.c \in {"up", "sole"} -> {With(f, Up(seen(i), i), i, st.rust) : i \in there \union first}
        [] st.c = "out" -> {With(f, [h EXCEPT ![n].parts[i] = @ - 1], i, st.rust) : i \in there}

\* What C does with one argument.
GiveOne(h, st, n, i) ==
  LET g == CASE st.how = "set" -> Replace(h, n, h[i].kind)
             [] st.how = "over" ->
                  Lose(Overwrite(h, n, h[i].kind),
                       IF "old" \in st.loses THEN Parts(h, n, h[i].kind) ELSE {})
             [] st.how = "add" -> h
  IN  CASE st.c = "read" -> h
        [] st.c = "copy" -> Replace(h, n, h[i].kind)
        [] st.c = "share" -> [Up(g, i) EXCEPT ![n].parts[i] = @ + 1]
        [] OTHER -> [g EXCEPT ![n].parts[i] = @ + 1]

Forgotten(f, st) ==
  IF st.rust = "keep" THEN f
  ELSE [f EXCEPT !.todo = [k \in DOMAIN @ |-> IF k \in st.args THEN "none" ELSE @[k]]]

DoPut(st, f) ==
  LET n == f.obj[st.into]
      h == FoldSet(LAMBDA k, g : GiveOne(g, st, n, f.obj[k]), f.heap, st.args)
      gone == IF "done" \in st.loses THEN {f.obj[k] : k \in st.args} ELSE {}
  IN  {Forgotten([f EXCEPT !.heap = Lose(h, gone)], st)}

DoWrap(st, f) ==
  LET i == f.obj[st.from]
      g == [f EXCEPT !.todo[st.from] = IF st.rust = "forget" THEN "none" ELSE @]
  IN  {With(g, [f.heap EXCEPT ![i].kind = st.kind], i, "own")}

\* The step does not succeed.  What was forgotten before the call stays forgotten.
DoFail(st, f) ==
  IF st.do = "put" /\ st.rust = "forget_first"
  THEN LET gone == IF "failed" \in st.loses THEN {f.obj[k] : k \in st.args} ELSE {}
       IN  Forgotten(Fail([f EXCEPT !.heap = Lose(@, gone)]), st)
  ELSE Fail(f)

Step(st, f) ==
  IF ~f.ok THEN {f}
  ELSE (CASE st.do = "new" -> DoNew(st, f)
          [] st.do = "get" -> DoGet(st, f)
          [] st.do = "put" -> DoPut(st, f)
          [] st.do = "wrap" -> DoWrap(st, f))
       \union (IF st.fails THEN {DoFail(st, f)} ELSE {})

Runs(row, f) ==
  LET upto[n \in 0..Len(row.steps)] ==
        IF n = 0 THEN {f} ELSE UNION {Step(row.steps[n], g) : g \in upto[n - 1]}
  IN  upto[Len(row.steps)]

\* The function's scope ends: its own objects are dropped, and after a failure the
\* results it had ready.
Dropped(f) ==
  {k \in DOMAIN f.todo : f.todo[k] = "drop" \/ (~f.ok /\ f.todo[k] = "own")}
ScopeEnds(f) == FoldSet(LAMBDA k, h : Release(h, f.obj[k]), f.heap, Dropped(f))

-----------------------------------------------------------------------------
(***************************************************************************)
(* What the compiler lets a program do                                     *)
(***************************************************************************)

Pinned(i) == IF \E b \in lent : b.root = i THEN 1 ELSE 0
MutPinned(i) == IF \E b \in lent : b.root = i /\ b.mut THEN 1 ELSE 0
Lonely(b) == \A d \in lent : d.root = b.root => d = b

\* The parameters can be passed: moved and mutably used handles are not lent.
Passable(row, obj) ==
  \A i \in {obj[k] : k \in DOMAIN obj} :
    LET n(by) == Cardinality({k \in DOMAIN obj : obj[k] = i /\ row.params[k].by = by})
    IN  /\ \/ n("own") + n("mut") <= own[i] - Pinned(i)
           \/ /\ n("own") = 0 /\ n("mut") = 1 /\ n("ref") = 0
              /\ \E b \in lent : b.id = i /\ b.mut /\ Lonely(b)
        /\ n("ref") > 0 =>
             \/ n("own") + n("mut") < own[i] - MutPinned(i)
             \/ \E b \in lent : b.id = i

\* The handles that a borrow taken from i can rely on.
Roots(i) ==
  (IF own[i] > MutPinned(i) THEN {i} ELSE {}) \union {b.root : b \in {c \in lent : c.id = i}}

ParamTodo(p) == IF p.by = "own" THEN "drop" ELSE "none"
Count(f, i, what) == Cardinality({k \in DOMAIN f.obj : f.obj[k] = i /\ f.todo[k] = what})
Moved(row, obj, i) == Cardinality({k \in DOMAIN obj : obj[k] = i /\ row.params[k].by = "own"})

Call(row) ==
  \E obj \in [DOMAIN row.params -> {i \in Ids : LiveIn(heap, i)}] :
    /\ \A k \in DOMAIN obj : heap[obj[k]].kind = row.params[k].kind
    /\ Passable(row, obj)
    /\ \E f \in Runs(row, [heap |-> heap, obj |-> obj, ok |-> TRUE,
                           todo |-> [k \in DOMAIN obj |-> ParamTodo(row.params[k])]]) :
         /\ heap' = ScopeEnds(f)
         /\ \A i \in Ids : heap'[i].refs <= MaxRefs
         /\ own' = [i \in Ids |-> own[i] - Moved(row, obj, i)
                                    + IF f.ok THEN Count(f, i, "own") ELSE 0]
         /\ LET views == {k \in DOMAIN f.obj : f.ok /\ f.todo[k] \in {"borrow", "mut"}}
            IN  IF views = {} THEN UNCHANGED lent
                ELSE \E r \in Roots(obj[1]) :
                       lent' = lent \union
                         {[id |-> f.obj[k], root |-> r, mut |-> f.todo[k] = "mut"] : k \in views}

\* A handle goes out of scope.
Drop ==
  \E i \in Ids :
    /\ own[i] > Pinned(i)
    /\ heap' = Release(heap, i)
    /\ own' = [own EXCEPT ![i] = @ - 1]
    /\ UNCHANGED lent

\* A borrow is used for the last time.
EndBorrow == \E b \in lent : lent' = lent \ {b} /\ UNCHANGED <<heap, own>>

Next ==
  /\ UNCHANGED group
  /\ Drop \/ EndBorrow \/ \E row \in Rows : Call(row)

Spec == Init /\ [][Next]_vars

-----------------------------------------------------------------------------
Owners(i) == own[i] + HoldersIn(heap, i)

\* No handle, borrow or part refers to a freed object, no object is released once
\* too often, and none has fewer references than it has owners, which the next
\* release would turn into a dangling one.
NoUseAfterFree ==
  \A i \in Ids :
    IF LiveIn(heap, i) THEN heap[i].refs >= Owners(i)
    ELSE heap[i].refs = 0 /\ ~Used(i) /\ ~HeldIn(heap, i)

\* The references that C counts and nobody owns are exactly those that the calls
\* marked Leaky have lost: no other call forgets what C does not take or takes what
\* it does not release, on failing paths either.
NoLeak ==
  \A i \in Ids : LiveIn(heap, i) => heap[i].refs - Owners(i) = heap[i].lost

\* An object whose type has methods on &mut self is never reachable through two
\* owners, so that &mut is exclusive as Rust requires.
MutIsUnique ==
  \A i \in Ids :
    Owners(i) > 1 =>
      \A row \in Rows : \A k \in DOMAIN row.params : row.params[k] # Mut(heap[i].kind)
=============================================================================
