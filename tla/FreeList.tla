------------------------------ MODULE FreeList ------------------------------
(***************************************************************************)
(* The lock-free list of spare blocks of the queue between threads         *)
(* (src/concurrentqueue.h, FreeList).  A node's reference count keeps its  *)
(* next pointer from changing while a thread that is about to swap the     *)
(* head depends on it; a node that cannot go on the list because others    *)
(* still look at it is marked, and the last of them puts it there.         *)
(*                                                                         *)
(* A step is one atomic access.  The count and the SHOULD_BE_ON_FREELIST   *)
(* bit share the word freeListRefs: [n, should].                           *)
(***************************************************************************)
EXTENDS Naturals, FiniteSets

CONSTANTS User, Node, Null,
          MaxOps      \* bound: calls each thread makes

\* A pointer is a node's or null
ASSUME UserAssumption == IsFiniteSet(User) /\ Null \notin Node /\ MaxOps \in Nat

VARIABLES freeListHead, freeListRefs, freeListNext,
          at,         \* thread -> its step, its locals and the calls it made
          has         \* thread -> the nodes it took and did not add back

vars == <<freeListHead, freeListRefs, freeListNext, at, has>>

Word(n, should) == [n |-> n, should |-> should]

\* op: the call; m: the node an add adds, or try_get's prevHead; top: the head that
\* add_knowing_refcount_is_zero expects; head, refs, nxt: try_get's own
Idle(ops) == [pc |-> "idle", m |-> Null, top |-> Null, head |-> Null,
              refs |-> Word(0, FALSE), nxt |-> Null, op |-> "none", ops |-> ops]

Init == /\ freeListHead = Null
        /\ freeListRefs = [m \in Node |-> Word(0, FALSE)]
        /\ freeListNext = [m \in Node |-> Null]
        /\ at = [t \in User |-> Idle(0)]
        /\ \E holder \in [Node -> User] : has = [t \in User |-> {m \in Node : holder[m] = t}]

Go(t, locals) == at' = [at EXCEPT ![t] = locals]
Done(t) == Go(t, Idle(at[t].ops))

\* add_knowing_refcount_is_zero returns: to add's caller, or to the loop of
\* the try_get that dropped the last reference
Added(t) == IF at[t].op = "try_get" THEN Go(t, [at[t] EXCEPT !.pc = "refs", !.m = Null, !.top = Null])
            ELSE Done(t)

AddBegin(t, m) ==
  /\ at[t].pc = "idle" /\ m \in has[t] /\ at[t].ops < MaxOps
  /\ has' = [has EXCEPT ![t] = @ \ {m}]
  /\ freeListRefs' = [freeListRefs EXCEPT ![m] = Word(@.n, TRUE)]
  /\ IF freeListRefs[m] = Word(0, FALSE)
     THEN Go(t, [at[t] EXCEPT !.pc = "top", !.op = "add", !.m = m, !.ops = @ + 1])
     ELSE Go(t, [at[t] EXCEPT !.ops = @ + 1])
  /\ UNCHANGED <<freeListHead, freeListNext>>

AddTop(t) ==
  /\ at[t].pc = "top"
  /\ Go(t, [at[t] EXCEPT !.pc = "link", !.top = freeListHead])
  /\ UNCHANGED <<freeListHead, freeListRefs, freeListNext, has>>

\* Nobody can reach the node between the two stores: its count is zero
AddLink(t) ==
  /\ at[t].pc = "link"
  /\ freeListNext' = [freeListNext EXCEPT ![at[t].m] = at[t].top]
  /\ freeListRefs' = [freeListRefs EXCEPT ![at[t].m] = Word(1, FALSE)]
  /\ Go(t, [at[t] EXCEPT !.pc = "swap"])
  /\ UNCHANGED <<freeListHead, has>>

AddSwap(t) ==
  /\ at[t].pc = "swap"
  /\ IF freeListHead = at[t].top
     THEN freeListHead' = at[t].m /\ Added(t)
     ELSE freeListHead' = freeListHead /\ Go(t, [at[t] EXCEPT !.pc = "mark", !.top = freeListHead])
  /\ UNCHANGED <<freeListRefs, freeListNext, has>>

\* (mutant) the thread whose swap failed tries again whoever looks at the node
AddMarkRetries(t) ==
  /\ at[t].pc = "mark"
  /\ freeListRefs' = [freeListRefs EXCEPT ![at[t].m] = Word(@.n - 1, TRUE)]
  /\ Go(t, [at[t] EXCEPT !.pc = "link"])
  /\ UNCHANGED <<freeListHead, freeListNext, has>>
\* The swap failed: the add is left to whoever brings the count back to zero,
\* this thread if its own reference was the only one
AddMark(t) ==
  LET m == at[t].m
  IN /\ at[t].pc = "mark"
     /\ freeListRefs' = [freeListRefs EXCEPT ![m] = Word(@.n - 1, TRUE)]
     /\ IF freeListRefs[m] = Word(1, FALSE) THEN Go(t, [at[t] EXCEPT !.pc = "link"]) ELSE Added(t)
     /\ UNCHANGED <<freeListHead, freeListNext, has>>

GetBegin(t) ==
  /\ at[t].pc = "idle" /\ at[t].ops < MaxOps
  /\ Go(t, [at[t] EXCEPT !.pc = "refs", !.op = "try_get", !.head = freeListHead, !.ops = @ + 1])
  /\ UNCHANGED <<freeListHead, freeListRefs, freeListNext, has>>

GetRefs(t) ==
  /\ at[t].pc = "refs"
  /\ IF at[t].head = Null THEN Done(t)
     ELSE Go(t, [at[t] EXCEPT !.pc = "claim", !.m = at[t].head, !.refs = freeListRefs[at[t].head]])
  /\ UNCHANGED <<freeListHead, freeListRefs, freeListNext, has>>

\* A reference is added, unless the count was zero or has changed since:
\* then the head is loaded again
GetClaim(t) ==
  LET m == at[t].m
  IN /\ at[t].pc = "claim"
     /\ IF at[t].refs.n # 0 /\ freeListRefs[m] = at[t].refs
        THEN /\ freeListRefs' = [freeListRefs EXCEPT ![m] = Word(@.n + 1, @.should)]
             /\ Go(t, [at[t] EXCEPT !.pc = "next"])
        ELSE /\ freeListRefs' = freeListRefs
             /\ Go(t, [at[t] EXCEPT !.pc = "refs", !.m = Null, !.head = freeListHead])
     /\ UNCHANGED <<freeListHead, freeListNext, has>>

GetNext(t) ==
  /\ at[t].pc = "next"
  /\ Go(t, [at[t] EXCEPT !.pc = "take", !.nxt = freeListNext[at[t].m]])
  /\ UNCHANGED <<freeListHead, freeListRefs, freeListNext, has>>

GetTake(t) ==
  /\ at[t].pc = "take"
  /\ IF freeListHead = at[t].m
     THEN freeListHead' = at[t].nxt /\ Go(t, [at[t] EXCEPT !.pc = "got"])
     ELSE freeListHead' = freeListHead /\ Go(t, [at[t] EXCEPT !.pc = "drop", !.head = freeListHead])
  /\ UNCHANGED <<freeListRefs, freeListNext, has>>

\* Two references go, the thread's and the list's
GetGot(t) ==
  /\ at[t].pc = "got"
  /\ freeListRefs' = [freeListRefs EXCEPT ![at[t].m] = Word(@.n - 2, @.should)]
  /\ has' = [has EXCEPT ![t] = @ \cup {at[t].m}]
  /\ Done(t)
  /\ UNCHANGED <<freeListHead, freeListNext>>

\* The head had changed: the reference goes, and the thread that drops the
\* last one of a marked node adds the node
GetDrop(t) ==
  LET m == at[t].m
  IN /\ at[t].pc = "drop"
     /\ freeListRefs' = [freeListRefs EXCEPT ![m] = Word(@.n - 1, @.should)]
     /\ IF freeListRefs[m] = Word(1, TRUE) THEN Go(t, [at[t] EXCEPT !.pc = "top"])
        ELSE Go(t, [at[t] EXCEPT !.pc = "refs", !.m = Null])
     /\ UNCHANGED <<freeListHead, freeListNext, has>>

Step(t) ==
  \/ \E m \in Node : AddBegin(t, m)
  \/ AddTop(t) \/ AddLink(t) \/ AddSwap(t) \/ AddMark(t)
  \/ GetBegin(t) \/ GetRefs(t) \/ GetClaim(t) \/ GetNext(t) \/ GetTake(t) \/ GetGot(t) \/ GetDrop(t)

Next == \E t \in User : Step(t)

Spec == Init /\ [][Next]_vars

-----------------------------------------------------------------------------
\* The nodes reached from the head: those that every set has which has the
\* head and what its nodes point to
Follows(S) == /\ freeListHead \in S \cup {Null}
              /\ \A m \in S : freeListNext[m] \in S \cup {Null}
Listed == {m \in Node : \A S \in SUBSET Node : Follows(S) => m \in S}

\* Whoever will see a node get on the list or into hands: the thread adding
\* it or taking it off, or, once it is marked, the threads that refer to it
Adding(m) == {t \in User : at[t].m = m /\ at[t].pc \in {"top", "link", "swap", "mark"}}
Taking(m) == {t \in User : at[t].m = m /\ at[t].pc = "got"}
Referring(m) == {t \in User : at[t].m = m /\ at[t].pc \in {"next", "take", "drop"}}

\* The places a node is in
Places(m) == ({"hands"} \X {t \in User : m \in has[t]})
                \cup ({"adding"} \X Adding(m)) \cup ({"taking"} \X Taking(m))
                \cup (IF m \in Listed THEN {<<"list">>} ELSE {})
                \cup (IF freeListRefs[m].should /\ Adding(m) = {} /\ Referring(m) # {}
                      THEN {<<"marked">>} ELSE {})

(***************************************************************************)
(* Every spare block is in exactly one place at every step of every        *)
(* interleaving of add and try_get: in the hands of one thread, on the     *)
(* list, on its way on or off it with one thread, or marked for the last   *)
(* thread that refers to it.  So no block is lost, handed to two threads   *)
(* or listed twice, and the mark is not set on a node that is on the list  *)
(* (the assertion in try_get).  The list has no cycle: nothing points to   *)
(* its head, and no two of its nodes to the same one.                      *)
(***************************************************************************)
NodesAccounted ==
  /\ \A m \in Node :
       /\ Cardinality(Places(m)) = 1
       /\ m \in Listed => freeListRefs[m] = Word(1 + Cardinality(Referring(m)), FALSE)
  /\ \A m \in Listed : freeListNext[m] # Null =>
       /\ freeListNext[m] # freeListHead
       /\ \A o \in Listed : freeListNext[o] = freeListNext[m] => o = m
=============================================================================
