--------------------------- MODULE FreeList_proofs ---------------------------
(***************************************************************************)
(* Proof that FreeList accounts for every node, for any number of threads  *)
(* and nodes and any number of calls.                                      *)
(***************************************************************************)
EXTENDS FreeList, FiniteSetTheorems, TLAPS

Pointer == Node \cup {Null}
Refs == [n : Nat, should : BOOLEAN]

Busy == {"top", "link", "swap", "mark", "claim", "next", "take", "drop", "got"}
Local == [pc : Busy \cup {"idle", "refs"}, m : Pointer, top : Pointer, head : Pointer,
          refs : Refs, nxt : Pointer, op : {"none", "add", "try_get"}, ops : Nat]

TypeOK ==
  /\ freeListHead \in Pointer
  /\ freeListRefs \in [Node -> Refs]
  /\ freeListNext \in [Node -> Pointer]
  /\ at \in [User -> Local]
  /\ has \in [User -> SUBSET Node]

\* What a thread relies on between two of its steps: the successor it stored
\* or read is still the node's.
ThreadInv(t) ==
  /\ at[t].pc \in Busy => at[t].m \in Node
  /\ at[t].pc = "swap" => freeListNext[at[t].m] = at[t].top
  /\ at[t].pc = "take" => freeListNext[at[t].m] = at[t].nxt

\* The threads that have a node in hands, are about to link it, have linked it,
\* took it off; and how many refer to it.
Holding(m) == {t \in User : m \in has[t]}
Linking(m) == {t \in User : at[t].m = m /\ at[t].pc \in {"top", "link"}}
Linked(m) == {t \in User : at[t].m = m /\ at[t].pc \in {"swap", "mark"}}
Count(m) == Cardinality(Referring(m))

\* A node is of one of six kinds, which tell its count and its mark.
InHands(m) == /\ \E t \in User : Holding(m) = {t}
              /\ Linking(m) = {} /\ Linked(m) = {} /\ Taking(m) = {} /\ m \notin Listed
              /\ freeListRefs[m] = Word(Count(m), FALSE)
BeingLinked(m) == /\ \E t \in User : Linking(m) = {t}
                  /\ Holding(m) = {} /\ Linked(m) = {} /\ Taking(m) = {} /\ m \notin Listed
                  /\ Referring(m) = {} /\ freeListRefs[m] = Word(0, TRUE)
BeingPut(m) == /\ \E t \in User : Linked(m) = {t}
               /\ Holding(m) = {} /\ Linking(m) = {} /\ Taking(m) = {} /\ m \notin Listed
               /\ freeListRefs[m] = Word(1 + Count(m), FALSE)
TakenOff(m) == /\ \E t \in User : Taking(m) = {t}
               /\ Holding(m) = {} /\ Linking(m) = {} /\ Linked(m) = {} /\ m \notin Listed
               /\ freeListRefs[m] = Word(2 + Count(m), FALSE)
OnList(m) == /\ Holding(m) = {} /\ Linking(m) = {} /\ Linked(m) = {} /\ Taking(m) = {}
             /\ m \in Listed
             /\ freeListRefs[m] = Word(1 + Count(m), FALSE)
Marked(m) == /\ Holding(m) = {} /\ Linking(m) = {} /\ Linked(m) = {} /\ Taking(m) = {}
             /\ m \notin Listed /\ Referring(m) # {}
             /\ freeListRefs[m] = Word(Count(m), TRUE)

NodeInv(m) == InHands(m) \/ BeingLinked(m) \/ BeingPut(m) \/ TakenOff(m) \/ OnList(m) \/ Marked(m)

\* A listed node has one predecessor, the head none.
ListInv ==
  \A m \in Listed : freeListNext[m] # Null =>
    /\ freeListNext[m] # freeListHead
    /\ \A o \in Listed : freeListNext[o] = freeListNext[m] => o = m

IInv == /\ TypeOK
        /\ \A t \in User : ThreadInv(t)
        /\ \A m \in Node : NodeInv(m)
        /\ ListInv

USE UserAssumption

-----------------------------------------------------------------------------
\* The list as a function of head and links: its nodes are the least set that
\* has the head and follows the links.
Along(h, n, S) == h \in S \cup {Null} /\ \A m \in S : n[m] \in S \cup {Null}
Reach(h, n) == {m \in Node : \A S \in SUBSET Node : Along(h, n, S) => m \in S}

LEMMA ListedReach == Listed = Reach(freeListHead, freeListNext)
  BY Zenon DEF Listed, Follows, Reach, Along

\* What is reached from the head follows the links.
LEMMA ReachAlong ==
  ASSUME NEW h \in Pointer, NEW n \in [Node -> Pointer]
  PROVE  Reach(h, n) \in SUBSET Node /\ Along(h, n, Reach(h, n))
<1>1. Reach(h, n) \in SUBSET Node
  BY Zenon DEF Reach
<1>2. h \in Reach(h, n) \cup {Null}
  BY Zenon DEF Reach, Along, Pointer
<1>3. ASSUME NEW m \in Reach(h, n) PROVE n[m] \in Reach(h, n) \cup {Null}
  BY Zenon DEF Reach, Along, Pointer
<1> QED BY <1>1, <1>2, <1>3, Zenon DEF Along

\* A set that follows the links from the head has every node that is reached.
LEMMA ReachLeast ==
  ASSUME NEW h, NEW n, NEW S \in SUBSET Node, Along(h, n, S) PROVE Reach(h, n) \subseteq S
  BY Zenon DEF Reach

\* A node that is not reached is linked: the others are reached as they were.
LEMMA ReachLink ==
  ASSUME NEW h \in Pointer, NEW n \in [Node -> Pointer], NEW k \in [Node -> Pointer],
         NEW m \in Node, m \notin Reach(h, n), \A o \in Node : o # m => k[o] = n[o]
  PROVE  Reach(h, k) = Reach(h, n)
<1> DEFINE R == Reach(h, n)
           Q == Reach(h, k)
<1>1. R \in SUBSET Node /\ Along(h, n, R) /\ Q \in SUBSET Node /\ Along(h, k, Q)
  BY ReachAlong, Zenon
<1>2. Along(h, k, R)
  BY <1>1, Zenon DEF Along
<1>3. Q \subseteq R
  BY <1>1, <1>2, ReachLeast, Zenon
<1>4. Along(h, n, Q)
  BY <1>1, <1>3, Zenon DEF Along
<1> QED BY <1>1, <1>3, <1>4, ReachLeast, Zenon

\* A node that is not reached is put before the head.
LEMMA ReachPut ==
  ASSUME NEW n \in [Node -> Pointer], NEW m \in Node, m \notin Reach(n[m], n)
  PROVE  Reach(m, n) = Reach(n[m], n) \cup {m}
<1> DEFINE h == n[m]
           R == Reach(h, n)
           Q == Reach(m, n)
           S == R \cup {m}
<1>1. R \in SUBSET Node /\ Along(h, n, R) /\ Q \in SUBSET Node /\ Along(m, n, Q)
  BY ReachAlong, Zenon DEF Pointer
<1>2. S \in SUBSET Node /\ Along(m, n, S)
  BY <1>1, Zenon DEF Along
<1>3. Q \subseteq S
  BY <1>2, ReachLeast, Zenon
<1>4. m \in Q
  BY <1>1, Zenon DEF Along
<1>5. Along(h, n, Q)
  BY <1>1, <1>4, Zenon DEF Along
<1>6. R \subseteq Q
  BY <1>1, <1>5, ReachLeast, Zenon
<1> QED BY <1>3, <1>4, <1>6, Zenon

\* The head, which nothing that is reached points to, is taken off.
LEMMA ReachTake ==
  ASSUME NEW h \in Node, NEW n \in [Node -> Pointer], \A o \in Reach(h, n) : n[o] # h
  PROVE  h \in Reach(h, n) /\ Reach(n[h], n) = Reach(h, n) \ {h}
<1> DEFINE R == Reach(h, n)
           Q == Reach(n[h], n)
           S == R \ {h}
           U == Q \cup {h}
<1>1. R \in SUBSET Node /\ Along(h, n, R)
  BY ReachAlong, Zenon DEF Pointer
<1>2. Q \in SUBSET Node /\ Along(n[h], n, Q)
  BY ReachAlong, Zenon
<1>3. h \in R
  BY <1>1, Zenon DEF Along
<1>4. S \in SUBSET Node /\ Along(n[h], n, S)
  BY <1>1, <1>3, Zenon DEF Along
<1>5. Q \subseteq S
  BY <1>4, ReachLeast, Zenon
<1>6. U \in SUBSET Node /\ Along(h, n, U)
  BY <1>2, Zenon DEF Along
<1>7. R \subseteq U
  BY <1>6, ReachLeast, Zenon
<1> QED BY <1>3, <1>5, <1>7, Zenon

-----------------------------------------------------------------------------
\* A thread's step.

\* The other threads' locals stay.
Others(t) == \A u \in User \ {t} : at'[u] = at[u]

\* A thread with such locals is adding, taking off or referring to their node.
Engaged(r) == r.pc \in Busy \ {"claim"}

\* The thread that steps gets its new locals, the others keep theirs.
LEMMA GoFacts ==
  ASSUME TypeOK, NEW t \in User, NEW r \in Local, Go(t, r)
  PROVE  at' \in [User -> Local] /\ at'[t] = r /\ Others(t)
  BY Zenon DEF TypeOK, Go, Others

\* A thread's locals are of their type.
LEMMA LocalType ==
  ASSUME TypeOK, NEW t \in User
  PROVE  /\ at[t] \in Local /\ Idle(at[t].ops) \in Local
         /\ Idle(at[t].ops).pc = "idle"
<1>1. at[t] \in Local
  BY Zenon DEF TypeOK
<1>2. at[t].ops \in Nat
  BY <1>1 DEF Local
<1> QED BY <1>1, <1>2 DEF Idle, Local, Pointer, Refs, Word

\* A thread keeps what it relies on while no link changes and others step.
LEMMA ThreadsKept ==
  ASSUME \A u \in User : ThreadInv(u), NEW t \in User, Others(t), freeListNext' = freeListNext
  PROVE  \A u \in User \ {t} : ThreadInv(u)'
  BY Zenon DEF ThreadInv, Others

\* A node that nothing happens to stays of its kind.
LEMMA NodeKept ==
  ASSUME NEW m \in Node, NodeInv(m),
         Holding(m)' = Holding(m), Linking(m)' = Linking(m), Linked(m)' = Linked(m),
         Taking(m)' = Taking(m), Referring(m)' = Referring(m), m \in Listed' <=> m \in Listed,
         freeListRefs'[m] = freeListRefs[m]
  PROVE  NodeInv(m)'
<1>1. Count(m)' = Count(m)
  BY Zenon DEF Count
<1> QED BY <1>1, Zenon DEF NodeInv, InHands, BeingLinked, BeingPut, TakenOff, OnList, Marked

\* The threads of a node that the step of a thread is not about.
LEMMA RolesKept ==
  ASSUME NEW t \in User, NEW m \in Node, Others(t),
         Engaged(at[t]) => at[t].m # m, Engaged(at'[t]) => at'[t].m # m
  PROVE  /\ Linking(m)' = Linking(m) /\ Linked(m)' = Linked(m)
         /\ Taking(m)' = Taking(m) /\ Referring(m)' = Referring(m)
<1>1. Linking(m)' = Linking(m)
  BY Zenon DEF Linking, Others, Engaged, Busy
<1>2. Linked(m)' = Linked(m)
  BY Zenon DEF Linked, Others, Engaged, Busy
<1>3. Taking(m)' = Taking(m)
  BY Zenon DEF Taking, Others, Engaged, Busy
<1>4. Referring(m)' = Referring(m)
  BY Zenon DEF Referring, Others, Engaged, Busy
<1> QED BY <1>1, <1>2, <1>3, <1>4, Zenon

\* Nodes that the step of a thread is not about stay of their kind.
LEMMA OthersKept ==
  ASSUME IInv, NEW t \in User, NEW m \in Node, Others(t),
         Engaged(at[t]) => at[t].m = m, Engaged(at'[t]) => at'[t].m = m,
         \A o \in Node \ {m} :
           /\ \A u \in User : o \in has'[u] <=> o \in has[u]
           /\ o \in Listed' <=> o \in Listed
           /\ freeListRefs'[o] = freeListRefs[o]
  PROVE  \A o \in Node \ {m} : NodeInv(o)'
<1> SUFFICES ASSUME NEW o \in Node \ {m} PROVE NodeInv(o)'
  OBVIOUS
<1>1. Holding(o)' = Holding(o)
  BY Zenon DEF Holding
<1>2. /\ Linking(o)' = Linking(o) /\ Linked(o)' = Linked(o)
      /\ Taking(o)' = Taking(o) /\ Referring(o)' = Referring(o)
  BY RolesKept, Zenon
<1>3. NodeInv(o)
  BY Zenon DEF IInv
<1> QED BY <1>1, <1>2, <1>3, NodeKept, Zenon

\* The roles of two places in the code.
SameRole(a, b) == /\ a \in {"top", "link"} <=> b \in {"top", "link"}
                  /\ a \in {"swap", "mark"} <=> b \in {"swap", "mark"}
                  /\ a \in {"next", "take", "drop"} <=> b \in {"next", "take", "drop"}
                  /\ a = "got" <=> b = "got"

\* A step within a role, without changing list, hands or counts, changes no
\* node's kind.
LEMMA RoleStep ==
  ASSUME IInv, NEW t \in User, Others(t), SameRole(at[t].pc, at'[t].pc),
         Engaged(at[t]) => at'[t].m = at[t].m, UNCHANGED <<has, freeListRefs>>, Listed' = Listed
  PROVE  \A m \in Node : NodeInv(m)'
<1> SUFFICES ASSUME NEW m \in Node PROVE NodeInv(m)'
  OBVIOUS
<1>1. Linking(m)' = Linking(m)
  BY Zenon DEF Linking, Others, SameRole, Engaged, Busy
<1>2. Linked(m)' = Linked(m)
  BY Zenon DEF Linked, Others, SameRole, Engaged, Busy
<1>3. Taking(m)' = Taking(m)
  BY Zenon DEF Taking, Others, SameRole, Engaged, Busy
<1>4. Referring(m)' = Referring(m)
  BY Zenon DEF Referring, Others, SameRole, Engaged, Busy
<1>5. Holding(m)' = Holding(m) /\ NodeInv(m)
  BY Zenon DEF Holding, IInv
<1> QED BY <1>1, <1>2, <1>3, <1>4, <1>5, NodeKept, Zenon

-----------------------------------------------------------------------------
\* Counts.

\* How many threads refer to a node is a number.
LEMMA CountType ==
  ASSUME NEW m
  PROVE  IsFiniteSet(Referring(m)) /\ Count(m) \in Nat /\ (Count(m) = 0 <=> Referring(m) = {})
<1>1. Referring(m) \in SUBSET User
  BY Zenon DEF Referring
<1>2. IsFiniteSet(Referring(m))
  BY <1>1, FS_Subset
<1> QED BY <1>2, FS_CardinalityType, FS_EmptySet DEF Count

\* One thread more refers to the node.
LEMMA CountUp ==
  ASSUME NEW m, NEW t, t \notin Referring(m), Referring(m)' = Referring(m) \cup {t}
  PROVE  Count(m)' = Count(m) + 1
  BY CountType, FS_AddElement, Zenon DEF Count

\* One thread fewer refers to the node.
LEMMA CountDown ==
  ASSUME NEW m, NEW t, t \in Referring(m), Referring(m)' = Referring(m) \ {t}
  PROVE  Count(m)' = Count(m) - 1 /\ Count(m) # 0 /\ (Referring(m)' = {} <=> Count(m) = 1)
<1>1. Count(m)' = Count(m) - 1 /\ Count(m) # 0
  BY CountType, FS_RemoveElement, Zenon DEF Count
<1>2. IsFiniteSet(Referring(m)')
  BY CountType, FS_RemoveElement
<1>3. Count(m)' = 0 <=> Referring(m)' = {}
  BY <1>2, FS_EmptySet DEF Count
<1> QED BY <1>1, <1>3, CountType

\* The kind of a node that a thread has a role for.
LEMMA KindOf ==
  ASSUME NEW m \in Node, NodeInv(m), NEW t \in User
  PROVE  /\ t \in Holding(m) => InHands(m) /\ Holding(m) = {t}
         /\ t \in Linking(m) => BeingLinked(m) /\ Linking(m) = {t}
         /\ t \in Linked(m) => BeingPut(m) /\ Linked(m) = {t}
         /\ t \in Taking(m) => TakenOff(m) /\ Taking(m) = {t}
         /\ m \in Listed => OnList(m)
<1>1. t \in Holding(m) => InHands(m) /\ Holding(m) = {t}
  BY Zenon DEF NodeInv, InHands, BeingLinked, BeingPut, TakenOff, OnList, Marked
<1>2. t \in Linking(m) => BeingLinked(m) /\ Linking(m) = {t}
  BY Zenon DEF NodeInv, InHands, BeingLinked, BeingPut, TakenOff, OnList, Marked
<1>3. t \in Linked(m) => BeingPut(m) /\ Linked(m) = {t}
  BY Zenon DEF NodeInv, InHands, BeingLinked, BeingPut, TakenOff, OnList, Marked
<1>4. t \in Taking(m) => TakenOff(m) /\ Taking(m) = {t}
  BY Zenon DEF NodeInv, InHands, BeingLinked, BeingPut, TakenOff, OnList, Marked
<1>5. m \in Listed => OnList(m)
  BY Zenon DEF NodeInv, InHands, BeingLinked, BeingPut, TakenOff, OnList, Marked
<1> QED BY <1>1, <1>2, <1>3, <1>4, <1>5

\* Counts and marks.
LEMMA WordType ==
  /\ \A k \in Nat, b \in BOOLEAN : Word(k, b) \in Refs
  /\ \A k, b : Word(k, b).n = k
  BY DEF Word, Refs

\* Words that are the same have the same count and the same mark.
LEMMA WordSame ==
  /\ \A j, k, b : Word(j, b) = Word(k, b) => j = k
  /\ \A j, k : Word(j, FALSE) # Word(k, TRUE)
<1>1. \A j, k, b : Word(j, b) = Word(k, b) => j = k
  BY WordType
<1>2. \A k, b : Word(k, b).should = b
  BY DEF Word
<1>3. ASSUME NEW j, NEW k, Word(j, FALSE) = Word(k, TRUE) PROVE FALSE
  <2>1. Word(j, FALSE).should = FALSE /\ Word(k, TRUE).should = TRUE
    BY <1>2, Zenon
  <2> QED BY <1>3, <2>1, Zenon
<1> QED BY <1>1, <1>3, Zenon

\* A count and mark are stored.
LEMMA RefsFacts ==
  ASSUME TypeOK, NEW m \in Node, NEW w \in Refs, freeListRefs' = [freeListRefs EXCEPT ![m] = w]
  PROVE  /\ freeListRefs' \in [Node -> Refs] /\ freeListRefs'[m] = w
         /\ \A o \in Node \ {m} : freeListRefs'[o] = freeListRefs[o]
  BY Zenon DEF TypeOK

-----------------------------------------------------------------------------
\* The steps that change only their thread's locals.

\* A step of one thread within its role.
LEMMA LocalStep ==
  ASSUME IInv, NEW t \in User, NEW r \in Local, Go(t, r), SameRole(at[t].pc, r.pc),
         Engaged(at[t]) => r.m = at[t].m,
         UNCHANGED <<freeListHead, freeListRefs, freeListNext, has>>,
         r.pc \in Busy => r.m \in Node,
         r.pc = "swap" => freeListNext[r.m] = r.top,
         r.pc = "take" => freeListNext[r.m] = r.nxt
  PROVE  IInv'
<1>1. at' \in [User -> Local] /\ at'[t] = r /\ Others(t)
  BY GoFacts, Zenon DEF IInv
<1>2. TypeOK'
  BY <1>1, Zenon DEF IInv, TypeOK
<1>3. Listed' = Listed
  BY Zenon DEF Listed, Follows
<1>4. \A u \in User : ThreadInv(u)'
  <2>1. ThreadInv(t)'
    BY <1>1, Zenon DEF ThreadInv
  <2>2. \A u \in User \ {t} : ThreadInv(u)'
    BY <1>1, ThreadsKept, Zenon DEF IInv
  <2> QED BY <2>1, <2>2
<1>5. \A m \in Node : NodeInv(m)'
  BY <1>1, <1>3, RoleStep, Zenon
<1>6. ListInv'
  BY <1>3, Zenon DEF IInv, ListInv
<1> QED BY <1>2, <1>4, <1>5, <1>6, Zenon DEF IInv

\* An add reads the head.
LEMMA AddTopInv == ASSUME IInv, NEW t \in User, AddTop(t) PROVE IInv'
<1> DEFINE r == [at[t] EXCEPT !.pc = "link", !.top = freeListHead]
<1>1. at[t] \in Local /\ freeListHead \in Pointer
  BY LocalType DEF IInv, TypeOK
<1>2. r \in Local /\ r.pc = "link" /\ r.m = at[t].m
  BY <1>1, Zenon DEF Local, Busy
<1>3. at[t].pc = "top" /\ Go(t, r) /\ UNCHANGED <<freeListHead, freeListRefs, freeListNext, has>>
  BY Zenon DEF AddTop
<1>4. at[t].m \in Node
  BY <1>3, Zenon DEF IInv, ThreadInv, Busy
<1> HIDE DEF r
<1>5. SameRole(at[t].pc, r.pc)
  BY <1>2, <1>3 DEF SameRole
<1> QED BY <1>2, <1>3, <1>4, <1>5, LocalStep, Zenon

\* A try_get begins.
LEMMA GetBeginInv == ASSUME IInv, NEW t \in User, GetBegin(t) PROVE IInv'
<1> DEFINE k == at[t].ops + 1
           r == [at[t] EXCEPT !.pc = "refs", !.op = "try_get", !.head = freeListHead, !.ops = k]
<1>1. at[t] \in Local /\ freeListHead \in Pointer /\ k \in Nat
  BY LocalType DEF IInv, TypeOK, Local
<1>2. r \in Local /\ r.pc = "refs"
  <2> HIDE DEF k
  <2> QED BY <1>1, Zenon DEF Local, Busy
<1>3. at[t].pc = "idle" /\ Go(t, r) /\ UNCHANGED <<freeListHead, freeListRefs, freeListNext, has>>
  BY Zenon DEF GetBegin
<1> HIDE DEF r
<1>4. SameRole(at[t].pc, r.pc) /\ ~Engaged(at[t]) /\ r.pc \notin Busy
  BY <1>2, <1>3 DEF SameRole, Engaged, Busy
<1>5. r.pc # "swap" /\ r.pc # "take"
  BY <1>2
<1> QED BY <1>2, <1>3, <1>4, <1>5, LocalStep, Zenon

\* A try_get finds no head, or reads the head's count.
LEMMA GetRefsInv == ASSUME IInv, NEW t \in User, GetRefs(t) PROVE IInv'
<1>1. at[t] \in Local /\ at[t].pc = "refs" /\ UNCHANGED <<freeListHead, freeListRefs, freeListNext, has>>
  BY LocalType, Zenon DEF IInv, GetRefs
<1>2. CASE at[t].head = Null
  <2> DEFINE r == Idle(at[t].ops)
  <2>1. r \in Local /\ r.pc = "idle"
    BY LocalType, Zenon DEF IInv
  <2>2. Go(t, r)
    BY <1>2, Zenon DEF GetRefs, Done
  <2> HIDE DEF r
  <2>3. SameRole(at[t].pc, r.pc) /\ ~Engaged(at[t]) /\ r.pc \notin Busy /\ r.pc # "swap" /\ r.pc # "take"
    BY <1>1, <2>1 DEF SameRole, Engaged, Busy
  <2> QED BY <1>1, <2>1, <2>2, <2>3, LocalStep, Zenon
<1>3. CASE at[t].head # Null
  <2> DEFINE m == at[t].head
             w == freeListRefs[m]
             r == [at[t] EXCEPT !.pc = "claim", !.m = m, !.refs = w]
  <2>1. m \in Node /\ m \in Pointer
    BY <1>1, <1>3 DEF Local, Pointer
  <2>2. w \in Refs
    BY <2>1, Zenon DEF IInv, TypeOK
  <2>3. Go(t, r)
    BY <1>3, Zenon DEF GetRefs
  <2> HIDE DEF m, w
  <2>4. r \in Local /\ r.pc = "claim" /\ r.m = m
    BY <1>1, <2>1, <2>2, Zenon DEF Local, Busy
  <2> HIDE DEF r
  <2>5. SameRole(at[t].pc, r.pc) /\ ~Engaged(at[t]) /\ r.pc # "swap" /\ r.pc # "take"
    BY <1>1, <2>4 DEF SameRole, Engaged, Busy
  <2> QED BY <1>1, <2>1, <2>3, <2>4, <2>5, LocalStep, Zenon
<1> QED BY <1>2, <1>3

\* A try_get has not got its reference, and loads the head again.
LEMMA GetClaimFails ==
  ASSUME IInv, NEW t \in User, at[t].pc = "claim",
         Go(t, [at[t] EXCEPT !.pc = "refs", !.m = Null, !.head = freeListHead]),
         UNCHANGED <<freeListHead, freeListRefs, freeListNext, has>>
  PROVE  IInv'
<1> DEFINE r == [at[t] EXCEPT !.pc = "refs", !.m = Null, !.head = freeListHead]
<1>1. at[t] \in Local /\ freeListHead \in Pointer
  BY LocalType DEF IInv, TypeOK
<1>2. r \in Local /\ r.pc = "refs"
  BY <1>1, Zenon DEF Local, Busy, Pointer
<1> HIDE DEF r
<1>3. Go(t, r)
  BY Zenon DEF r
<1>4. SameRole(at[t].pc, r.pc) /\ ~Engaged(at[t]) /\ r.pc \notin Busy /\ r.pc # "swap" /\ r.pc # "take"
  BY <1>2 DEF SameRole, Engaged, Busy
<1> QED BY <1>2, <1>3, <1>4, LocalStep, Zenon

\* A try_get reads the successor.
LEMMA GetNextInv == ASSUME IInv, NEW t \in User, GetNext(t) PROVE IInv'
<1> DEFINE n == freeListNext[at[t].m]
           r == [at[t] EXCEPT !.pc = "take", !.nxt = n]
<1>1. at[t] \in Local /\ at[t].pc = "next" /\ UNCHANGED <<freeListHead, freeListRefs, freeListNext, has>>
      /\ Go(t, r)
  BY LocalType, Zenon DEF IInv, GetNext
<1>2. at[t].m \in Node
  BY <1>1, Zenon DEF IInv, ThreadInv, Busy
<1>3. n \in Pointer
  BY <1>2, Zenon DEF IInv, TypeOK
<1>4. r \in Local /\ r.pc = "take" /\ r.m = at[t].m /\ r.nxt = n
  <2> HIDE DEF n
  <2> QED BY <1>1, <1>3, Zenon DEF Local, Busy
<1> HIDE DEF r
<1>5. SameRole(at[t].pc, r.pc) /\ r.pc # "swap"
  BY <1>1, <1>4 DEF SameRole
<1> QED BY <1>1, <1>2, <1>4, <1>5, LocalStep, Zenon

\* A thread sees that the head has changed, before it gives up its reference or
\* its add.
LEMMA HeadChanged ==
  ASSUME IInv, NEW t \in User, NEW r \in Local, Go(t, r), r.m = at[t].m,
         \/ at[t].pc = "swap" /\ r.pc = "mark"
         \/ at[t].pc = "take" /\ r.pc = "drop",
         UNCHANGED <<freeListHead, freeListRefs, freeListNext, has>>
  PROVE  IInv'
<1>1. at[t].m \in Node
  BY Zenon DEF IInv, ThreadInv, Busy
<1>2. SameRole(at[t].pc, r.pc) /\ r.pc # "swap" /\ r.pc # "take"
  BY DEF SameRole
<1> QED BY <1>1, <1>2, LocalStep, Zenon

-----------------------------------------------------------------------------
\* The steps that change a node's count or hands, but neither head nor links.

\* The roles of the thread that steps are those of its new place.
LEMMA Roles ==
  ASSUME NEW t \in User, NEW m \in Node, Others(t)
  PROVE  /\ Linking(m)' = (Linking(m) \ {t}) \cup
              {u \in {t} : at'[t].m = m /\ at'[t].pc \in {"top", "link"}}
         /\ Linked(m)' = (Linked(m) \ {t}) \cup
              {u \in {t} : at'[t].m = m /\ at'[t].pc \in {"swap", "mark"}}
         /\ Taking(m)' = (Taking(m) \ {t}) \cup {u \in {t} : at'[t].m = m /\ at'[t].pc = "got"}
         /\ Referring(m)' = (Referring(m) \ {t}) \cup
              {u \in {t} : at'[t].m = m /\ at'[t].pc \in {"next", "take", "drop"}}
<1>1. Linking(m)' = (Linking(m) \ {t}) \cup
        {u \in {t} : at'[t].m = m /\ at'[t].pc \in {"top", "link"}}
  BY Zenon DEF Linking, Others
<1>2. Linked(m)' = (Linked(m) \ {t}) \cup
        {u \in {t} : at'[t].m = m /\ at'[t].pc \in {"swap", "mark"}}
  BY Zenon DEF Linked, Others
<1>3. Taking(m)' = (Taking(m) \ {t}) \cup {u \in {t} : at'[t].m = m /\ at'[t].pc = "got"}
  BY Zenon DEF Taking, Others
<1>4. Referring(m)' = (Referring(m) \ {t}) \cup
        {u \in {t} : at'[t].m = m /\ at'[t].pc \in {"next", "take", "drop"}}
  BY Zenon DEF Referring, Others
<1> QED BY <1>1, <1>2, <1>3, <1>4, Zenon

\* A step of one thread that concerns one node.
LEMMA NodeStep ==
  ASSUME IInv, NEW t \in User, NEW r \in Local, Go(t, r), NEW m \in Node, NEW w \in Refs,
         freeListRefs' = [freeListRefs EXCEPT ![m] = w],
         has' \in [User -> SUBSET Node],
         \A u \in User : \A o \in Node \ {m} : o \in has'[u] <=> o \in has[u],
         UNCHANGED <<freeListHead, freeListNext>>,
         Engaged(at[t]) => at[t].m = m, r.pc \in Busy => r.m = m,
         r.pc # "swap", r.pc # "take",
         NodeInv(m)'
  PROVE  IInv'
<1>1. at' \in [User -> Local] /\ at'[t] = r /\ Others(t)
  BY GoFacts, Zenon DEF IInv
<1>2. /\ freeListRefs' \in [Node -> Refs]
      /\ \A o \in Node \ {m} : freeListRefs'[o] = freeListRefs[o]
  BY RefsFacts, Zenon DEF IInv
<1>3. TypeOK'
  BY <1>1, <1>2, Zenon DEF IInv, TypeOK
<1>4. Listed' = Listed
  BY Zenon DEF Listed, Follows
<1>5. \A u \in User : ThreadInv(u)'
  <2>1. ThreadInv(t)'
    BY <1>1, Zenon DEF ThreadInv
  <2>2. \A u \in User \ {t} : ThreadInv(u)'
    BY <1>1, ThreadsKept, Zenon DEF IInv
  <2> QED BY <2>1, <2>2
<1>6. \A o \in Node : NodeInv(o)'
  <2>1. Engaged(at'[t]) => at'[t].m = m
    BY <1>1, Zenon DEF Engaged
  <2>2. \A o \in Node \ {m} : NodeInv(o)'
    BY <1>1, <1>2, <1>4, <2>1, OthersKept, Zenon
  <2> QED BY <2>2
<1>7. ListInv'
  BY <1>4, Zenon DEF IInv, ListInv
<1> QED BY <1>3, <1>5, <1>6, <1>7, Zenon DEF IInv

\* An add marks the node; it goes on the list at once when nobody refers to it.
LEMMA AddBeginInv == ASSUME IInv, NEW t \in User, NEW m \in Node, AddBegin(t, m) PROVE IInv'
<1> DEFINE w == Word(Count(m), TRUE)
           k == at[t].ops + 1
<1>1. /\ at[t].pc = "idle" /\ m \in has[t] /\ has' = [has EXCEPT ![t] = @ \ {m}]
      /\ freeListRefs' = [freeListRefs EXCEPT ![m] = Word(@.n, TRUE)]
      /\ UNCHANGED <<freeListHead, freeListNext>>
  BY Zenon DEF AddBegin
<1>2. at[t] \in Local /\ k \in Nat
  BY LocalType DEF IInv, Local
<1>3. InHands(m) /\ Holding(m) = {t}
  BY <1>1, KindOf, Zenon DEF IInv, Holding
<1>4. w \in Refs /\ freeListRefs' = [freeListRefs EXCEPT ![m] = w]
  <2>1. freeListRefs[m] = Word(Count(m), FALSE)
    BY <1>3, Zenon DEF InHands
  <2>2. freeListRefs[m].n = Count(m)
    BY <2>1 DEF Word
  <2> QED BY <1>1, <2>2, CountType, WordType, Zenon
<1>5. has' \in [User -> SUBSET Node] /\ \A u \in User : \A o \in Node \ {m} : o \in has'[u] <=> o \in has[u]
  BY <1>1, Zenon DEF IInv, TypeOK
<1>6. Holding(m)' = {}
  BY <1>1, <1>3, Zenon DEF Holding, IInv, TypeOK
<1>7. freeListRefs'[m] = w
  BY <1>4, RefsFacts, Zenon DEF IInv
<1>8. Listed' = Listed
  BY <1>1, Zenon DEF Listed, Follows
<1>9. ~Engaged(at[t]) /\ t \notin Referring(m)
  BY <1>1 DEF Engaged, Busy, Referring
<1>10. CASE freeListRefs[m] = Word(0, FALSE)
  <2> DEFINE r == [at[t] EXCEPT !.pc = "top", !.op = "add", !.m = m, !.ops = k]
  <2>1. Go(t, r)
    BY <1>10, Zenon DEF AddBegin
  <2> HIDE DEF k
  <2>2. r \in Local /\ r.pc = "top" /\ r.m = m
    BY <1>2, Zenon DEF Local, Busy, Pointer
  <2> HIDE DEF r
  <2>3. at'[t] = r /\ Others(t)
    BY <2>1, <2>2, GoFacts, Zenon DEF IInv
  <2>4. Count(m) = 0 /\ Referring(m) = {}
    <3>1. Word(Count(m), FALSE) = Word(0, FALSE)
      BY <1>3, <1>10, Zenon DEF InHands
    <3>2. Count(m) = 0
      BY <3>1 DEF Word
    <3> QED BY <3>2, CountType
  <2>5. BeingLinked(m)'
    <3>1. Linking(m)' = {t}
      BY <1>3, <2>2, <2>3, Roles DEF InHands
    <3>2. Linked(m)' = {} /\ Taking(m)' = {} /\ Referring(m)' = {}
      BY <1>3, <2>2, <2>3, <2>4, Roles DEF InHands
    <3> QED BY <1>3, <1>6, <1>7, <1>8, <2>4, <3>1, <3>2, Zenon DEF InHands, BeingLinked
  <2>6. NodeInv(m)' /\ r.pc # "swap" /\ r.pc # "take"
    BY <2>2, <2>5 DEF NodeInv
  <2> HIDE DEF w
  <2> QED BY <1>1, <1>4, <1>5, <1>9, <2>1, <2>2, <2>6, NodeStep, Zenon
<1>11. CASE freeListRefs[m] # Word(0, FALSE)
  <2> DEFINE r == [at[t] EXCEPT !.ops = k]
  <2>1. Go(t, r)
    BY <1>11, Zenon DEF AddBegin
  <2> HIDE DEF k
  <2>2. r \in Local /\ r.pc = "idle" /\ r.m = at[t].m
    BY <1>1, <1>2 DEF Local, Busy, Pointer
  <2> HIDE DEF r
  <2>3. at'[t] = r /\ Others(t)
    BY <2>1, <2>2, GoFacts, Zenon DEF IInv
  <2>4. Referring(m) # {}
    BY <1>3, <1>11, CountType, Zenon DEF InHands
  <2>5. /\ Linking(m)' = {} /\ Linked(m)' = {} /\ Taking(m)' = {}
        /\ Referring(m)' = Referring(m)
    BY <1>3, <1>9, <2>2, <2>3, Roles DEF InHands
  <2>6. Marked(m)'
    <3>1. Count(m)' = Count(m)
      BY <2>5, Zenon DEF Count
    <3> QED BY <1>3, <1>6, <1>7, <1>8, <2>4, <2>5, <3>1, Zenon DEF InHands, Marked
  <2>7. r.pc \notin Busy
    BY <2>2 DEF Busy
  <2> QED BY <1>1, <1>4, <1>5, <1>9, <2>1, <2>2, <2>6, <2>7, NodeStep, Zenon DEF NodeInv
<1> QED BY <1>10, <1>11, Zenon

\* A try_get adds its reference to a node whose count was not zero.
LEMMA GetClaims ==
  ASSUME IInv, NEW t \in User, GetClaim(t), at[t].refs.n # 0, freeListRefs[at[t].m] = at[t].refs
  PROVE  IInv'
<1> DEFINE r == [at[t] EXCEPT !.pc = "next"]
<1>1. at[t].pc = "claim" /\ Go(t, r) /\ UNCHANGED <<freeListHead, freeListNext, has>>
  BY Zenon DEF GetClaim
<1>2. PICK m \in Node : at[t].m = m
  BY <1>1, Zenon DEF IInv, ThreadInv, Busy
<1>3. /\ freeListRefs' = [freeListRefs EXCEPT ![m] = Word(@.n + 1, @.should)]
      /\ freeListRefs[m].n # 0 /\ NodeInv(m)
  BY <1>2, Zenon DEF GetClaim, IInv
<1>4. r \in Local /\ r.pc = "next" /\ r.m = m
  BY <1>2, LocalType DEF Local, Busy, IInv
<1> HIDE DEF r
<1>5. at'[t] = r /\ Others(t)
  BY <1>1, <1>4, GoFacts, Zenon DEF IInv
<1>6. t \notin Linking(m) /\ t \notin Linked(m) /\ t \notin Taking(m) /\ t \notin Referring(m)
  BY <1>1 DEF Linking, Linked, Taking, Referring
<1>7. /\ Linking(m)' = Linking(m) /\ Linked(m)' = Linked(m) /\ Taking(m)' = Taking(m)
      /\ Referring(m)' = Referring(m) \cup {t}
  <2>1. at'[t].pc = "next" /\ at'[t].m = m
    BY <1>4, <1>5, Zenon
  <2>2. Linking(m)' = Linking(m)
    BY <1>5, <1>6, <2>1, Roles
  <2>3. Linked(m)' = Linked(m)
    BY <1>5, <1>6, <2>1, Roles
  <2>4. Taking(m)' = Taking(m)
    BY <1>5, <1>6, <2>1, Roles
  <2>5. Referring(m)' = Referring(m) \cup {t}
    BY <1>5, <1>6, <2>1, Roles
  <2> QED BY <2>2, <2>3, <2>4, <2>5
<1>8. Count(m)' = Count(m) + 1 /\ Count(m) \in Nat
  BY <1>6, <1>7, CountUp, CountType, Zenon
<1>9. Holding(m)' = Holding(m) /\ Listed' = Listed
  BY <1>1, Zenon DEF Holding, Listed, Follows
<1>10. has' \in [User -> SUBSET Node] /\ \A u \in User : \A o \in Node \ {m} : o \in has'[u] <=> o \in has[u]
  BY <1>1, Zenon DEF IInv, TypeOK
<1>11. Engaged(at[t]) => at[t].m = m
  BY <1>2, Zenon
<1>12. ASSUME NEW e \in Nat, NEW b \in BOOLEAN, freeListRefs[m] = Word(e + Count(m), b),
              freeListRefs'[m] = Word(e + Count(m)', b) => NodeInv(m)'
       PROVE  IInv'
  <2>0. PICK k \in Nat : k = e + Count(m)
    BY <1>8
  <2>1. PICK j \in Nat : j = k + 1 /\ j = e + Count(m)'
    BY <1>8, <2>0
  <2>2. freeListRefs[m] = Word(k, b)
    BY <1>12, <2>0, Zenon
  <2>3. freeListRefs' = [freeListRefs EXCEPT ![m] = Word(j, b)]
    <3>1. Word(Word(k, b).n + 1, Word(k, b).should) = Word(j, b)
      BY <2>1 DEF Word
    <3> QED BY <1>3, <2>2, <3>1, Zenon
  <2>4. Word(j, b) \in Refs
    BY <2>1, WordType, Zenon
  <2>5. freeListRefs'[m] = Word(j, b)
    BY <2>3, <2>4, RefsFacts, Zenon DEF IInv
  <2>6. NodeInv(m)'
    BY <1>12, <2>1, <2>5, Zenon
  <2>7. r.pc # "swap" /\ r.pc # "take"
    BY <1>4
  <2> QED BY <1>1, <1>4, <1>10, <1>11, <2>3, <2>4, <2>6, <2>7, NodeStep, Zenon
<1>13. 0 + Count(m) = Count(m) /\ 0 + Count(m)' = Count(m)'
  BY <1>8
<1>14. CASE InHands(m)
  <2>1. freeListRefs'[m] = Word(Count(m)', FALSE) => InHands(m)'
    BY <1>7, <1>9, <1>14, Zenon DEF InHands
  <2>2. freeListRefs[m] = Word(0 + Count(m), FALSE)
    BY <1>13, <1>14, Zenon DEF InHands
  <2> QED BY <1>12, <1>13, <2>1, <2>2, Zenon DEF NodeInv
<1>15. CASE BeingLinked(m)
  <2>1. freeListRefs[m].n = 0
    BY <1>15, WordType, Zenon DEF BeingLinked
  <2> QED BY <1>3, <2>1, Zenon
<1>16. CASE BeingPut(m)
  <2>1. freeListRefs'[m] = Word(1 + Count(m)', FALSE) => BeingPut(m)'
    BY <1>7, <1>9, <1>16, Zenon DEF BeingPut
  <2> QED BY <1>12, <1>16, <2>1, Zenon DEF NodeInv, BeingPut
<1>17. CASE TakenOff(m)
  <2>1. freeListRefs'[m] = Word(2 + Count(m)', FALSE) => TakenOff(m)'
    BY <1>7, <1>9, <1>17, Zenon DEF TakenOff
  <2> QED BY <1>12, <1>17, <2>1, Zenon DEF NodeInv, TakenOff
<1>18. CASE OnList(m)
  <2>1. freeListRefs'[m] = Word(1 + Count(m)', FALSE) => OnList(m)'
    BY <1>7, <1>9, <1>18, Zenon DEF OnList
  <2> QED BY <1>12, <1>18, <2>1, Zenon DEF NodeInv, OnList
<1>19. CASE Marked(m)
  <2>1. freeListRefs'[m] = Word(Count(m)', TRUE) => Marked(m)'
    BY <1>7, <1>9, <1>19, Zenon DEF Marked
  <2>2. freeListRefs[m] = Word(0 + Count(m), TRUE)
    BY <1>13, <1>19, Zenon DEF Marked
  <2> QED BY <1>12, <1>13, <2>1, <2>2, Zenon DEF NodeInv
<1> QED BY <1>3, <1>14, <1>15, <1>16, <1>17, <1>18, <1>19, Zenon DEF NodeInv

\* A try_get's attempt to refer to the head keeps the invariant.
LEMMA GetClaimInv ==
  ASSUME IInv, NEW t \in User, GetClaim(t) PROVE IInv'
<1>1. CASE at[t].refs.n # 0 /\ freeListRefs[at[t].m] = at[t].refs
  BY <1>1, GetClaims, Zenon
<1>2. CASE ~(at[t].refs.n # 0 /\ freeListRefs[at[t].m] = at[t].refs)
  <2>1. /\ at[t].pc = "claim"
        /\ Go(t, [at[t] EXCEPT !.pc = "refs", !.m = Null, !.head = freeListHead])
        /\ UNCHANGED <<freeListHead, freeListRefs, freeListNext, has>>
    BY <1>2, Zenon DEF GetClaim
  <2> QED BY <2>1, GetClaimFails, Zenon
<1> QED BY <1>1, <1>2

\* A thread that is done with its node has no role for it any more.
LEMMA RolesLeft ==
  ASSUME NEW t \in User, NEW m \in Node, Others(t), at'[t].pc \notin Busy
  PROVE  /\ Linking(m)' = Linking(m) \ {t} /\ Linked(m)' = Linked(m) \ {t}
         /\ Taking(m)' = Taking(m) \ {t} /\ Referring(m)' = Referring(m) \ {t}
<1>1. Linking(m)' = Linking(m) \ {t}
  BY Zenon DEF Linking, Others, Busy
<1>2. Linked(m)' = Linked(m) \ {t}
  BY Zenon DEF Linked, Others, Busy
<1>3. Taking(m)' = Taking(m) \ {t}
  BY Zenon DEF Taking, Others, Busy
<1>4. Referring(m)' = Referring(m) \ {t}
  BY Zenon DEF Referring, Others, Busy
<1> QED BY <1>1, <1>2, <1>3, <1>4, Zenon

\* Where add_knowing_refcount_is_zero returns to.
LEMMA AddedFacts ==
  ASSUME TypeOK, NEW t \in User, Added(t)
  PROVE  \E r \in Local : Go(t, r) /\ r.pc \notin Busy
<1>1. at[t] \in Local /\ Idle(at[t].ops) \in Local /\ Idle(at[t].ops).pc = "idle"
  BY LocalType, Zenon
<1> DEFINE r == [at[t] EXCEPT !.pc = "refs", !.m = Null, !.top = Null]
<1>2. r \in Local /\ r.pc = "refs"
  BY <1>1, Zenon DEF Local, Pointer, Busy
<1> HIDE DEF r
<1>3. "idle" \notin Busy /\ "refs" \notin Busy
  BY DEF Busy
<1>4. Go(t, r) \/ Go(t, Idle(at[t].ops))
  BY Zenon DEF Added, Done, r
<1> QED BY <1>1, <1>2, <1>3, <1>4, Zenon

\* The add whose swap failed gives up its reference: it tries again, or leaves the
\* node marked to the threads that refer to it.
LEMMA AddMarkInv ==
  ASSUME IInv, NEW t \in User, AddMark(t) PROVE IInv'
<1>1. at[t].pc = "mark" /\ UNCHANGED <<freeListHead, freeListNext, has>>
  BY Zenon DEF AddMark
<1>2. PICK m \in Node : at[t].m = m
  BY <1>1, Zenon DEF IInv, ThreadInv, Busy
<1>3. freeListRefs' = [freeListRefs EXCEPT ![m] = Word(@.n - 1, TRUE)]
  BY <1>2, Zenon DEF AddMark
<1>4. t \in Linked(m)
  BY <1>1, <1>2, Zenon DEF Linked
<1>5. BeingPut(m) /\ Linked(m) = {t}
  BY <1>4, KindOf, Zenon DEF IInv
<1>6. PICK c \in Nat : c = Count(m)
  BY CountType, Zenon
<1>7. freeListRefs[m] = Word(1 + c, FALSE)
  BY <1>5, <1>6, Zenon DEF BeingPut
<1>8. freeListRefs' = [freeListRefs EXCEPT ![m] = Word(c, TRUE)] /\ Word(c, TRUE) \in Refs
  <2>1. Word(Word(1 + c, FALSE).n - 1, TRUE) = Word(c, TRUE)
    <3>1. (1 + c) - 1 = c
      OBVIOUS
    <3> QED BY <3>1, WordType, Zenon
  <2> QED BY <1>3, <1>7, <2>1, WordType, Zenon
<1>9. freeListRefs'[m] = Word(c, TRUE)
  BY <1>8, RefsFacts, Zenon DEF IInv
<1>10. Holding(m)' = {} /\ m \notin Listed'
  BY <1>1, <1>5, Zenon DEF Holding, Listed, Follows, BeingPut
<1>11. has' \in [User -> SUBSET Node] /\ \A u \in User : \A o \in Node \ {m} : o \in has'[u] <=> o \in has[u]
  BY <1>1, Zenon DEF IInv, TypeOK
<1>12. CASE freeListRefs[m] = Word(1, FALSE)
  <2> DEFINE r == [at[t] EXCEPT !.pc = "link"]
  <2>1. Go(t, r)
    BY <1>2, <1>12, Zenon DEF AddMark
  <2>2. r \in Local /\ r.pc = "link" /\ r.m = m
    BY <1>2, LocalType DEF Local, Busy, IInv
  <2> HIDE DEF r
  <2>3. at'[t] = r /\ Others(t)
    BY <2>1, <2>2, GoFacts, Zenon DEF IInv
  <2>4. c = 0 /\ Referring(m) = {}
    <3>1. 1 + c = 1
      BY <1>7, <1>12, WordSame, Zenon
    <3> QED BY <1>6, <3>1, CountType
  <2>5. at'[t].pc = "link" /\ at'[t].m = m
    BY <2>2, <2>3, Zenon
  <2>6. Linking(m)' = {t}
    BY <1>5, <2>3, <2>5, Roles DEF BeingPut
  <2>7. Linked(m)' = {}
    BY <1>5, <2>3, <2>5, Roles DEF BeingPut
  <2>8. Taking(m)' = {}
    BY <1>5, <2>3, <2>5, Roles DEF BeingPut
  <2>9. Referring(m)' = {}
    BY <2>3, <2>4, <2>5, Roles
  <2>10. BeingLinked(m)'
    BY <1>9, <1>10, <2>4, <2>6, <2>7, <2>8, <2>9, Zenon DEF BeingLinked
  <2>11. r.pc # "swap" /\ r.pc # "take"
    BY <2>2
  <2> QED BY <1>2, <1>8, <1>11, <1>1, <2>1, <2>2, <2>10, <2>11, NodeStep, Zenon DEF NodeInv
<1>13. CASE freeListRefs[m] # Word(1, FALSE)
  <2>1. Added(t)
    BY <1>2, <1>13, Zenon DEF AddMark
  <2>2. PICK r \in Local : Go(t, r) /\ r.pc \notin Busy
    BY <2>1, AddedFacts, Zenon DEF IInv
  <2>3. at'[t] = r /\ Others(t)
    BY <2>2, GoFacts, Zenon DEF IInv
  <2>4. Referring(m) # {}
    <3>1. 1 + c # 1
      BY <1>7, <1>13, Zenon
    <3> QED BY <1>6, <3>1, CountType
  <2>5. t \notin Referring(m)
    BY <1>1 DEF Referring
  <2>6. /\ Linking(m)' = {} /\ Linked(m)' = {} /\ Taking(m)' = {}
        /\ Referring(m)' = Referring(m)
    <3>1. /\ Linking(m)' = Linking(m) \ {t} /\ Linked(m)' = Linked(m) \ {t}
          /\ Taking(m)' = Taking(m) \ {t} /\ Referring(m)' = Referring(m) \ {t}
      BY <2>2, <2>3, RolesLeft, Zenon
    <3> QED BY <1>5, <2>5, <3>1, Zenon DEF BeingPut
  <2>7. Count(m)' = c
    BY <1>6, <2>6, Zenon DEF Count
  <2>8. Marked(m)'
    BY <1>9, <1>10, <2>4, <2>6, <2>7, Zenon DEF Marked
  <2>9. r.pc # "swap" /\ r.pc # "take"
    BY <2>2 DEF Busy
  <2> QED BY <1>2, <1>8, <1>11, <1>1, <2>2, <2>8, <2>9, NodeStep, Zenon DEF NodeInv
<1> QED BY <1>12, <1>13, Zenon

\* A try_get that took its node off the list gives up two references and has
\* the node in hands.
LEMMA GetGotInv ==
  ASSUME IInv, NEW t \in User, GetGot(t) PROVE IInv'
<1> DEFINE r == Idle(at[t].ops)
<1>1. at[t].pc = "got" /\ Go(t, r) /\ UNCHANGED <<freeListHead, freeListNext>>
  BY Zenon DEF GetGot, Done
<1>2. PICK m \in Node : at[t].m = m
  BY <1>1, Zenon DEF IInv, ThreadInv, Busy
<1>3. /\ freeListRefs' = [freeListRefs EXCEPT ![m] = Word(@.n - 2, @.should)]
      /\ has' = [has EXCEPT ![t] = @ \cup {m}]
  BY <1>2, Zenon DEF GetGot
<1>4. r \in Local /\ r.pc = "idle"
  BY LocalType, Zenon DEF IInv
<1> HIDE DEF r
<1>5. at'[t] = r /\ Others(t) /\ r.pc \notin Busy
  <2>1. "idle" \notin Busy
    BY DEF Busy
  <2> QED BY <1>1, <1>4, <2>1, GoFacts, Zenon DEF IInv
<1>6. t \in Taking(m)
  BY <1>1, <1>2, Zenon DEF Taking
<1>7. TakenOff(m) /\ Taking(m) = {t}
  BY <1>6, KindOf, Zenon DEF IInv
<1>8. PICK c \in Nat : c = Count(m)
  BY CountType, Zenon
<1>9. freeListRefs[m] = Word(2 + c, FALSE)
  BY <1>7, <1>8, Zenon DEF TakenOff
<1>10. freeListRefs' = [freeListRefs EXCEPT ![m] = Word(c, FALSE)] /\ Word(c, FALSE) \in Refs
  <2>1. Word(Word(2 + c, FALSE).n - 2, Word(2 + c, FALSE).should) = Word(c, FALSE)
    <3>1. (2 + c) - 2 = c
      OBVIOUS
    <3>2. Word(Word(2 + c, FALSE).n - 2, Word(2 + c, FALSE).should) = Word((2 + c) - 2, FALSE)
      BY Zenon DEF Word
    <3> QED BY <3>1, <3>2, Zenon
  <2> QED BY <1>3, <1>9, <2>1, WordType, Zenon
<1>11. freeListRefs'[m] = Word(c, FALSE)
  BY <1>10, RefsFacts, Zenon DEF IInv
<1>12. /\ has' \in [User -> SUBSET Node]
       /\ \A u \in User : \A o \in Node \ {m} : o \in has'[u] <=> o \in has[u]
       /\ \A u \in User : m \in has'[u] <=> m \in has[u] \/ u = t
  BY <1>3, Zenon DEF IInv, TypeOK
<1>13. Holding(m)' = {t}
  <2>1. \A u \in User : m \notin has[u]
    BY <1>7, Zenon DEF TakenOff, Holding
  <2> QED BY <1>12, <2>1, Zenon DEF Holding
<1>14. m \notin Listed'
  BY <1>1, <1>7, Zenon DEF Listed, Follows, TakenOff
<1>15. t \notin Referring(m)
  BY <1>1 DEF Referring
<1>16. /\ Linking(m)' = {} /\ Linked(m)' = {} /\ Taking(m)' = {}
       /\ Referring(m)' = Referring(m)
  <2>1. /\ Linking(m)' = Linking(m) \ {t} /\ Linked(m)' = Linked(m) \ {t}
        /\ Taking(m)' = Taking(m) \ {t} /\ Referring(m)' = Referring(m) \ {t}
    BY <1>5, RolesLeft, Zenon
  <2> QED BY <1>7, <1>15, <2>1, Zenon DEF TakenOff
<1>17. Count(m)' = c
  BY <1>8, <1>16, Zenon DEF Count
<1>18. InHands(m)'
  BY <1>11, <1>13, <1>14, <1>16, <1>17, Zenon DEF InHands
<1>19. r.pc # "swap" /\ r.pc # "take"
  BY <1>4
<1> QED BY <1>1, <1>2, <1>4, <1>5, <1>10, <1>12, <1>18, <1>19, NodeStep, Zenon DEF NodeInv

\* A thread that leaves the count of one among several, or of an unmarked node,
\* leaves the node of its kind.
LEMMA GetDrops ==
  ASSUME IInv, NEW t \in User, GetDrop(t), freeListRefs[at[t].m] # Word(1, TRUE)
  PROVE  IInv'
<1> DEFINE r == [at[t] EXCEPT !.pc = "refs", !.m = Null]
<1>1. at[t].pc = "drop" /\ Go(t, r) /\ UNCHANGED <<freeListHead, freeListNext, has>>
  BY Zenon DEF GetDrop
<1>2. PICK m \in Node : at[t].m = m
  BY <1>1, Zenon DEF IInv, ThreadInv, Busy
<1>3. /\ freeListRefs' = [freeListRefs EXCEPT ![m] = Word(@.n - 1, @.should)]
      /\ freeListRefs[m] # Word(1, TRUE) /\ NodeInv(m)
  BY <1>2, Zenon DEF GetDrop, IInv
<1>4. r \in Local /\ r.pc = "refs"
  BY LocalType, Zenon DEF Local, Busy, IInv, Pointer
<1> HIDE DEF r
<1>5. at'[t] = r /\ Others(t) /\ r.pc \notin Busy
  <2>1. "refs" \notin Busy
    BY DEF Busy
  <2> QED BY <1>1, <1>4, <2>1, GoFacts, Zenon DEF IInv
<1>6. /\ t \notin Linking(m) /\ t \notin Linked(m) /\ t \notin Taking(m)
      /\ t \in Referring(m)
  BY <1>1, <1>2 DEF Linking, Linked, Taking, Referring
<1>7. /\ Linking(m)' = Linking(m) /\ Linked(m)' = Linked(m) /\ Taking(m)' = Taking(m)
      /\ Referring(m)' = Referring(m) \ {t}
  <2>1. /\ Linking(m)' = Linking(m) \ {t} /\ Linked(m)' = Linked(m) \ {t}
        /\ Taking(m)' = Taking(m) \ {t} /\ Referring(m)' = Referring(m) \ {t}
    BY <1>5, RolesLeft, Zenon
  <2> QED BY <1>6, <2>1, Zenon
<1>8. PICK c \in Nat : Count(m)' = c /\ Count(m) = c + 1 /\ (Referring(m)' = {} <=> c = 0)
  <2>1. /\ Count(m)' = Count(m) - 1 /\ Count(m) # 0 /\ Count(m) \in Nat
        /\ (Referring(m)' = {} <=> Count(m) = 1)
    BY <1>6, <1>7, CountDown, CountType, Zenon
  <2> QED BY <2>1
<1>9. Holding(m)' = Holding(m) /\ Listed' = Listed
  BY <1>1, Zenon DEF Holding, Listed, Follows
<1>10. has' \in [User -> SUBSET Node] /\ \A u \in User : \A o \in Node \ {m} : o \in has'[u] <=> o \in has[u]
  BY <1>1, Zenon DEF IInv, TypeOK
<1>11. Engaged(at[t]) => at[t].m = m
  BY <1>2, Zenon
<1>12. ASSUME NEW e \in Nat, NEW b \in BOOLEAN, freeListRefs[m] = Word(e + Count(m), b),
              freeListRefs'[m] = Word(e + c, b) => NodeInv(m)'
       PROVE  IInv'
  <2>1. PICK j \in Nat : j = e + c /\ (e + (c + 1)) - 1 = j
    OBVIOUS
  <2>2. freeListRefs[m] = Word(e + (c + 1), b)
    BY <1>8, <1>12, Zenon
  <2>3. freeListRefs' = [freeListRefs EXCEPT ![m] = Word(j, b)]
    <3>1. Word(Word(e + (c + 1), b).n - 1, Word(e + (c + 1), b).should) = Word((e + (c + 1)) - 1, b)
      BY Zenon DEF Word
    <3> QED BY <1>3, <2>1, <2>2, <3>1, Zenon
  <2>4. Word(j, b) \in Refs
    BY <2>1, WordType, Zenon
  <2>5. freeListRefs'[m] = Word(j, b)
    BY <2>3, <2>4, RefsFacts, Zenon DEF IInv
  <2>6. NodeInv(m)'
    BY <1>12, <2>1, <2>5, Zenon
  <2>7. r.pc # "swap" /\ r.pc # "take"
    BY <1>4
  <2> QED BY <1>1, <1>4, <1>5, <1>10, <1>11, <2>3, <2>4, <2>6, <2>7, NodeStep, Zenon
<1>13. 0 + Count(m) = Count(m) /\ 0 + c = c
  BY <1>8
<1>14. CASE InHands(m)
  <2>1. freeListRefs'[m] = Word(c, FALSE) => InHands(m)'
    BY <1>7, <1>8, <1>9, <1>14, Zenon DEF InHands
  <2>2. freeListRefs[m] = Word(0 + Count(m), FALSE)
    BY <1>13, <1>14, Zenon DEF InHands
  <2> QED BY <1>12, <1>13, <2>1, <2>2, Zenon DEF NodeInv
<1>15. CASE BeingLinked(m)
  BY <1>6, <1>15, Zenon DEF BeingLinked
<1>16. CASE BeingPut(m)
  <2>1. freeListRefs'[m] = Word(1 + c, FALSE) => BeingPut(m)'
    BY <1>7, <1>8, <1>9, <1>16, Zenon DEF BeingPut
  <2> QED BY <1>12, <1>16, <2>1, Zenon DEF NodeInv, BeingPut
<1>17. CASE TakenOff(m)
  <2>1. freeListRefs'[m] = Word(2 + c, FALSE) => TakenOff(m)'
    BY <1>7, <1>8, <1>9, <1>17, Zenon DEF TakenOff
  <2> QED BY <1>12, <1>17, <2>1, Zenon DEF NodeInv, TakenOff
<1>18. CASE OnList(m)
  <2>1. freeListRefs'[m] = Word(1 + c, FALSE) => OnList(m)'
    BY <1>7, <1>8, <1>9, <1>18, Zenon DEF OnList
  <2> QED BY <1>12, <1>18, <2>1, Zenon DEF NodeInv, OnList
<1>19. CASE Marked(m)
  <2>1. freeListRefs[m] = Word(0 + Count(m), TRUE)
    BY <1>13, <1>19, Zenon DEF Marked
  <2>2. c + 1 # 1
    BY <1>3, <1>8, <1>19, Zenon DEF Marked
  <2>3. c # 0
    BY <2>2
  <2>4. freeListRefs'[m] = Word(c, TRUE) => Marked(m)'
    BY <1>7, <1>8, <1>9, <1>19, <2>3, Zenon DEF Marked
  <2> QED BY <1>12, <1>13, <2>1, <2>4, Zenon DEF NodeInv
<1> QED BY <1>3, <1>14, <1>15, <1>16, <1>17, <1>18, <1>19, Zenon DEF NodeInv

\* The last thread to refer to a marked node adds it.
LEMMA GetDropsLast ==
  ASSUME IInv, NEW t \in User, GetDrop(t), freeListRefs[at[t].m] = Word(1, TRUE)
  PROVE  IInv'
<1> DEFINE r == [at[t] EXCEPT !.pc = "top"]
<1>1. at[t].pc = "drop" /\ Go(t, r) /\ UNCHANGED <<freeListHead, freeListNext, has>>
  BY Zenon DEF GetDrop
<1>2. PICK m \in Node : at[t].m = m
  BY <1>1, Zenon DEF IInv, ThreadInv, Busy
<1>3. /\ freeListRefs' = [freeListRefs EXCEPT ![m] = Word(@.n - 1, @.should)]
      /\ freeListRefs[m] = Word(1, TRUE) /\ NodeInv(m)
  BY <1>2, Zenon DEF GetDrop, IInv
<1>4. r \in Local /\ r.pc = "top" /\ r.m = m
  BY <1>2, LocalType DEF Local, Busy, IInv
<1> HIDE DEF r
<1>5. at'[t] = r /\ Others(t) /\ at'[t].pc = "top" /\ at'[t].m = m
  BY <1>1, <1>4, GoFacts, Zenon DEF IInv
<1>6. t \in Referring(m)
  BY <1>1, <1>2 DEF Referring
<1>7. Marked(m) /\ Count(m) = 1
  <2>1. \A k : Word(k, FALSE) # Word(1, TRUE)
    BY WordSame, Zenon
  <2>2. Marked(m)
    BY <1>3, <1>6, <2>1, Zenon DEF NodeInv, InHands, BeingLinked, BeingPut, TakenOff, OnList
  <2> QED BY <1>3, <2>2, WordSame, Zenon DEF Marked
<1>8. Linking(m)' = {t}
  BY <1>5, <1>7, Roles DEF Marked
<1>9. Linked(m)' = {}
  BY <1>5, <1>7, Roles DEF Marked
<1>10. Taking(m)' = {}
  BY <1>5, <1>7, Roles DEF Marked
<1>11. Referring(m)' = {}
  <2>1. Referring(m)' = Referring(m) \ {t}
    BY <1>5, Roles
  <2> QED BY <1>6, <1>7, <2>1, CountDown, Zenon
<1>12. Holding(m)' = {} /\ m \notin Listed'
  BY <1>1, <1>7, Zenon DEF Holding, Listed, Follows, Marked
<1>13. has' \in [User -> SUBSET Node] /\ \A u \in User : \A o \in Node \ {m} : o \in has'[u] <=> o \in has[u]
  BY <1>1, Zenon DEF IInv, TypeOK
<1>14. freeListRefs' = [freeListRefs EXCEPT ![m] = Word(0, TRUE)] /\ Word(0, TRUE) \in Refs
  <2>1. Word(Word(1, TRUE).n - 1, Word(1, TRUE).should) = Word(1 - 1, TRUE)
    BY Zenon DEF Word
  <2>2. 1 - 1 = 0 /\ 0 \in Nat
    OBVIOUS
  <2> QED BY <1>3, <2>1, <2>2, WordType, Zenon
<1>15. freeListRefs'[m] = Word(0, TRUE)
  BY <1>14, RefsFacts, Zenon DEF IInv
<1>16. BeingLinked(m)'
  BY <1>8, <1>9, <1>10, <1>11, <1>12, <1>15, Zenon DEF BeingLinked
<1>17. r.pc # "swap" /\ r.pc # "take"
  BY <1>4
<1> QED BY <1>1, <1>2, <1>4, <1>13, <1>14, <1>16, <1>17, NodeStep, Zenon DEF NodeInv

\* The drop of a reference keeps the invariant.
LEMMA GetDropInv ==
  ASSUME IInv, NEW t \in User, GetDrop(t) PROVE IInv'
  BY GetDrops, GetDropsLast, Zenon

-----------------------------------------------------------------------------
\* The steps that change the head or a link.

\* The head is null or listed, and so is what a listed node points to.
LEMMA ListedAlong ==
  ASSUME TypeOK
  PROVE  /\ Listed \in SUBSET Node /\ freeListHead \in Listed \cup {Null}
         /\ \A m \in Listed : freeListNext[m] \in Listed \cup {Null}
<1>1. freeListHead \in Pointer /\ freeListNext \in [Node -> Pointer]
  BY Zenon DEF TypeOK
<1> QED BY <1>1, ListedReach, ReachAlong, Zenon DEF Along

\* A thread links the node that only it can reach, and sets its count to one.
LEMMA AddLinkInv ==
  ASSUME IInv, NEW t \in User, AddLink(t) PROVE IInv'
<1> DEFINE r == [at[t] EXCEPT !.pc = "swap"]
<1>1. at[t].pc = "link" /\ Go(t, r) /\ UNCHANGED <<freeListHead, has>>
  BY Zenon DEF AddLink
<1>2. PICK m \in Node : at[t].m = m
  BY <1>1, Zenon DEF IInv, ThreadInv, Busy
<1>3. /\ freeListRefs' = [freeListRefs EXCEPT ![m] = Word(1, FALSE)]
      /\ freeListNext' = [freeListNext EXCEPT ![m] = at[t].top]
  BY <1>2, Zenon DEF AddLink
<1>4. r \in Local /\ r.pc = "swap" /\ r.m = m /\ r.top = at[t].top /\ at[t].top \in Pointer
  BY <1>2, LocalType DEF Local, Busy, IInv
<1> HIDE DEF r
<1>5. /\ at' \in [User -> Local] /\ at'[t] = r /\ Others(t)
      /\ at'[t].pc = "swap" /\ at'[t].m = m
  BY <1>1, <1>4, GoFacts, Zenon DEF IInv
<1>6. t \in Linking(m)
  BY <1>1, <1>2 DEF Linking
<1>7. BeingLinked(m) /\ Linking(m) = {t}
  BY <1>6, KindOf, Zenon DEF IInv
<1>8. /\ freeListRefs' \in [Node -> Refs] /\ freeListRefs'[m] = Word(1, FALSE)
      /\ \A o \in Node \ {m} : freeListRefs'[o] = freeListRefs[o]
  <2>1. Word(1, FALSE) \in Refs
    BY WordType, Zenon
  <2> QED BY <1>3, <2>1, RefsFacts, Zenon DEF IInv
<1>9. /\ freeListNext' \in [Node -> Pointer] /\ freeListNext'[m] = at[t].top
      /\ \A o \in Node : o # m => freeListNext'[o] = freeListNext[o]
  BY <1>3, <1>4, Zenon DEF IInv, TypeOK
<1>10. TypeOK'
  BY <1>1, <1>5, <1>8, <1>9, Zenon DEF IInv, TypeOK
<1>11. Listed' = Listed
  <2>1. freeListHead \in Pointer /\ freeListNext \in [Node -> Pointer] /\ m \notin Reach(freeListHead, freeListNext)
    BY <1>7, ListedReach, Zenon DEF IInv, TypeOK, BeingLinked
  <2>2. Reach(freeListHead, freeListNext') = Reach(freeListHead, freeListNext)
    BY <1>9, <2>1, ReachLink, Zenon
  <2>3. Listed' = Reach(freeListHead', freeListNext')
    BY Zenon DEF Listed, Follows, Reach, Along
  <2> QED BY <1>1, <2>2, <2>3, ListedReach, Zenon
<1>12. \A u \in User : ThreadInv(u)'
  <2>1. ThreadInv(t)'
    <3>1. r.pc # "take"
      BY <1>4
    <3> QED BY <1>4, <1>5, <1>9, <3>1, Zenon DEF ThreadInv
  <2>2. ASSUME NEW u \in User \ {t} PROVE ThreadInv(u)'
    <3>1. at'[u] = at[u] /\ ThreadInv(u)
      BY <1>5, Zenon DEF Others, IInv
    <3>2. at[u].pc \in {"swap", "take"} => at[u].m # m
      BY <1>7, Zenon DEF BeingLinked, Linked, Referring
    <3>3. at[u].pc \in {"swap", "take"} => at[u].m \in Node
      BY <3>1, Zenon DEF ThreadInv, Busy
    <3>4. at[u].pc \in {"swap", "take"} => freeListNext'[at[u].m] = freeListNext[at[u].m]
      BY <1>9, <3>2, <3>3, Zenon
    <3> QED BY <3>1, <3>4, Zenon DEF ThreadInv
  <2> QED BY <2>1, <2>2
<1>13. BeingPut(m)'
  <2>1. Linking(m)' = {}
    BY <1>5, <1>7, Roles DEF BeingLinked
  <2>2. Linked(m)' = {t}
    BY <1>5, <1>7, Roles DEF BeingLinked
  <2>3. Taking(m)' = {}
    BY <1>5, <1>7, Roles DEF BeingLinked
  <2>4. Referring(m)' = {}
    BY <1>5, <1>7, Roles DEF BeingLinked
  <2>5. Holding(m)' = {}
    BY <1>1, <1>7, Zenon DEF Holding, BeingLinked
  <2>6. 1 + Count(m)' = 1
    BY <2>4, FS_EmptySet DEF Count
  <2> QED BY <1>7, <1>8, <1>11, <2>1, <2>2, <2>3, <2>5, <2>6, Zenon DEF BeingPut, BeingLinked
<1>14. \A o \in Node : NodeInv(o)'
  <2>1. \A o \in Node \ {m} : NodeInv(o)'
    BY <1>1, <1>2, <1>5, <1>8, <1>11, OthersKept, Zenon
  <2> QED BY <1>13, <2>1, Zenon DEF NodeInv
<1>15. ListInv'
  <2>1. \A o \in Listed : freeListNext'[o] = freeListNext[o]
    BY <1>7, <1>9, ListedAlong, Zenon DEF BeingLinked, IInv
  <2>2. \A o \in Listed : freeListNext[o] # Null =>
          /\ freeListNext[o] # freeListHead
          /\ \A q \in Listed : freeListNext[q] = freeListNext[o] => q = o
    BY Zenon DEF IInv, ListInv
  <2>3. \A o \in Listed : freeListNext'[o] # Null =>
          /\ freeListNext'[o] # freeListHead
          /\ \A q \in Listed : freeListNext'[q] = freeListNext'[o] => q = o
    BY <2>1, <2>2, Zenon
  <2> QED BY <1>1, <1>11, <2>3, Zenon DEF ListInv
<1> QED BY <1>10, <1>12, <1>14, <1>15, Zenon DEF IInv

\* The swap of an add puts the node before the head.
LEMMA AddSwaps ==
  ASSUME IInv, NEW t \in User, AddSwap(t), freeListHead = at[t].top
  PROVE  IInv'
<1>1. /\ at[t].pc = "swap" /\ freeListHead' = at[t].m /\ Added(t)
      /\ UNCHANGED <<freeListRefs, freeListNext, has>>
  BY Zenon DEF AddSwap
<1>2. PICK m \in Node : at[t].m = m
  BY <1>1, Zenon DEF IInv, ThreadInv, Busy
<1>3. PICK r \in Local : Go(t, r) /\ r.pc \notin Busy
  BY <1>1, AddedFacts, Zenon DEF IInv
<1>4. at' \in [User -> Local] /\ at'[t] = r /\ Others(t) /\ at'[t].pc \notin Busy
  BY <1>3, GoFacts, Zenon DEF IInv
<1>5. freeListNext[m] = freeListHead
  BY <1>1, <1>2, Zenon DEF IInv, ThreadInv
<1>6. t \in Linked(m) /\ t \notin Referring(m)
  BY <1>1, <1>2 DEF Linked, Referring
<1>7. BeingPut(m) /\ Linked(m) = {t}
  BY <1>6, KindOf, Zenon DEF IInv
<1>8. TypeOK'
  BY <1>1, <1>2, <1>4, Zenon DEF IInv, TypeOK, Pointer
<1>9. Listed' = Listed \cup {m}
  <2>1. freeListHead \in Pointer /\ freeListNext \in [Node -> Pointer] /\ m \notin Reach(freeListHead, freeListNext)
    BY <1>7, ListedReach, Zenon DEF IInv, TypeOK, BeingPut
  <2>2. Reach(m, freeListNext) = Reach(freeListHead, freeListNext) \cup {m}
    <3>1. m \notin Reach(freeListNext[m], freeListNext)
      BY <1>5, <2>1, Zenon
    <3> QED BY <1>5, <2>1, <3>1, ReachPut, Zenon
  <2>3. Listed' = Reach(freeListHead', freeListNext')
    BY Zenon DEF Listed, Follows, Reach, Along
  <2> QED BY <1>1, <1>2, <2>2, <2>3, ListedReach, Zenon
<1>10. \A u \in User : ThreadInv(u)'
  <2>1. ThreadInv(t)'
    BY <1>4, Zenon DEF ThreadInv, Busy
  <2>2. \A u \in User \ {t} : ThreadInv(u)'
    BY <1>1, <1>4, ThreadsKept, Zenon DEF IInv
  <2> QED BY <2>1, <2>2
<1>11. OnList(m)'
  <2>1. /\ Linking(m)' = {} /\ Linked(m)' = {} /\ Taking(m)' = {}
        /\ Referring(m)' = Referring(m)
    <3>1. /\ Linking(m)' = Linking(m) \ {t} /\ Linked(m)' = Linked(m) \ {t}
          /\ Taking(m)' = Taking(m) \ {t} /\ Referring(m)' = Referring(m) \ {t}
      BY <1>4, RolesLeft, Zenon
    <3> QED BY <1>6, <1>7, <3>1, Zenon DEF BeingPut
  <2>2. Holding(m)' = {} /\ Count(m)' = Count(m) /\ m \in Listed'
    BY <1>1, <1>7, <1>9, <2>1, Zenon DEF Holding, BeingPut, Count
  <2> QED BY <1>1, <1>7, <2>1, <2>2, Zenon DEF OnList, BeingPut
<1>12. \A o \in Node : NodeInv(o)'
  <2>1. \A o \in Node \ {m} : o \in Listed' <=> o \in Listed
    BY <1>9, Zenon
  <2>2. \A o \in Node \ {m} : NodeInv(o)'
    BY <1>1, <1>2, <1>4, <2>1, OthersKept, Zenon DEF Engaged
  <2> QED BY <1>11, <2>2, Zenon DEF NodeInv
<1>13. ListInv'
  <2>1. /\ m \notin Listed /\ m # Null /\ freeListHead' = m
        /\ freeListHead \in Listed \cup {Null}
        /\ \A o \in Listed : freeListNext[o] \in Listed \cup {Null}
        /\ \A o \in Listed : freeListNext[o] # Null =>
             /\ freeListNext[o] # freeListHead
             /\ \A q \in Listed : freeListNext[q] = freeListNext[o] => q = o
    BY <1>1, <1>2, <1>7, ListedAlong, Zenon DEF BeingPut, IInv, ListInv
  <2>2. \A o \in Listed' : freeListNext[o] # Null => freeListNext[o] # m
    BY <1>5, <1>9, <2>1, Zenon
  <2>3. ASSUME NEW o \in Listed', freeListNext[o] # Null, NEW q \in Listed', freeListNext[q] = freeListNext[o]
        PROVE  q = o
    <3>1. CASE o \in Listed /\ q \in Listed
      BY <2>1, <2>3, <3>1, Zenon
    <3>2. CASE o = m \/ q = m
      BY <1>5, <1>9, <2>1, <2>3, <3>2, Zenon
    <3> QED BY <1>9, <3>1, <3>2, Zenon
  <2> QED BY <1>1, <2>1, <2>2, <2>3, Zenon DEF ListInv
<1> QED BY <1>8, <1>10, <1>12, <1>13, Zenon DEF IInv

\* The swap of a try_get takes the head off.
LEMMA GetTakes ==
  ASSUME IInv, NEW t \in User, GetTake(t), freeListHead = at[t].m
  PROVE  IInv'
<1> DEFINE r == [at[t] EXCEPT !.pc = "got"]
<1>1. /\ at[t].pc = "take" /\ freeListHead' = at[t].nxt /\ Go(t, r)
      /\ UNCHANGED <<freeListRefs, freeListNext, has>>
  BY Zenon DEF GetTake
<1>2. PICK m \in Node : at[t].m = m
  BY <1>1, Zenon DEF IInv, ThreadInv, Busy
<1>3. r \in Local /\ r.pc = "got" /\ r.m = m
  BY <1>2, LocalType DEF Local, Busy, IInv
<1> HIDE DEF r
<1>4. /\ at' \in [User -> Local] /\ at'[t] = r /\ Others(t)
      /\ at'[t].pc = "got" /\ at'[t].m = m
  BY <1>1, <1>3, GoFacts, Zenon DEF IInv
<1>5. freeListHead = m /\ freeListHead' = freeListNext[m]
  BY <1>1, <1>2, Zenon DEF IInv, ThreadInv
<1>6. /\ m \in Listed /\ m # Null
      /\ \A o \in Listed : freeListNext[o] # m
      /\ \A o \in Listed : freeListNext[o] # Null =>
           \A q \in Listed : freeListNext[q] = freeListNext[o] => q = o
  BY <1>5, ListedAlong, Zenon DEF IInv, ListInv
<1>7. OnList(m) /\ t \in Referring(m)
  <2>1. OnList(m)
    BY <1>6, KindOf, Zenon DEF IInv
  <2>2. t \in Referring(m)
    BY <1>1, <1>2 DEF Referring
  <2> QED BY <2>1, <2>2
<1>8. TypeOK'
  <2>1. freeListHead' \in Pointer
    BY <1>5, Zenon DEF IInv, TypeOK
  <2> QED BY <1>1, <1>4, <2>1, Zenon DEF IInv, TypeOK
<1>9. Listed' = Listed \ {m}
  <2>1. freeListNext \in [Node -> Pointer] /\ \A o \in Reach(m, freeListNext) : freeListNext[o] # m
    BY <1>5, <1>6, ListedReach, Zenon DEF IInv, TypeOK
  <2>2. Reach(freeListNext[m], freeListNext) = Reach(m, freeListNext) \ {m}
    BY <2>1, ReachTake, Zenon
  <2>3. Listed' = Reach(freeListHead', freeListNext')
    BY Zenon DEF Listed, Follows, Reach, Along
  <2> QED BY <1>1, <1>5, <2>2, <2>3, ListedReach, Zenon
<1>10. \A u \in User : ThreadInv(u)'
  <2>1. ThreadInv(t)'
    <3>1. r.pc # "take" /\ r.pc # "swap"
      BY <1>3
    <3> QED BY <1>3, <1>4, <3>1, Zenon DEF ThreadInv
  <2>2. \A u \in User \ {t} : ThreadInv(u)'
    BY <1>1, <1>4, ThreadsKept, Zenon DEF IInv
  <2> QED BY <2>1, <2>2
<1>11. TakenOff(m)'
  <2>1. Linking(m)' = {}
    BY <1>4, <1>7, Roles DEF OnList
  <2>2. Linked(m)' = {}
    BY <1>4, <1>7, Roles DEF OnList
  <2>3. Taking(m)' = {t}
    BY <1>4, <1>7, Roles DEF OnList
  <2>4. Referring(m)' = Referring(m) \ {t}
    BY <1>4, Roles
  <2>5. 2 + Count(m)' = 1 + Count(m)
    <3>1. Count(m)' = Count(m) - 1 /\ Count(m) # 0 /\ Count(m) \in Nat
      BY <1>7, <2>4, CountDown, CountType, Zenon
    <3> QED BY <3>1
  <2>6. Holding(m)' = {} /\ m \notin Listed'
    BY <1>1, <1>7, <1>9, Zenon DEF Holding, OnList
  <2> QED BY <1>1, <1>7, <2>1, <2>2, <2>3, <2>5, <2>6, Zenon DEF OnList, TakenOff
<1>12. \A o \in Node : NodeInv(o)'
  <2>1. \A o \in Node \ {m} : o \in Listed' <=> o \in Listed
    BY <1>9, Zenon
  <2>2. \A o \in Node \ {m} : NodeInv(o)'
    BY <1>1, <1>2, <1>4, <2>1, OthersKept, Zenon
  <2> QED BY <1>11, <2>2, Zenon DEF NodeInv
<1>13. ListInv'
  BY <1>1, <1>5, <1>6, <1>9, Zenon DEF ListInv
<1> QED BY <1>8, <1>10, <1>12, <1>13, Zenon DEF IInv


\* The swap of an add, taken or not.
LEMMA AddSwapInv ==
  ASSUME IInv, NEW t \in User, AddSwap(t) PROVE IInv'
<1>1. CASE freeListHead = at[t].top
  BY <1>1, AddSwaps, Zenon
<1>2. CASE freeListHead # at[t].top
  <2> DEFINE r == [at[t] EXCEPT !.pc = "mark", !.top = freeListHead]
  <2>1. at[t].pc = "swap" /\ Go(t, r) /\ UNCHANGED <<freeListHead, freeListRefs, freeListNext, has>>
    BY <1>2, Zenon DEF AddSwap
  <2>2. at[t] \in Local /\ freeListHead \in Pointer
    BY LocalType, Zenon DEF IInv, TypeOK
  <2>3. r \in Local /\ r.pc = "mark" /\ r.m = at[t].m
    BY <2>2, Zenon DEF Local, Busy
  <2> HIDE DEF r
  <2> QED BY <2>1, <2>3, HeadChanged, Zenon
<1> QED BY <1>1, <1>2

\* The swap of a try_get, taken or not.
LEMMA GetTakeInv ==
  ASSUME IInv, NEW t \in User, GetTake(t) PROVE IInv'
<1>1. CASE freeListHead = at[t].m
  BY <1>1, GetTakes, Zenon
<1>2. CASE freeListHead # at[t].m
  <2> DEFINE r == [at[t] EXCEPT !.pc = "drop", !.head = freeListHead]
  <2>1. at[t].pc = "take" /\ Go(t, r) /\ UNCHANGED <<freeListHead, freeListRefs, freeListNext, has>>
    BY <1>2, Zenon DEF GetTake
  <2>2. at[t] \in Local /\ freeListHead \in Pointer
    BY LocalType, Zenon DEF IInv, TypeOK
  <2>3. r \in Local /\ r.pc = "drop" /\ r.m = at[t].m
    BY <2>2, Zenon DEF Local, Busy
  <2> HIDE DEF r
  <2> QED BY <2>1, <2>3, HeadChanged, Zenon
<1> QED BY <1>1, <1>2

-----------------------------------------------------------------------------
\* At the start every node is in somebody's hands and the list is empty.
LEMMA InitInv == Init => IInv
<1> SUFFICES ASSUME Init PROVE IInv
  OBVIOUS
<1>1. PICK holder \in [Node -> User] : has = [t \in User |-> {m \in Node : holder[m] = t}]
  BY Zenon DEF Init
<1>2. Idle(0) \in Local /\ Idle(0).pc = "idle" /\ Word(0, FALSE) \in Refs
  BY DEF Idle, Local, Word, Refs, Pointer
<1>3. TypeOK
  BY <1>1, <1>2, Zenon DEF Init, TypeOK, Pointer
<1>4. \A t \in User : at[t].pc = "idle"
  BY <1>2, Zenon DEF Init
<1>5. \A t \in User : ThreadInv(t)
  BY <1>4 DEF ThreadInv, Busy
<1>6. Listed = {}
  <2>1. {} \in SUBSET Node /\ Follows({})
    BY Zenon DEF Init, Follows
  <2> QED BY <2>1, Zenon DEF Listed
<1>7. ASSUME NEW m \in Node PROVE InHands(m)
  <2>1. Linking(m) = {} /\ Linked(m) = {} /\ Taking(m) = {} /\ Referring(m) = {}
    BY <1>4 DEF Linking, Linked, Taking, Referring
  <2>2. Count(m) = 0
    BY <2>1, FS_EmptySet, Zenon DEF Count
  <2>3. Holding(m) = {holder[m]} /\ holder[m] \in User
    BY <1>1, Zenon DEF Holding
  <2>4. freeListRefs[m] = Word(0, FALSE)
    BY Zenon DEF Init
  <2> QED BY <1>6, <2>1, <2>2, <2>3, <2>4, Zenon DEF InHands
<1> QED BY <1>3, <1>5, <1>6, <1>7, Zenon DEF IInv, NodeInv, ListInv

\* Every step keeps the invariant.
LEMMA NextInv == IInv /\ [Next]_vars => IInv'
<1> SUFFICES ASSUME IInv, [Next]_vars PROVE IInv'
  OBVIOUS
<1>1. ASSUME NEW t \in User, Step(t) PROVE IInv'
  <2>1. CASE \E m \in Node : AddBegin(t, m)
    BY <2>1, AddBeginInv, Zenon
  <2>2. CASE AddTop(t)
    BY <2>2, AddTopInv, Zenon
  <2>3. CASE AddLink(t)
    BY <2>3, AddLinkInv, Zenon
  <2>4. CASE AddSwap(t)
    BY <2>4, AddSwapInv, Zenon
  <2>5. CASE AddMark(t)
    BY <2>5, AddMarkInv, Zenon
  <2>6. CASE GetBegin(t)
    BY <2>6, GetBeginInv, Zenon
  <2>7. CASE GetRefs(t)
    BY <2>7, GetRefsInv, Zenon
  <2>8. CASE GetClaim(t)
    BY <2>8, GetClaimInv, Zenon
  <2>9. CASE GetNext(t)
    BY <2>9, GetNextInv, Zenon
  <2>10. CASE GetTake(t)
    BY <2>10, GetTakeInv, Zenon
  <2>11. CASE GetGot(t)
    BY <2>11, GetGotInv, Zenon
  <2>12. CASE GetDrop(t)
    BY <2>12, GetDropInv, Zenon
  <2> QED BY <1>1, <2>1, <2>2, <2>3, <2>4, <2>5, <2>6, <2>7, <2>8, <2>9, <2>10, <2>11, <2>12, Zenon DEF Step
<1>2. CASE UNCHANGED vars
  <2>1. Listed' = Listed
    BY <1>2, Zenon DEF vars, Listed, Follows
  <2>2. \A t \in User : ThreadInv(t)'
    BY <1>2, Zenon DEF vars, IInv, ThreadInv
  <2>3. \A m \in Node : NodeInv(m)'
    <3> SUFFICES ASSUME NEW m \in Node PROVE NodeInv(m)'
      OBVIOUS
    <3>1. /\ Holding(m)' = Holding(m) /\ Linking(m)' = Linking(m) /\ Linked(m)' = Linked(m)
          /\ Taking(m)' = Taking(m) /\ Referring(m)' = Referring(m)
          /\ freeListRefs'[m] = freeListRefs[m]
      BY <1>2, Zenon DEF vars, Holding, Linking, Linked, Taking, Referring
    <3> QED BY <2>1, <3>1, NodeKept, Zenon DEF IInv
  <2> QED BY <1>2, <2>1, <2>2, <2>3, Zenon DEF vars, IInv, TypeOK, ListInv
<1> QED BY <1>1, <1>2, Zenon DEF Next

\* The kind of a node tells the one place it is in.
LEMMA OnePlace ==
  ASSUME NEW m \in Node, NodeInv(m) PROVE \E p : Places(m) = {p}
<1> DEFINE H == {"hands"} \X {t \in User : m \in has[t]}
           A == {"adding"} \X Adding(m)
           T == {"taking"} \X Taking(m)
           L == IF m \in Listed THEN {<<"list">>} ELSE {}
           M == IF freeListRefs[m].should /\ Adding(m) = {} /\ Referring(m) # {} THEN {<<"marked">>} ELSE {}
<1>1. Places(m) = H \cup A \cup T \cup L \cup M
  BY Zenon DEF Places
<1>2. Adding(m) = Linking(m) \cup Linked(m)
  BY DEF Adding, Linking, Linked
<1>3. \A k : ~Word(k, FALSE).should /\ Word(k, TRUE).should
  BY DEF Word
<1>4. H = {"hands"} \X Holding(m)
  BY Zenon DEF Holding
<1> HIDE DEF H
<1>5. \A x : {"hands"} \X {x} = {<<"hands", x>>} /\ {"adding"} \X {x} = {<<"adding", x>>}
             /\ {"taking"} \X {x} = {<<"taking", x>>}
  OBVIOUS
<1>6. {"hands"} \X {} = {} /\ {"adding"} \X {} = {} /\ {"taking"} \X {} = {}
  OBVIOUS
<1>7. CASE InHands(m)
  <2>1. PICK t \in User : Holding(m) = {t}
    BY <1>7, Zenon DEF InHands
  <2>2. H = {<<"hands", t>>}
    BY <1>4, <1>5, <2>1, Zenon
  <2>3. A = {} /\ T = {} /\ L = {}
    BY <1>2, <1>6, <1>7, Zenon DEF InHands
  <2>4. M = {}
    BY <1>3, <1>7, Zenon DEF InHands
  <2> QED BY <1>1, <2>2, <2>3, <2>4, Zenon
<1>8. CASE BeingLinked(m) \/ BeingPut(m)
  <2>1. PICK t \in User : Adding(m) = {t}
    BY <1>2, <1>8, Zenon DEF BeingLinked, BeingPut
  <2>2. A = {<<"adding", t>>}
    BY <1>5, <2>1, Zenon
  <2>3. H = {} /\ T = {} /\ L = {} /\ M = {}
    BY <1>4, <1>6, <1>8, <2>1, Zenon DEF BeingLinked, BeingPut
  <2> QED BY <1>1, <2>2, <2>3, Zenon
<1>9. CASE TakenOff(m)
  <2>1. PICK t \in User : Taking(m) = {t}
    BY <1>9, Zenon DEF TakenOff
  <2>2. T = {<<"taking", t>>}
    BY <1>5, <2>1, Zenon
  <2>3. H = {} /\ A = {} /\ L = {}
    BY <1>2, <1>4, <1>6, <1>9, Zenon DEF TakenOff
  <2>4. M = {}
    BY <1>3, <1>9, Zenon DEF TakenOff
  <2> QED BY <1>1, <2>2, <2>3, <2>4, Zenon
<1>10. CASE OnList(m)
  <2>1. L = {<<"list">>}
    BY <1>10, Zenon DEF OnList
  <2>2. H = {} /\ A = {} /\ T = {}
    BY <1>2, <1>4, <1>6, <1>10, Zenon DEF OnList
  <2>3. M = {}
    BY <1>3, <1>10, Zenon DEF OnList
  <2> QED BY <1>1, <2>1, <2>2, <2>3, Zenon
<1>11. CASE Marked(m)
  <2>1. M = {<<"marked">>}
    BY <1>2, <1>3, <1>11, Zenon DEF Marked
  <2>2. H = {} /\ A = {} /\ T = {} /\ L = {}
    BY <1>2, <1>4, <1>6, <1>11, Zenon DEF Marked
  <2> QED BY <1>1, <2>1, <2>2, Zenon
<1> QED BY <1>7, <1>8, <1>9, <1>10, <1>11, Zenon DEF NodeInv

\* The invariant implies the accounting.
LEMMA InvAccounts == IInv => NodesAccounted
<1> SUFFICES ASSUME IInv PROVE NodesAccounted
  OBVIOUS
<1>1. ASSUME NEW m \in Node PROVE Cardinality(Places(m)) = 1
  BY OnePlace, FS_Singleton, Zenon DEF IInv
<1>2. ASSUME NEW m \in Node, m \in Listed
      PROVE  freeListRefs[m] = Word(1 + Cardinality(Referring(m)), FALSE)
  BY <1>2, Zenon DEF IInv, NodeInv, InHands, BeingLinked, BeingPut, TakenOff, OnList, Marked, Count
<1> QED BY <1>1, <1>2, Zenon DEF NodesAccounted, IInv, ListInv

(***************************************************************************)
(* However many threads add spare blocks and try to get them, and however  *)
(* their atomic steps interleave, every block of the FreeList is in one    *)
(* place: with one thread, on the list, or left to those that refer to it. *)
(* A listed node's count is that of the threads that refer to it and one   *)
(* for the list, and the list does not run into itself.                    *)
(***************************************************************************)
THEOREM EveryNodeAccounted == Spec => []NodesAccounted
<1>1. Init => IInv
  BY InitInv
<1>2. IInv /\ [Next]_vars => IInv'
  BY NextInv
<1> QED BY <1>1, <1>2, InvAccounts, PTL DEF Spec
=============================================================================
