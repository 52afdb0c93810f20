--------------------------- MODULE SpecSyncProofs ---------------------------
(***************************************************************************)
(* Proofs about SpecSync, for any finite sets of processes, waiters and    *)
(* arrays of any size, and any number of binds.                            *)
(***************************************************************************)
EXTENDS SpecSync, FiniteSetTheorems, WellFoundedInduction, TLAPS

-----------------------------------------------------------------------------
(* Types, and what the operations on an array do to it *)

ArrayRec(a) ==
    [refs : Int, child : [Slots(a) -> Users \cup {Dummy}], pending : Int,
     callbacks : SUBSET Slots(a), enabled : BOOLEAN, signalled : BOOLEAN, error : BOOLEAN,
     bound : BOOLEAN, created : BOOLEAN]

Pcs == {"idle", "track", "check", "replace", "enable", "prune", "bound",
        "failBound", "fail", "failPrune", "put"}
Fds(a) == [Slots(a) -> Users \cup {Invalid}]
CallRec == [pc : Pcs, array : Arrays \cup {None}, fds : {<<>>} \cup UNION {Fds(a) : a \in Arrays}]
WaitRec == [pc : {"idle", "waiting", "returned", "timedOut"}, array : Arrays \cup {None}]

ArrType == DOMAIN arr = Arrays /\ \A a \in Arrays : arr[a] \in ArrayRec(a)
CallType ==
    /\ call \in [Procs -> CallRec]
    /\ \A p \in Procs :
         /\ call[p].pc = "idle" => call[p].array = None
         /\ call[p].pc # "idle" => call[p].array \in Arrays /\ p \in open
         /\ call[p].pc \notin {"idle", "track"} => call[p].fds \in Fds(call[p].array)
WaitType ==
    /\ wait \in [Waiters -> WaitRec]
    /\ \A w \in Waiters : wait[w].pc # "idle" => wait[w].array \in Arrays
RestType ==
    /\ open \subseteq Procs /\ tracked \subseteq Arrays /\ fdOpen \subseteq Arrays
    /\ signalled \subseteq Users
    /\ binds \in [Procs -> 0..MaxBinds]

SyncType == ArrType /\ CallType /\ WaitType /\ RestType

\* An operation that changes the references of an array only.
RefsOnly(r, q) ==
    /\ q.child = r.child /\ q.pending = r.pending /\ q.callbacks = r.callbacks
    /\ q.enabled = r.enabled /\ q.signalled = r.signalled /\ q.error = r.error
    /\ q.bound = r.bound /\ q.created = r.created

LEMMA SizesFinite ==
  ASSUME NEW a \in Arrays, NEW S \in SUBSET Slots(a)
  PROVE  /\ Size[a] \in Nat \ {0} /\ IsFiniteSet(S) /\ Cardinality(S) \in Nat
         /\ Cardinality(S) <= Size[a] /\ (Cardinality(S) = 0 <=> S = {})
         /\ IsFiniteSet(Slots(a)) /\ Cardinality(Slots(a)) = Size[a]
<1>1. Size[a] \in Nat \ {0}
  BY SpecSyncAssumption
<1>2. IsFiniteSet(Slots(a)) /\ Cardinality(Slots(a)) = Size[a]
  BY <1>1, FS_Interval, SMTT(30) DEF Slots
<1>3. IsFiniteSet(S) /\ Cardinality(S) <= Cardinality(Slots(a))
  BY <1>2, FS_Subset
<1>4. Cardinality(S) \in Nat /\ (Cardinality(S) = 0 <=> S = {})
  BY <1>3, FS_CardinalityType, FS_EmptySet
<1> QED BY <1>1, <1>2, <1>3, <1>4

LEMMA PutIs ==
  ASSUME NEW a \in Arrays, NEW r \in ArrayRec(a), NEW n \in Int
  PROVE  Put(r, n) \in ArrayRec(a) /\ RefsOnly(r, Put(r, n)) /\ Put(r, n).refs = r.refs - n
BY DEF ArrayRec, Put, RefsOnly

LEMMA CountDownIs ==
  ASSUME NEW a \in Arrays, NEW r \in ArrayRec(a), NEW n \in Int, NEW q, q = CountDown(r, n)
  PROVE  /\ q \in ArrayRec(a)
         /\ q.pending = r.pending - n
         /\ q.signalled <=> r.signalled \/ (r.pending > 0 /\ r.pending <= n)
         /\ q.refs = r.refs /\ q.child = r.child /\ q.callbacks = r.callbacks
         /\ q.enabled = r.enabled /\ q.error = r.error /\ q.bound = r.bound /\ q.created = r.created
<1> DEFINE s == r.signalled \/ (r.pending > 0 /\ r.pending <= n)
<1>1. q = [r EXCEPT !.pending = r.pending - n, !.signalled = s]
  BY Zenon DEF CountDown
<1>2. s \in BOOLEAN
  BY DEF ArrayRec
<1>3. s <=> (r.signalled \/ (r.pending > 0 /\ r.pending <= n))
  OBVIOUS
<1> HIDE DEF s
<1>4. q \in ArrayRec(a)
  <2> DEFINE p == r.pending - n
  <2>1. p \in Int
    BY DEF ArrayRec
  <2> HIDE DEF p
  <2>2. q = [r EXCEPT !.pending = p, !.signalled = s]
    BY <1>1 DEF p
  <2> QED BY <1>2, <2>1, <2>2 DEF ArrayRec
<1>5. /\ q.pending = r.pending - n /\ q.refs = r.refs /\ q.child = r.child
      /\ q.callbacks = r.callbacks /\ q.enabled = r.enabled /\ q.error = r.error
      /\ q.bound = r.bound /\ q.created = r.created
  BY <1>1 DEF ArrayRec
<1>6. q.signalled = s
  BY <1>1 DEF ArrayRec
<1> QED BY <1>3, <1>4, <1>5, <1>6

LEMMA ForgetIs ==
  ASSUME NEW a \in Arrays, NEW r \in ArrayRec(a), NEW force \in BOOLEAN,
         NEW q, q = Forget(r, force)
  PROVE  /\ q \in ArrayRec(a) /\ q.refs = r.refs - 1
         /\ q.child = r.child /\ q.callbacks = r.callbacks /\ q.enabled = r.enabled
         /\ q.error = r.error /\ q.bound = r.bound /\ q.created = r.created
         /\ r.signalled => q.signalled
         /\ ~force \/ r.signalled => RefsOnly(r, q)
         /\ force /\ r.pending = 1 => q.signalled
<1>1. CASE force /\ ~r.signalled
  <2> DEFINE c == CountDown(r, 1)
  <2>1. q = Put(c, 1)
    BY <1>1 DEF Forget
  <2>2. /\ c \in ArrayRec(a)
        /\ c.signalled <=> r.signalled \/ (r.pending > 0 /\ r.pending <= 1)
        /\ c.refs = r.refs /\ c.child = r.child /\ c.callbacks = r.callbacks
        /\ c.enabled = r.enabled /\ c.error = r.error /\ c.bound = r.bound /\ c.created = r.created
    BY CountDownIs
  <2> HIDE DEF c
  <2>3. q \in ArrayRec(a) /\ RefsOnly(c, q) /\ q.refs = c.refs - 1
    BY <2>1, <2>2, PutIs
  <2>4. r.pending = 1 => q.signalled
    BY <2>2, <2>3 DEF RefsOnly
  <2> QED BY <1>1, <2>2, <2>3, <2>4 DEF RefsOnly
<1>2. CASE ~(force /\ ~r.signalled)
  <2>1. q = Put(r, 1)
    BY <1>2 DEF Forget
  <2> QED BY <1>2, <2>1, PutIs DEF RefsOnly
<1> QED BY <1>1, <1>2

\* The last close counts an array down that waits for one signal.
LEMMA ForgottenSignals ==
  ASSUME NEW a \in Arrays, NEW r \in ArrayRec(a), r.pending = 1
  PROVE  Forget(r, TRUE).signalled
<1>1. PICK f \in BOOLEAN : f = TRUE
  OBVIOUS
<1>2. Forget(r, f).signalled
  BY <1>1, ForgetIs, ZenonT(30)
<1> QED BY <1>1, <1>2

Hits(r, u) == {i \in r.callbacks : r.child[i] = u}
CalledBack(r, u) ==
    Put(CountDown([r EXCEPT !.callbacks = @ \ Hits(r, u)], Cardinality(Hits(r, u))),
        Cardinality(Hits(r, u)))

LEMMA HitsFinite ==
  ASSUME NEW a \in Arrays, NEW r \in ArrayRec(a), NEW u
  PROVE  Hits(r, u) \subseteq Slots(a) /\ \E n \in Nat : n = Cardinality(Hits(r, u))
<1>1. Hits(r, u) \subseteq Slots(a)
  BY DEF Hits, ArrayRec
<1> QED BY <1>1, SizesFinite

LEMMA CalledBackIs ==
  ASSUME NEW a \in Arrays, NEW r \in ArrayRec(a), NEW u,
         NEW n \in Nat, n = Cardinality(Hits(r, u)), NEW q, q = CalledBack(r, u)
  PROVE  /\ q \in ArrayRec(a)
         /\ q.refs = r.refs - n /\ q.pending = r.pending - n
         /\ q.callbacks = r.callbacks \ Hits(r, u)
         /\ q.signalled <=> r.signalled \/ (r.pending > 0 /\ r.pending <= n)
         /\ q.child = r.child /\ q.enabled = r.enabled /\ q.error = r.error
         /\ q.bound = r.bound /\ q.created = r.created
<1> DEFINE e == [r EXCEPT !.callbacks = r.callbacks \ Hits(r, u)]
           c == CountDown(e, n)
<1>1. Hits(r, u) \subseteq Slots(a) /\ n \in Nat
  BY HitsFinite
<1>2. /\ e \in ArrayRec(a) /\ e.callbacks = r.callbacks \ Hits(r, u)
      /\ e.refs = r.refs /\ e.child = r.child /\ e.pending = r.pending /\ e.signalled = r.signalled
      /\ e.enabled = r.enabled /\ e.error = r.error /\ e.bound = r.bound /\ e.created = r.created
  BY DEF ArrayRec
<1>3. q = Put(c, n)
  BY DEF CalledBack
<1> HIDE DEF e
<1>4. /\ c \in ArrayRec(a) /\ c.pending = e.pending - n
      /\ c.signalled <=> e.signalled \/ (e.pending > 0 /\ e.pending <= n)
      /\ c.refs = e.refs /\ c.child = e.child /\ c.callbacks = e.callbacks
      /\ c.enabled = e.enabled /\ c.error = e.error /\ c.bound = e.bound /\ c.created = e.created
  BY <1>1, <1>2, CountDownIs
<1> HIDE DEF c
<1> QED BY <1>1, <1>2, <1>3, <1>4, PutIs DEF RefsOnly

\* Whatever the number of callbacks, a called-back array keeps the rest of its state.
LEMMA CalledBackKeeps ==
  ASSUME NEW a \in Arrays, NEW r \in ArrayRec(a), NEW u, NEW q, q = CalledBack(r, u)
  PROVE  /\ q \in ArrayRec(a)
         /\ r.signalled => q.signalled
         /\ q.child = r.child /\ q.enabled = r.enabled /\ q.error = r.error
         /\ q.bound = r.bound /\ q.created = r.created
<1>1. PICK n \in Nat : n = Cardinality(Hits(r, u))
  BY HitsFinite
<1> QED BY <1>1, CalledBackIs

LEMMA CalledBackLeft ==
  ASSUME NEW a \in Arrays, NEW r \in ArrayRec(a), NEW u
  PROVE  /\ CalledBack(r, u).callbacks = r.callbacks \ Hits(r, u)
         /\ Hits(r, u) = {} => CalledBack(r, u).callbacks = r.callbacks
<1> DEFINE left == r.callbacks \ Hits(r, u)
           e == [r EXCEPT !.callbacks = left]
           n == Cardinality(Hits(r, u))
           c == CountDown(e, n)
<1>1. CalledBack(r, u) = Put(c, n)
  BY DEF CalledBack
<1>2. Hits(r, u) = {} => left = r.callbacks
  OBVIOUS
<1>3. left \subseteq Slots(a)
  BY DEF ArrayRec
<1> HIDE DEF left, n
<1>4. e \in ArrayRec(a) /\ e.callbacks = left
  BY <1>3 DEF ArrayRec
<1> HIDE DEF e
<1>5. n \in Int
  BY HitsFinite DEF n
<1>6. c \in ArrayRec(a) /\ c.callbacks = e.callbacks
  BY <1>4, <1>5, CountDownIs
<1> HIDE DEF c
<1>7. Put(c, n).callbacks = c.callbacks
  BY <1>5, <1>6, PutIs DEF RefsOnly
<1>8. CalledBack(r, u).callbacks = left
  BY <1>1, <1>4, <1>6, <1>7
<1> QED BY <1>2, <1>8 DEF left

\* Signalling is enabled with the callbacks cb, and k signals are counted.
Counted(a, r, e, cb, k, q) ==
    /\ q = CountDown(e, k) /\ k \in Int /\ q \in ArrayRec(a)
    /\ e.enabled /\ e.callbacks = cb /\ e.child = r.child /\ e.pending = r.pending
    /\ e.signalled = r.signalled /\ e.error = r.error /\ e.bound = r.bound
    /\ e.created = r.created

LEMMA EnableCounts ==
  ASSUME NEW a \in Arrays, NEW r \in ArrayRec(a), ~r.enabled, ~r.signalled,
         NEW cb, cb = Reached(r) \ Late(r),
         NEW k, k = Cardinality(Reached(r) \cap Late(r)),
         NEW q, q = EnableSignaling(r)
  PROVE  \E e \in ArrayRec(a) : Counted(a, r, e, cb, k, q)
<1>1. cb \in SUBSET Slots(a) /\ Cardinality(cb) \in Nat /\ k \in Int
  <2>1. Reached(r) \subseteq Slots(a)
    BY DEF Reached, ArrayRec
  <2> QED BY <2>1, SizesFinite
<1>2. PICK m \in Int : m = r.refs + Cardinality(cb)
  BY <1>1 DEF ArrayRec
<1>3. PICK e : e = [r EXCEPT !.enabled = TRUE, !.callbacks = cb, !.refs = m]
  OBVIOUS
<1>4. q = CountDown(e, k)
  BY <1>2, <1>3 DEF EnableSignaling, Enabled
<1>5. /\ e \in ArrayRec(a) /\ e.enabled /\ e.callbacks = cb
      /\ e.child = r.child /\ e.pending = r.pending /\ e.signalled = r.signalled
      /\ e.error = r.error /\ e.bound = r.bound /\ e.created = r.created
  BY <1>1, <1>3 DEF ArrayRec
<1>6. q \in ArrayRec(a)
  BY <1>1, <1>4, <1>5, CountDownIs
<1> QED BY <1>1, <1>4, <1>5, <1>6 DEF Counted

LEMMA CountDownKeeps ==
  ASSUME NEW a \in Arrays, NEW r \in ArrayRec(a), NEW n \in Int, NEW q, q = CountDown(r, n)
  PROVE  /\ q.refs = r.refs /\ q.child = r.child /\ q.callbacks = r.callbacks
         /\ q.enabled = r.enabled /\ q.error = r.error /\ q.bound = r.bound /\ q.created = r.created
BY DEF CountDown, ArrayRec

LEMMA EnableIs ==
  ASSUME NEW a \in Arrays, NEW r \in ArrayRec(a), NEW q, q = EnableSignaling(r)
  PROVE  /\ q \in ArrayRec(a) /\ q.enabled
         /\ q.child = r.child /\ q.error = r.error /\ q.bound = r.bound /\ q.created = r.created
         /\ r.signalled => q.signalled
<1>1. CASE r.enabled \/ r.signalled
  <2>1. q = [r EXCEPT !.enabled = TRUE]
    BY <1>1 DEF EnableSignaling, Enabled
  <2> QED BY <1>1, <2>1 DEF ArrayRec
<1>2. CASE ~r.enabled /\ ~r.signalled
  <2>1. PICK k, cb : k = Cardinality(Reached(r) \cap Late(r)) /\ cb = Reached(r) \ Late(r)
    OBVIOUS
  <2>2. PICK e \in ArrayRec(a) : Counted(a, r, e, cb, k, q)
    BY <1>2, <2>1, EnableCounts
  <2> USE DEF Counted
  <2> QED BY <1>2, <2>2, CountDownKeeps
<1> QED BY <1>1, <1>2

\* An action that assigns one array.
LEMMA OneArray ==
  ASSUME ArrType, NEW x \in Arrays, NEW v \in ArrayRec(x), arr' = [arr EXCEPT ![x] = v]
  PROVE  ArrType' /\ arr'[x] = v /\ \A a \in Arrays : a # x => arr'[a] = arr[a]
BY DEF ArrType, ArrayRec

LEMMA EachArray ==
  ASSUME NEW new, arr' = [a \in Arrays |-> new[a]], \A a \in Arrays : new[a] \in ArrayRec(a)
  PROVE  ArrType' /\ \A a \in Arrays : arr'[a] = new[a]
BY DEF ArrType, ArrayRec

\* What no step takes back, of an array.
Older(r, q) ==
    /\ r.created => q.created
    /\ r.bound => q.bound
    /\ r.error => q.error
    /\ r.signalled => q.signalled
    /\ Dummies(q) \subseteq Dummies(r)

\* The references of an array change: it is put, or a reference to it is taken.
LEMMA TakeOrPut ==
  ASSUME ArrType, NEW x \in Arrays, NEW n \in Int,
         \/ arr' = [arr EXCEPT ![x] = Put(@, n)]
         \/ arr' = [arr EXCEPT ![x].refs = @ - n]
  PROVE  /\ ArrType' /\ \A a \in Arrays : RefsOnly(arr[a], arr'[a])
         /\ arr'[x].refs = arr[x].refs - n
         /\ \A a \in Arrays : a # x => arr'[a] = arr[a]
<1>1. arr' = [arr EXCEPT ![x] = Put(arr[x], n)]
  BY DEF Put
<1>2. arr[x] \in ArrayRec(x)
  BY DEF ArrType
<1>3. /\ Put(arr[x], n) \in ArrayRec(x) /\ RefsOnly(arr[x], Put(arr[x], n))
      /\ Put(arr[x], n).refs = arr[x].refs - n
  BY <1>2, PutIs
<1>4. ArrType' /\ arr'[x] = Put(arr[x], n) /\ \A a \in Arrays : a # x => arr'[a] = arr[a]
  BY <1>1, <1>3, OneArray
<1>5. \A a \in Arrays : RefsOnly(arr[a], arr'[a])
  BY <1>3, <1>4 DEF RefsOnly
<1> QED BY <1>3, <1>4, <1>5

LEMMA OnlyRefs ==
  ASSUME NEW r, NEW q, RefsOnly(r, q)
  PROVE  Older(r, q) /\ Dummies(q) = Dummies(r)
BY DEF RefsOnly, Older, Dummies

LEMMA ClearIs ==
  ASSUME SyncType, NEW force \in BOOLEAN, ClearTracker(force)
  PROVE  /\ ArrType' /\ tracked' = {a \in tracked : ~Forgets(arr[a], force)}
         /\ \A a \in Arrays : IF a \in tracked /\ Forgets(arr[a], force)
                              THEN arr'[a] = Forget(arr[a], force) ELSE arr'[a] = arr[a]
         /\ \A a \in Arrays : Older(arr[a], arr'[a]) /\ Dummies(arr'[a]) = Dummies(arr[a])
<1> DEFINE gone == {a \in tracked : Forgets(arr[a], force)}
           new == [a \in Arrays |-> IF a \in gone THEN Forget(arr[a], force) ELSE arr[a]]
<1>1. arr' = [a \in Arrays |-> new[a]] /\ tracked' = tracked \ gone
  BY DEF ClearTracker, SetArrays
<1>2. \A a \in Arrays : arr[a] \in ArrayRec(a) /\ Forget(arr[a], force) \in ArrayRec(a)
  BY ForgetIs DEF SyncType, ArrType
<1>3. \A a \in Arrays : new[a] = IF a \in gone THEN Forget(arr[a], force) ELSE arr[a]
  OBVIOUS
<1>4. \A a \in Arrays : new[a] \in ArrayRec(a)
  BY <1>2, <1>3
<1> HIDE DEF new
<1>5. ArrType' /\ \A a \in Arrays : arr'[a] = new[a]
  BY <1>1, <1>4, EachArray
<1>6. ASSUME NEW a \in Arrays
      PROVE  Older(arr[a], arr'[a]) /\ Dummies(arr'[a]) = Dummies(arr[a])
  <2>1. CASE a \in gone
    <3>1. arr'[a] = Forget(arr[a], force)
      BY <1>3, <1>5, <2>1
    <3> QED BY <1>2, <3>1, ForgetIs DEF Older, Dummies
  <2>2. CASE a \notin gone
    BY <1>3, <1>5, <2>2 DEF Older
  <2> QED BY <2>1, <2>2
<1> QED BY <1>1, <1>3, <1>5, <1>6

LEMMA UserIs ==
  ASSUME SyncType, NEW u \in Users, UserSignals(u)
  PROVE  /\ ArrType' /\ \A a \in Arrays : arr'[a] = CalledBack(arr[a], u)
         /\ \A a \in Arrays : Older(arr[a], arr'[a]) /\ Dummies(arr'[a]) = Dummies(arr[a])
<1> DEFINE new == [a \in Arrays |-> CalledBack(arr[a], u)]
<1>1. arr' = [a \in Arrays |-> CalledBack(arr[a], u)]
  BY DEF UserSignals, SetArrays, CalledBack, Hits
<1>2. \A a \in Arrays : new[a] = CalledBack(arr[a], u)
  OBVIOUS
<1>3. \A a \in Arrays : arr[a] \in ArrayRec(a) /\ new[a] \in ArrayRec(a)
  BY <1>2, CalledBackKeeps DEF SyncType, ArrType
<1> HIDE DEF new
<1>4. ArrType' /\ \A a \in Arrays : arr'[a] = new[a]
  BY <1>1, <1>2, <1>3, EachArray
<1>5. \A a \in Arrays : Older(arr[a], arr'[a]) /\ Dummies(arr'[a]) = Dummies(arr[a])
  <2> SUFFICES ASSUME NEW a \in Arrays
               PROVE  Older(arr[a], arr'[a]) /\ Dummies(arr'[a]) = Dummies(arr[a])
    OBVIOUS
  <2>1. arr[a] \in ArrayRec(a) /\ arr'[a] = CalledBack(arr[a], u)
    BY <1>2, <1>3, <1>4
  <2>2. /\ arr[a].signalled => arr'[a].signalled
        /\ arr'[a].child = arr[a].child /\ arr'[a].error = arr[a].error
        /\ arr'[a].bound = arr[a].bound /\ arr'[a].created = arr[a].created
    BY <2>1, CalledBackKeeps
  <2> QED BY <2>2 DEF Older, Dummies
<1> QED BY <1>2, <1>4, <1>5

LEMMA ReplaceOthers ==
  ASSUME SyncType, NEW p \in Procs, ReplaceChildren(p)
  PROVE  \A a \in Arrays : a # call[p].array => arr'[a] = arr[a]
BY DEF SyncType, ArrType, ReplaceChildren

LEMMA ReplaceIs ==
  ASSUME SyncType, NEW p \in Procs, ReplaceChildren(p), NEW x, x = call[p].array
  PROVE  /\ x \in Arrays /\ ArrType'
         /\ Good(p) \subseteq Slots(x) /\ \A i \in Good(p) : call[p].fds[i] \in Users
         /\ arr'[x].child = [i \in Slots(x) |-> IF i \in Good(p) THEN call[p].fds[i] ELSE arr[x].child[i]]
         /\ arr'[x].enabled <=> arr[x].enabled /\ Good(p) # Slots(x)
         /\ arr'[x].refs = arr[x].refs /\ arr'[x].pending = arr[x].pending
         /\ arr'[x].callbacks = arr[x].callbacks /\ arr'[x].signalled = arr[x].signalled
         /\ arr'[x].error = arr[x].error /\ arr'[x].bound = arr[x].bound
         /\ arr'[x].created = arr[x].created
         /\ Dummies(arr'[x]) = Dummies(arr[x]) \ Good(p)
         /\ call' = [call EXCEPT ![p].pc = IF Good(p) = Slots(x) THEN "enable" ELSE "failBound"]
<1>1. x \in Arrays /\ call[p].fds \in Fds(x) /\ arr[x] \in ArrayRec(x)
  BY DEF SyncType, CallType, ArrType, ReplaceChildren, At
<1>2. Good(p) \subseteq Slots(x) /\ \A i \in Good(p) : call[p].fds[i] \in Users
  <2>1. Good(p) \subseteq Slots(x)
    BY <1>1 DEF Good, Fds
  <2>2. ASSUME NEW i \in Good(p)
        PROVE  call[p].fds[i] \in Users
    <3>1. i \in 1..i
      BY <2>1, SpecSyncAssumption DEF Slots
    <3>2. call[p].fds[i] # Invalid
      BY <2>2, <3>1 DEF Good
    <3> QED BY <1>1, <2>1, <3>2 DEF Fds
  <2> QED BY <2>1, <2>2
<1> DEFINE kids == [i \in Slots(x) |-> IF i \in Good(p) THEN call[p].fds[i] ELSE arr[x].child[i]]
           on == arr[x].enabled /\ ~(Good(p) = Slots(x))
           v == [arr[x] EXCEPT !.child = kids, !.enabled = on]
<1>3. arr' = [arr EXCEPT ![x] = v]
  BY DEF ReplaceChildren
<1>4. kids \in [Slots(x) -> Users \cup {Dummy}] /\ on \in BOOLEAN
  BY <1>1, <1>2 DEF ArrayRec
<1>5. \A i \in Slots(x) : kids[i] = Dummy <=> arr[x].child[i] = Dummy /\ i \notin Good(p)
  BY <1>1, <1>2, SpecSyncAssumption
<1>6. on <=> arr[x].enabled /\ Good(p) # Slots(x)
  OBVIOUS
<1>7. call' = [call EXCEPT ![p].pc = IF Good(p) = Slots(x) THEN "enable" ELSE "failBound"]
  BY DEF ReplaceChildren, Goto
<1>8. DOMAIN kids = Slots(x)
  OBVIOUS
<1> HIDE DEF kids, on
<1>9. /\ v \in ArrayRec(x) /\ v.child = kids /\ v.enabled = on
      /\ v.refs = arr[x].refs /\ v.pending = arr[x].pending
      /\ v.callbacks = arr[x].callbacks /\ v.signalled = arr[x].signalled
      /\ v.error = arr[x].error /\ v.bound = arr[x].bound /\ v.created = arr[x].created
  BY <1>1, <1>4 DEF ArrayRec
<1> HIDE DEF v
<1>10. ArrType' /\ arr'[x] = v /\ \A a \in Arrays : a # x => arr'[a] = arr[a]
  BY <1>1, <1>3, <1>9, OneArray DEF SyncType
<1>11. Dummies(v) = Dummies(arr[x]) \ Good(p)
  BY <1>1, <1>5, <1>8, <1>9 DEF Dummies, ArrayRec
<1> QED BY <1>1, <1>2, <1>6, <1>7, <1>9, <1>10, <1>11 DEF kids

\* The other actions that assign one array.
LEMMA OthersAre ==
  ASSUME SyncType, NEW p \in Procs, NEW x \in Arrays
  PROVE  /\ Create(p, x) =>
              /\ ArrType' /\ \A a \in Arrays : a # x => arr'[a] = arr[a]
              /\ arr'[x] = [arr[x] EXCEPT !.created = TRUE, !.refs = 2]
         /\ Enable(p) /\ x = call[p].array =>
              /\ ArrType' /\ \A a \in Arrays : a # x => arr'[a] = arr[a]
              /\ \E r, q : r \in ArrayRec(x) /\ r = arr[x] /\ q = arr'[x] /\ q = EnableSignaling(r)
         /\ SetBound(p) /\ x = call[p].array =>
              /\ ArrType' /\ \A a \in Arrays : a # x => arr'[a] = arr[a]
              /\ arr'[x] = [arr[x] EXCEPT !.bound = TRUE]
         /\ Fail(p) /\ x = call[p].array =>
              /\ ArrType' /\ \A a \in Arrays : a # x => arr'[a] = arr[a]
              /\ arr'[x] = [arr[x] EXCEPT !.error = TRUE, !.signalled = TRUE]
<1>1. arr[x] \in ArrayRec(x) /\ ArrType
  BY DEF SyncType, ArrType
<1>2. ASSUME Create(p, x)
      PROVE  /\ ArrType' /\ \A a \in Arrays : a # x => arr'[a] = arr[a]
             /\ arr'[x] = [arr[x] EXCEPT !.created = TRUE, !.refs = 2]
  <2>1. arr' = [arr EXCEPT ![x] = [arr[x] EXCEPT !.created = TRUE, !.refs = 2]]
    BY <1>1, <1>2 DEF Create, ArrType
  <2>2. [arr[x] EXCEPT !.created = TRUE, !.refs = 2] \in ArrayRec(x)
    <3>1. PICK two \in Int : two = 2
      OBVIOUS
    <3>2. [arr[x] EXCEPT !.created = TRUE, !.refs = two] \in ArrayRec(x)
      BY <1>1 DEF ArrayRec
    <3> QED BY <3>1, <3>2
  <2> QED BY <1>1, <2>1, <2>2, OneArray
<1>3. ASSUME Enable(p), x = call[p].array
      PROVE  /\ ArrType' /\ \A a \in Arrays : a # x => arr'[a] = arr[a]
             /\ \E r, q : r \in ArrayRec(x) /\ r = arr[x] /\ q = arr'[x] /\ q = EnableSignaling(r)
  <2>1. PICK r \in ArrayRec(x) : r = arr[x]
    BY <1>1
  <2>2. PICK q : q = EnableSignaling(r)
    OBVIOUS
  <2>3. arr' = [arr EXCEPT ![x] = q]
    BY <1>3, <2>1, <2>2, ZenonT(30) DEF Enable, EnableSignaling, Enabled, Reached, Late
  <2>4. q \in ArrayRec(x)
    BY <2>2, EnableIs
  <2>5. ArrType' /\ arr'[x] = q /\ \A a \in Arrays : a # x => arr'[a] = arr[a]
    BY <1>1, <2>3, <2>4, OneArray
  <2> QED BY <2>1, <2>2, <2>5
<1>4. ASSUME SetBound(p), x = call[p].array
      PROVE  /\ ArrType' /\ \A a \in Arrays : a # x => arr'[a] = arr[a]
             /\ arr'[x] = [arr[x] EXCEPT !.bound = TRUE]
  <2>1. arr' = [arr EXCEPT ![x] = [arr[x] EXCEPT !.bound = TRUE]]
    BY <1>1, <1>4 DEF SetBound, ArrType
  <2>2. [arr[x] EXCEPT !.bound = TRUE] \in ArrayRec(x)
    BY <1>1 DEF ArrayRec
  <2> QED BY <1>1, <2>1, <2>2, OneArray
<1>5. ASSUME Fail(p), x = call[p].array
      PROVE  /\ ArrType' /\ \A a \in Arrays : a # x => arr'[a] = arr[a]
             /\ arr'[x] = [arr[x] EXCEPT !.error = TRUE, !.signalled = TRUE]
  <2>1. arr' = [arr EXCEPT ![x] = [arr[x] EXCEPT !.error = TRUE, !.signalled = TRUE]]
    BY <1>5 DEF Fail, SignalError
  <2>2. [arr[x] EXCEPT !.error = TRUE, !.signalled = TRUE] \in ArrayRec(x)
    BY <1>1 DEF ArrayRec
  <2> QED BY <1>1, <2>1, <2>2, OneArray
<1> QED BY <1>2, <1>3, <1>4, <1>5

\* The actions that take or put a reference to one array, and do no more to it.
RefStep ==
    \/ \E p \in Procs, a \in Arrays, fds \in UNION {Fds(b) : b \in Arrays} : StartBind(p, a, fds)
    \/ \E p \in Procs : PutFence(p)
    \/ \E w \in Waiters : EndWait(w) \/ TimeOut(w) \/ \E a \in Arrays : StartWait(w, a)
    \/ \E a \in Arrays : CloseFence(a)

LEMMA RefStepIs ==
  ASSUME SyncType, RefStep
  PROVE  /\ ArrType' /\ \A a \in Arrays : RefsOnly(arr[a], arr'[a])
         /\ UNCHANGED <<open, tracked, signalled>>
<1>1. \E x \in Arrays, n \in Int :
         \/ arr' = [arr EXCEPT ![x] = Put(@, n)]
         \/ arr' = [arr EXCEPT ![x].refs = @ - n]
  <2>1. ASSUME NEW x \in Arrays, arr' = [arr EXCEPT ![x].refs = @ + 1]
        PROVE  \E n \in Int : arr' = [arr EXCEPT ![x].refs = @ - n]
    <3>1. arr[x].refs \in Int
      BY DEF SyncType, ArrType, ArrayRec
    <3>2. arr[x].refs + 1 = arr[x].refs - (-1) /\ -1 \in Int
      BY <3>1
    <3>3. arr' = [arr EXCEPT ![x].refs = arr[x].refs - (-1)]
      BY <2>1, <3>2 DEF SyncType, ArrType
    <3> QED BY <3>2, <3>3
  <2>2. CASE \E p \in Procs, a \in Arrays, fds \in UNION {Fds(b) : b \in Arrays} : StartBind(p, a, fds)
    BY <2>1, <2>2 DEF StartBind
  <2>3. ASSUME NEW p \in Procs, PutFence(p)
        PROVE  \E x \in Arrays : arr' = [arr EXCEPT ![x] = Put(@, 1)]
    BY <2>3 DEF PutFence, SetArrays, At, SyncType, CallType
  <2>4. ASSUME NEW w \in Waiters, EndWait(w) \/ TimeOut(w)
        PROVE  \E x \in Arrays : arr' = [arr EXCEPT ![x] = Put(@, 1)]
    BY <2>4 DEF EndWait, TimeOut, EndsWait, SetArrays, SyncType, WaitType
  <2>5. ASSUME NEW w \in Waiters, NEW a \in Arrays, StartWait(w, a)
        PROVE  \E n \in Int : arr' = [arr EXCEPT ![a].refs = @ - n]
    BY <2>1, <2>5 DEF StartWait
  <2>6. ASSUME NEW a \in Arrays, CloseFence(a)
        PROVE  arr' = [arr EXCEPT ![a] = Put(@, 1)]
    BY <2>6 DEF CloseFence, SetArrays
  <2>7. 1 \in Int
    OBVIOUS
  <2> QED BY <2>2, <2>3, <2>4, <2>5, <2>6, <2>7 DEF RefStep
<1>2. ArrType' /\ \A a \in Arrays : RefsOnly(arr[a], arr'[a])
  BY <1>1, TakeOrPut DEF SyncType
<1> QED BY <1>2 DEF RefStep, StartBind, PutFence, EndWait, TimeOut, EndsWait, StartWait, CloseFence

\* Every step leaves an array of its type, and takes nothing back.
LEMMA Ages ==
  ASSUME SyncType, [Next]_vars
  PROVE  ArrType' /\ \A a \in Arrays : Older(arr[a], arr'[a])
<1>1. ASSUME UNCHANGED arr
      PROVE  ArrType' /\ \A a \in Arrays : Older(arr[a], arr'[a])
  BY <1>1 DEF SyncType, ArrType, Older
<1>2. CASE RefStep
  BY <1>2, RefStepIs, OnlyRefs
<1>3. ASSUME NEW force \in BOOLEAN, ClearTracker(force)
      PROVE  ArrType' /\ \A a \in Arrays : Older(arr[a], arr'[a])
  BY <1>3, ClearIs
<1>4. ASSUME NEW p \in Procs, Open(p) \/ Release(p) \/ Track(p) \/ CheckBind(p) \/ Prune(p)
      PROVE  ArrType' /\ \A a \in Arrays : Older(arr[a], arr'[a])
  <2>1. UNCHANGED arr \/ \E force \in BOOLEAN : ClearTracker(force)
    BY <1>4 DEF Open, Release, Track, CheckBind, Prune
  <2> QED BY <1>1, <1>3, <2>1
<1>5. ASSUME NEW p \in Procs, NEW x \in Arrays, Create(p, x)
      PROVE  ArrType' /\ \A a \in Arrays : Older(arr[a], arr'[a])
  <2>1. /\ ArrType' /\ \A a \in Arrays : a # x => arr'[a] = arr[a]
        /\ arr'[x] = [arr[x] EXCEPT !.created = TRUE, !.refs = 2]
    BY <1>5, OthersAre
  <2>2. arr[x] \in ArrayRec(x)
    BY DEF SyncType, ArrType
  <2>3. Older(arr[x], arr'[x])
    BY <2>1, <2>2 DEF Older, Dummies, ArrayRec
  <2> QED BY <2>1, <2>3 DEF Older
<1>6. ASSUME NEW p \in Procs, ReplaceChildren(p) \/ Enable(p) \/ SetBound(p) \/ Fail(p)
      PROVE  ArrType' /\ \A a \in Arrays : Older(arr[a], arr'[a])
  <2>0. call[p].array \in Arrays
    BY <1>6 DEF SyncType, CallType, ReplaceChildren, Enable, SetBound, Fail, At
  <2>1. PICK x \in Arrays : x = call[p].array /\ arr[x] \in ArrayRec(x)
    BY <2>0 DEF SyncType, ArrType
  <2>2. CASE ReplaceChildren(p)
    <3>1. \A a \in Arrays : a # x => arr'[a] = arr[a]
      BY <2>1, <2>2, ReplaceOthers
    <3>2. /\ ArrType'
          /\ arr'[x].signalled = arr[x].signalled /\ arr'[x].error = arr[x].error
          /\ arr'[x].bound = arr[x].bound /\ arr'[x].created = arr[x].created
          /\ Dummies(arr'[x]) = Dummies(arr[x]) \ Good(p)
      BY <2>1, <2>2, ReplaceIs
    <3> QED BY <2>1, <3>1, <3>2 DEF Older
  <2>3. CASE Enable(p)
    <3>1. /\ ArrType' /\ \A a \in Arrays : a # x => arr'[a] = arr[a]
          /\ \E r, q : r \in ArrayRec(x) /\ r = arr[x] /\ q = arr'[x] /\ q = EnableSignaling(r)
      BY <2>1, <2>3, OthersAre
    <3>2. PICK r, q : r \in ArrayRec(x) /\ r = arr[x] /\ q = arr'[x] /\ q = EnableSignaling(r)
      BY <3>1
    <3>3. q = EnableSignaling(r) /\ r \in ArrayRec(x)
      BY <3>2
    <3>4. /\ q.child = r.child /\ q.error = r.error /\ q.bound = r.bound /\ q.created = r.created
          /\ r.signalled => q.signalled
      BY <3>3, EnableIs, ZenonT(30)
    <3>5. Older(r, q)
      BY <3>4 DEF Older, Dummies
    <3> QED BY <3>1, <3>2, <3>5 DEF Older
  <2>4. CASE SetBound(p) \/ Fail(p)
    <3>1. /\ ArrType' /\ \A a \in Arrays : a # x => arr'[a] = arr[a]
          /\ \/ arr'[x] = [arr[x] EXCEPT !.bound = TRUE]
             \/ arr'[x] = [arr[x] EXCEPT !.error = TRUE, !.signalled = TRUE]
      BY <2>1, <2>4, OthersAre
    <3>2. Older(arr[x], arr'[x])
      BY <2>1, <3>1 DEF Older, Dummies, ArrayRec
    <3> QED BY <3>1, <3>2 DEF Older
  <2> QED BY <1>6, <2>2, <2>3, <2>4
<1>7. ASSUME NEW u \in Users, UserSignals(u)
      PROVE  ArrType' /\ \A a \in Arrays : Older(arr[a], arr'[a])
  BY <1>7, UserIs
<1>8. CASE UNCHANGED vars
  BY <1>1, <1>8 DEF vars
<1>9. CASE Next
  <2>1. ASSUME NEW a \in Arrays, NEW fds, fds \in Fds(a)
        PROVE  fds \in UNION {Fds(b) : b \in Arrays}
    BY <2>1
  <2> QED BY <1>2, <1>4, <1>5, <1>6, <1>7, <1>9, <2>1 DEF Next, ProcStep, RefStep, Fds
<1> QED BY <1>8, <1>9

LEMMA InitSync == Init => SyncType
<1> SUFFICES ASSUME Init PROVE SyncType
  OBVIOUS
<1>1. \A a \in Arrays : Uncreated(a) \in ArrayRec(a)
  <2> SUFFICES ASSUME NEW a \in Arrays PROVE Uncreated(a) \in ArrayRec(a)
    OBVIOUS
  <2> DEFINE n == IF a \in All THEN Size[a] ELSE 1
  <2>1. PICK zero \in Int : zero = 0
    OBVIOUS
  <2>2. n \in Int
    BY SizesFinite
  <2> HIDE DEF n
  <2>3. [refs |-> zero, child |-> [i \in Slots(a) |-> Dummy], pending |-> n,
         callbacks |-> {}, enabled |-> TRUE, signalled |-> FALSE, error |-> FALSE,
         bound |-> FALSE, created |-> FALSE] \in ArrayRec(a)
    BY <2>2 DEF ArrayRec
  <2> QED BY <2>1, <2>3 DEF Uncreated, n
<1>2. ArrType
  BY <1>1 DEF Init, ArrType
<1>3. CallType
  BY DEF Init, CallType, CallRec, NoCall, Pcs
<1>4. WaitType
  BY DEF Init, WaitType, WaitRec, NoWait
<1>5. RestType
  BY SpecSyncAssumption DEF Init, RestType
<1> QED BY <1>2, <1>3, <1>4, <1>5 DEF SyncType

LEMMA CallStep ==
  ASSUME SyncType, NEW p \in Procs, ProcStep(p)
  PROVE  CallType' /\ RestType' /\ UNCHANGED wait /\ \A q \in Procs : q # p => call'[q] = call[q]
<1>1. /\ call \in [Procs -> CallRec] /\ call[p] \in CallRec
      /\ call[p].pc = "idle" => call[p].array = None
      /\ call[p].pc # "idle" => call[p].array \in Arrays /\ p \in open
      /\ call[p].pc \notin {"idle", "track"} => call[p].fds \in Fds(call[p].array)
  BY DEF SyncType, CallType
<1>2. open \subseteq Procs /\ tracked \subseteq Arrays /\ fdOpen \subseteq Arrays
      /\ signalled \subseteq Users /\ binds \in [Procs -> 0..MaxBinds]
  BY DEF SyncType, RestType
<1>3. ASSUME NEW r \in CallRec, call' = [call EXCEPT ![p] = r], open' = open,
             r.pc = "idle" => r.array = None,
             r.pc # "idle" => r.array \in Arrays /\ p \in open,
             r.pc \notin {"idle", "track"} => r.fds \in Fds(r.array)
      PROVE  CallType' /\ \A q \in Procs : q # p => call'[q] = call[q]
  <2>1. call'[p] = r /\ call' \in [Procs -> CallRec] /\ \A q \in Procs : q # p => call'[q] = call[q]
    BY <1>1, <1>3
  <2> QED BY <1>3, <2>1 DEF SyncType, CallType
<1>4. NoCall \in CallRec /\ NoCall.pc = "idle" /\ NoCall.array = None
  BY DEF NoCall, CallRec, Pcs
<1>5. ASSUME NEW pc \in Pcs \ {"idle", "track"}, call' = [call EXCEPT ![p].pc = pc], open' = open,
             call[p].pc \notin {"idle", "track"}
      PROVE  CallType' /\ \A q \in Procs : q # p => call'[q] = call[q]
  <2> DEFINE r == [call[p] EXCEPT !.pc = pc]
  <2>1. call' = [call EXCEPT ![p] = r]
    BY <1>1, <1>5
  <2>2. r \in CallRec /\ r.pc = pc /\ r.array = call[p].array /\ r.fds = call[p].fds
    BY <1>1 DEF CallRec
  <2> HIDE DEF r
  <2> QED BY <1>1, <1>3, <1>5, <2>1, <2>2
<1>6. ASSUME call' = [call EXCEPT ![p] = NoCall], open' = open
      PROVE  CallType' /\ \A q \in Procs : q # p => call'[q] = call[q]
  BY <1>3, <1>4, <1>6
<1>7. CASE Open(p)
  BY <1>2, <1>7 DEF Open, CallType, RestType, SyncType
<1>8. CASE Release(p)
  <2>1. /\ call' = call /\ open' = open \ {p} /\ call[p].pc = "idle"
        /\ UNCHANGED <<fdOpen, signalled, binds, wait>>
    BY <1>8 DEF Release
  <2>2. tracked' \subseteq tracked
    BY <1>8 DEF Release, ClearTracker
  <2> QED BY <1>2, <2>1, <2>2 DEF CallType, RestType, SyncType
<1>9. ASSUME NEW a \in Arrays, Create(p, a)
      PROVE  CallType' /\ RestType' /\ UNCHANGED wait /\ \A q \in Procs : q # p => call'[q] = call[q]
  <2> DEFINE r == [NoCall EXCEPT !.pc = "track", !.array = a]
  <2>1. r \in CallRec /\ r.pc = "track" /\ r.array = a
    BY DEF NoCall, CallRec, Pcs
  <2>2. call' = [call EXCEPT ![p] = r] /\ p \in open /\ open' = open
    BY <1>9 DEF Create, Begin
  <2> HIDE DEF r
  <2>3. CallType' /\ \A q \in Procs : q # p => call'[q] = call[q]
    BY <1>3, <2>1, <2>2
  <2> QED BY <1>2, <1>9, <2>3 DEF Create, RestType
<1>10. ASSUME NEW a \in Arrays, NEW fds \in Fds(a), StartBind(p, a, fds)
       PROVE  CallType' /\ RestType' /\ UNCHANGED wait /\ \A q \in Procs : q # p => call'[q] = call[q]
  <2> DEFINE r == [pc |-> "check", array |-> a, fds |-> fds]
  <2>1. r \in CallRec /\ r.pc = "check" /\ r.array = a /\ r.fds = fds
    BY DEF CallRec, Pcs
  <2>2. call' = [call EXCEPT ![p] = r] /\ p \in open /\ open' = open
    BY <1>10 DEF StartBind, Begin
  <2> HIDE DEF r
  <2>3. CallType' /\ \A q \in Procs : q # p => call'[q] = call[q]
    BY <1>3, <2>1, <2>2
  <2>4. binds' \in [Procs -> 0..MaxBinds]
    <3>1. binds[p] \in 0..MaxBinds /\ binds[p] < MaxBinds /\ binds' = [binds EXCEPT ![p] = binds[p] + 1]
      BY <1>2, <1>10 DEF StartBind
    <3>2. binds[p] + 1 \in 0..MaxBinds
      BY <3>1, SpecSyncAssumption
    <3> QED BY <1>2, <3>1, <3>2
  <2> QED BY <1>2, <1>10, <2>3, <2>4 DEF StartBind, RestType
<1>11. CASE Track(p)
  BY <1>1, <1>2, <1>6, <1>11 DEF Track, Return, At, RestType
<1>12. CASE CheckBind(p)
  BY <1>2, <1>5, <1>12 DEF CheckBind, At, Goto, Pcs, RestType
<1>13. CASE ReplaceChildren(p)
  <2> DEFINE pc == IF Good(p) = Slots(call[p].array) THEN "enable" ELSE "failBound"
  <2>1. call' = [call EXCEPT ![p].pc = pc] /\ call[p].pc = "replace" /\ open' = open
    BY <1>13 DEF ReplaceChildren, At, Goto
  <2>2. pc \in Pcs \ {"idle", "track"}
    BY DEF Pcs
  <2> HIDE DEF pc
  <2>3. CallType' /\ \A q \in Procs : q # p => call'[q] = call[q]
    BY <1>5, <2>1, <2>2
  <2> QED BY <1>2, <1>13, <2>3 DEF ReplaceChildren, RestType
<1>14. CASE Enable(p)
  BY <1>2, <1>5, <1>14 DEF Enable, At, Goto, Pcs, RestType
<1>15. CASE Prune(p)
  <2>1. tracked' \subseteq tracked
    BY <1>15 DEF Prune, ClearTracker
  <2> QED BY <1>2, <1>5, <1>15, <2>1 DEF Prune, At, Goto, Pcs, RestType
<1>16. CASE SetBound(p)
  BY <1>2, <1>5, <1>16 DEF SetBound, At, Goto, Pcs, RestType
<1>17. CASE Fail(p)
  BY <1>2, <1>5, <1>17 DEF Fail, At, Goto, Pcs, RestType
<1>18. CASE PutFence(p)
  BY <1>2, <1>6, <1>18 DEF PutFence, Return, RestType
<1> QED BY <1>7, <1>8, <1>9, <1>10, <1>11, <1>12, <1>13, <1>14, <1>15, <1>16, <1>17, <1>18
        DEF ProcStep, Fds

LEMMA SyncTypeStep ==
  ASSUME SyncType, [Next]_vars
  PROVE  SyncType'
<1>1. ArrType'
  BY Ages
<1>2. CASE UNCHANGED vars
  BY <1>1, <1>2 DEF vars, SyncType, CallType, WaitType, RestType
<1>3. CASE \E p \in Procs : ProcStep(p)
  BY <1>1, <1>3, CallStep DEF SyncType, WaitType
<1>4. ASSUME NEW w \in Waiters, EndWait(w) \/ TimeOut(w) \/ \E a \in Arrays : StartWait(w, a)
      PROVE  SyncType'
  <2>1. WaitType'
    <3>1. wait \in [Waiters -> WaitRec] /\ wait[w] \in WaitRec /\ wait[w].pc # "idle" => wait[w].array \in Arrays
      BY DEF SyncType, WaitType
    <3>2. CASE EndWait(w) \/ TimeOut(w)
      <4>1. PICK result \in {"returned", "timedOut"} : wait' = [wait EXCEPT ![w].pc = result]
        BY <3>2 DEF EndWait, TimeOut, EndsWait
      <4>2. wait[w].pc = "waiting"
        BY <3>2 DEF EndWait, TimeOut
      <4> QED BY <3>1, <4>1, <4>2 DEF SyncType, WaitType, WaitRec
    <3>3. ASSUME NEW a \in Arrays, StartWait(w, a)
          PROVE  WaitType'
      <4>1. wait' = [wait EXCEPT ![w] = [pc |-> "waiting", array |-> a]]
        BY <3>3 DEF StartWait
      <4> QED BY <3>1, <4>1 DEF SyncType, WaitType, WaitRec
    <3> QED BY <1>4, <3>2, <3>3
  <2>2. UNCHANGED <<open, tracked, fdOpen, signalled, call, binds>>
    BY <1>4 DEF EndWait, TimeOut, EndsWait, StartWait
  <2> QED BY <1>1, <2>1, <2>2 DEF SyncType, CallType, RestType
<1>5. CASE \E a \in Arrays : CloseFence(a)
  BY <1>1, <1>5 DEF CloseFence, SyncType, CallType, WaitType, RestType
<1>6. CASE \E u \in Users : UserSignals(u)
  BY <1>1, <1>6 DEF UserSignals, SyncType, CallType, WaitType, RestType
<1> QED BY <1>2, <1>3, <1>4, <1>5, <1>6 DEF Next

\* The locals of calls and waits stay within the arrays they are about.
THEOREM TypeInvariant == Spec => []SyncType
BY InitSync, SyncTypeStep, PTL DEF Spec

\* A fence that no callback of the array waits for leaves the array as it is.
LEMMA CalledBackNone ==
  ASSUME NEW a \in Arrays, NEW r \in ArrayRec(a), NEW u, Hits(r, u) = {}
  PROVE  /\ CalledBack(r, u).pending = r.pending /\ CalledBack(r, u).callbacks = r.callbacks
         /\ CalledBack(r, u).signalled = r.signalled /\ CalledBack(r, u).refs = r.refs
<1>1. PICK n \in Nat : n = Cardinality(Hits(r, u))
  BY HitsFinite
<1>2. n = 0
  BY <1>1, FS_EmptySet
<1>3. PICK q : q = CalledBack(r, u)
  OBVIOUS
<1>4. q \in ArrayRec(a)
  BY <1>3, CalledBackKeeps
<1>5. q.refs = r.refs - n /\ q.pending = r.pending - n
  BY <1>1, <1>3, CalledBackIs
<1>6. q.callbacks = r.callbacks
  BY <1>3, CalledBackLeft
<1>7. q.signalled <=> r.signalled \/ (r.pending > 0 /\ r.pending <= n)
  BY <1>1, <1>3, CalledBackIs
<1>8. q.pending = r.pending /\ q.refs = r.refs /\ q.callbacks = r.callbacks
  BY <1>2, <1>5, <1>6 DEF ArrayRec
<1>9. q.signalled <=> r.signalled
  BY <1>2, <1>7 DEF ArrayRec
<1>10. q.signalled = r.signalled
  BY <1>4, <1>9 DEF ArrayRec
<1> QED BY <1>3, <1>8, <1>10

\* What a step can do to an array, apart from its references.
LEMMA SignalsKept ==
  ASSUME [Next]_vars
  PROVE  UNCHANGED signalled \/ \E u \in Users : UserSignals(u)
BY DEF Next, vars, ProcStep, Open, Release, Create, StartBind, Track, CheckBind, ReplaceChildren,
       Enable, Prune, SetBound, Fail, PutFence, EndWait, TimeOut, EndsWait, StartWait, CloseFence

BinderActs(p) == ReplaceChildren(p) \/ Enable(p) \/ SetBound(p) \/ Fail(p)

LEMMA Touches ==
  ASSUME SyncType, [Next]_vars, NEW a \in Arrays
  PROVE  \/ RefsOnly(arr[a], arr'[a])
         \/ a \in tracked /\ \E p \in Procs : Release(p) /\ ClearTracker(TRUE)
         \/ \E p \in Procs : Create(p, a)
         \/ \E p \in Procs : call[p].array = a /\ BinderActs(p)
         \/ \E u \in Users : UserSignals(u)
<1> DEFINE Goal ==
         \/ RefsOnly(arr[a], arr'[a])
         \/ a \in tracked /\ \E p \in Procs : Release(p) /\ ClearTracker(TRUE)
         \/ \E p \in Procs : Create(p, a)
         \/ \E p \in Procs : call[p].array = a /\ BinderActs(p)
         \/ \E u \in Users : UserSignals(u)
<1>1. ASSUME arr'[a] = arr[a]
      PROVE  RefsOnly(arr[a], arr'[a])
  BY <1>1 DEF RefsOnly
<1>2. CASE RefStep
  BY <1>2, RefStepIs
<1>3. ASSUME NEW p \in Procs, Prune(p)
      PROVE  RefsOnly(arr[a], arr'[a])
  <2>1. ClearTracker(FALSE)
    BY <1>3 DEF Prune
  <2>2. arr'[a] = Forget(arr[a], FALSE) \/ arr'[a] = arr[a]
    BY <2>1, ClearIs
  <2>3. ASSUME arr'[a] = Forget(arr[a], FALSE)
        PROVE  RefsOnly(arr[a], arr'[a])
    <3>1. PICK f \in BOOLEAN : ~f /\ arr'[a] = Forget(arr[a], f)
      BY <2>3
    <3>2. arr[a] \in ArrayRec(a)
      BY DEF SyncType, ArrType
    <3> QED BY <3>1, <3>2, ForgetIs
  <2> QED BY <1>1, <2>2, <2>3
<1>4. ASSUME NEW p \in Procs, Open(p) \/ Track(p) \/ CheckBind(p)
      PROVE  RefsOnly(arr[a], arr'[a])
  BY <1>1, <1>4 DEF Open, Track, CheckBind
<1>5. ASSUME NEW p \in Procs, Release(p)
      PROVE  Goal
  <2>1. UNCHANGED arr \/ ClearTracker(TRUE)
    BY <1>5 DEF Release
  <2>2. CASE ClearTracker(TRUE) /\ a \notin tracked
    BY <1>1, <2>2, ClearIs
  <2> QED BY <1>1, <1>5, <2>1, <2>2
<1>6. ASSUME NEW p \in Procs, NEW x \in Arrays, Create(p, x)
      PROVE  Goal
  <2>1. a # x => arr'[a] = arr[a]
    BY <1>6, OthersAre
  <2> QED BY <1>1, <1>6, <2>1
<1>7. ASSUME NEW p \in Procs, BinderActs(p)
      PROVE  Goal
  <2>1. PICK x \in Arrays : x = call[p].array
    BY <1>7 DEF BinderActs, SyncType, CallType, ReplaceChildren, Enable, SetBound, Fail, At
  <2>2. a # x => arr'[a] = arr[a]
    BY <1>7, <2>1, ReplaceOthers, OthersAre DEF BinderActs
  <2> QED BY <1>1, <1>7, <2>1, <2>2
<1>8. CASE UNCHANGED vars
  BY <1>1, <1>8 DEF vars
<1>9. CASE Next
  <2>1. ASSUME NEW b \in Arrays, NEW fds, fds \in Fds(b)
        PROVE  fds \in UNION {Fds(c) : c \in Arrays}
    BY <2>1
  <2>2. (\E p \in Procs : ProcStep(p)) \/ RefStep \/ \E u \in Users : UserSignals(u)
    BY <1>9 DEF Next, RefStep
  <2>3. ASSUME NEW p \in Procs, ProcStep(p)
        PROVE  Goal
    <3>1. RefStep \/ Open(p) \/ Release(p) \/ Track(p) \/ CheckBind(p) \/ Prune(p) \/ BinderActs(p)
          \/ \E x \in Arrays : Create(p, x)
      BY <2>1, <2>3 DEF ProcStep, RefStep, BinderActs, Fds
    <3> QED BY <1>2, <1>3, <1>4, <1>5, <1>6, <1>7, <3>1
  <2> QED BY <1>2, <2>2, <2>3
<1> QED BY <1>8, <1>9

-----------------------------------------------------------------------------
(* A bind that a driver waited for, and arrays that nobody can signal *)

\* The bind of an array has come to an end that a driver can use.
Settled(a) ==
    \/ Dummies(arr[a]) = {}
    \/ arr[a].error /\ arr[a].signalled
    \/ \E p \in Procs : call[p].array = a /\ At(p, "fail")

\* A bind that found all its fences has replaced every dummy; the bit is set for
\* an array that is settled, and only a driver that saw the bit returns with success.
BindersReplaced ==
    \A p \in Procs : call[p].pc \in {"enable", "prune", "bound"} => Dummies(arr[call[p].array]) = {}
BoundSettled == \A a \in Arrays : arr[a].bound => Settled(a)
ReturnedSettled == \A w \in Waiters : wait[w].pc = "returned" => Settled(wait[w].array)

\* An array of the kind "any" that is not bound signals at the first count-down, and
\* the list keeps it, or its creator is about to put it there.
FreshAny ==
    \A a \in Arrays \ All : Dummies(arr[a]) # {} =>
        arr[a].callbacks = {} /\ (arr[a].signalled \/ arr[a].pending = 1)
Listed ==
    \A a \in Arrays \ All : arr[a].created /\ ~arr[a].signalled /\ Dummies(arr[a]) # {} =>
        a \in tracked \/ \E p \in Procs : call[p].array = a /\ At(p, "track")

SyncInv == BindersReplaced /\ BoundSettled /\ ReturnedSettled /\ FreshAny /\ Listed

LEMMA InitInv == Init => SyncInv
<1> SUFFICES ASSUME Init PROVE SyncInv
  OBVIOUS
<1>1. /\ \A a \in Arrays : arr[a] = Uncreated(a)
      /\ \A p \in Procs : call[p].pc = "idle"
      /\ \A w \in Waiters : wait[w].pc = "idle"
  BY DEF Init, NoCall, NoWait
<1>2. \A a \in Arrays : /\ ~Uncreated(a).bound /\ ~Uncreated(a).created
                        /\ Uncreated(a).callbacks = {}
                        /\ a \notin All => Uncreated(a).pending = 1
  BY DEF Uncreated
<1> QED BY <1>1, <1>2 DEF SyncInv, BindersReplaced, BoundSettled, ReturnedSettled, FreshAny, Listed

LEMMA SettledStays ==
  ASSUME SyncType, [Next]_vars, NEW a \in Arrays, Settled(a)
  PROVE  Settled(a)'
<1>1. Older(arr[a], arr'[a])
  BY Ages
<1>2. CASE Dummies(arr[a]) = {}
  <2>1. Dummies(arr'[a]) = {}
    BY <1>1, <1>2 DEF Older
  <2> QED BY <2>1 DEF Settled, Dummies
<1>3. CASE arr[a].error /\ arr[a].signalled
  BY <1>1, <1>3 DEF Older, Settled
<1>4. ASSUME NEW p \in Procs, call[p].array = a, At(p, "fail")
      PROVE  Settled(a)'
  <2>1. CASE Fail(p)
    <3>1. arr'[a] = [arr[a] EXCEPT !.error = TRUE, !.signalled = TRUE] /\ arr[a] \in ArrayRec(a)
      BY <1>4, <2>1, OthersAre DEF SyncType, ArrType
    <3>2. arr'[a].error /\ arr'[a].signalled
      BY <3>1 DEF ArrayRec
    <3> QED BY <3>2 DEF Settled
  <2>2. CASE ProcStep(p) /\ ~Fail(p)
    <3>1. UNCHANGED call
      BY <1>4, <2>2 DEF ProcStep, Open, Release, Create, Begin, StartBind, Track, CheckBind,
                        ReplaceChildren, Enable, Prune, SetBound, PutFence, At
    <3> QED BY <1>4, <3>1 DEF Settled, At
  <2>3. ASSUME NEW q \in Procs, q # p, ProcStep(q)
        PROVE  call'[p] = call[p]
    BY <2>3, CallStep
  <2>4. CASE UNCHANGED call
    BY <1>4, <2>4 DEF Settled, At
  <2>5. CASE \E q \in Procs : q # p /\ ProcStep(q)
    <3>1. call'[p] = call[p]
      BY <2>3, <2>5
    <3> QED BY <1>4, <3>1 DEF Settled, At
  <2> QED BY <2>1, <2>2, <2>4, <2>5
          DEF Next, vars, EndWait, TimeOut, EndsWait, StartWait, CloseFence, UserSignals
<1> QED BY <1>2, <1>3, <1>4 DEF Settled

\* Who sets the bit of an array, and who creates it.
LEMMA Marks ==
  ASSUME SyncType, [Next]_vars, NEW b \in Arrays
  PROVE  \/ arr'[b].bound = arr[b].bound /\ arr'[b].created = arr[b].created
         \/ \E p \in Procs : Create(p, b) \/ (SetBound(p) /\ call[p].array = b)
<1> DEFINE Unmarked == arr'[b].bound = arr[b].bound /\ arr'[b].created = arr[b].created
           Done == \E p \in Procs : Create(p, b) \/ (SetBound(p) /\ call[p].array = b)
<1>1. arr[b] \in ArrayRec(b)
  BY DEF SyncType, ArrType
<1>2. CASE RefsOnly(arr[b], arr'[b])
  BY <1>2 DEF RefsOnly
<1>3. CASE ClearTracker(TRUE)
  <2>1. PICK f \in BOOLEAN : arr'[b] = Forget(arr[b], f) \/ arr'[b] = arr[b]
    BY <1>3, ClearIs
  <2> QED BY <1>1, <2>1, ForgetIs
<1>4. ASSUME NEW p \in Procs, call[p].array = b, BinderActs(p)
      PROVE  Unmarked \/ Done
  <2>1. CASE ReplaceChildren(p)
    <3>1. PICK x : x = call[p].array
      OBVIOUS
    <3>2. arr'[x].bound = arr[x].bound /\ arr'[x].created = arr[x].created
      BY <2>1, <3>1, ReplaceIs, ZenonT(30)
    <3> QED BY <1>4, <3>1, <3>2
  <2>2. CASE Enable(p)
    <3>1. PICK r, q : r \in ArrayRec(b) /\ r = arr[b] /\ q = arr'[b] /\ q = EnableSignaling(r)
      BY <1>4, <2>2, OthersAre
    <3>2. q = EnableSignaling(r) /\ r \in ArrayRec(b)
      BY <3>1
    <3>3. q.bound = r.bound /\ q.created = r.created
      BY <3>2, EnableIs, ZenonT(30)
    <3> QED BY <3>1, <3>3
  <2>3. CASE Fail(p)
    <3>1. arr'[b] = [arr[b] EXCEPT !.error = TRUE, !.signalled = TRUE]
      BY <1>4, <2>3, OthersAre
    <3> QED BY <1>1, <3>1 DEF ArrayRec
  <2> QED BY <1>4, <2>1, <2>2, <2>3 DEF BinderActs
<1>5. ASSUME NEW u \in Users, UserSignals(u)
      PROVE  Unmarked
  <2>1. arr'[b] = CalledBack(arr[b], u)
    BY <1>5, UserIs
  <2> QED BY <1>1, <2>1, CalledBackKeeps
<1> QED BY <1>2, <1>3, <1>4, <1>5, Touches

\* Where the call of a process goes on.
LEMMA CallMoves ==
  ASSUME SyncType, [Next]_vars, NEW p \in Procs
  PROVE  call'[p] = call[p] \/ (ProcStep(p) /\ UNCHANGED wait)
<1>1. ASSUME NEW q \in Procs, ProcStep(q)
      PROVE  call'[p] = call[p] \/ (ProcStep(p) /\ UNCHANGED wait)
  BY <1>1, CallStep
<1> QED BY <1>1 DEF Next, vars, EndWait, TimeOut, EndsWait, StartWait, CloseFence, UserSignals

LEMMA Moves ==
  ASSUME SyncType, NEW p \in Procs, ProcStep(p), NEW c, c = call'[p].pc
  PROVE  \/ UNCHANGED call \/ c \in {"track", "check", "idle"}
         \/ /\ call'[p].array = call[p].array /\ call[p].array \in Arrays
            /\ \/ CheckBind(p) /\ c \in {"replace", "put"}
               \/ ReplaceChildren(p) /\ c = IF Good(p) = Slots(call[p].array) THEN "enable" ELSE "failBound"
               \/ Enable(p) /\ c = "prune"
               \/ Prune(p) /\ ((At(p, "prune") /\ c = "bound") \/ (At(p, "failPrune") /\ c = "put"))
               \/ SetBound(p) /\ ((At(p, "bound") /\ c = "put") \/ (At(p, "failBound") /\ c = "fail"))
               \/ Fail(p) /\ c = "failPrune"
<1>1. call \in [Procs -> CallRec] /\ call[p] \in CallRec
  BY DEF SyncType, CallType
<1>2. ASSUME NEW pc, Goto(p, pc)
      PROVE  c = pc /\ call'[p].array = call[p].array
  BY <1>1, <1>2 DEF Goto, CallRec
<1>3. CASE Open(p) \/ Release(p)
  BY <1>3 DEF Open, Release
<1>4. CASE Track(p) \/ PutFence(p)
  BY <1>1, <1>4 DEF Track, PutFence, Return, NoCall
<1>5. ASSUME NEW a \in Arrays, Create(p, a) \/ \E fds \in Fds(a) : StartBind(p, a, fds)
      PROVE  c \in {"track", "check"}
  <2>1. CASE Create(p, a)
    BY <1>1, <2>1 DEF Create, Begin, NoCall
  <2>2. ASSUME NEW fds, StartBind(p, a, fds)
        PROVE  c = "check"
    BY <1>1, <2>2 DEF StartBind, Begin
  <2> QED BY <1>5, <2>1, <2>2
<1>6. CASE ReplaceChildren(p)
  <2> DEFINE pc == IF Good(p) = Slots(call[p].array) THEN "enable" ELSE "failBound"
  <2>1. Goto(p, pc) /\ At(p, "replace")
    BY <1>6 DEF ReplaceChildren
  <2> HIDE DEF pc
  <2>2. c = pc /\ call'[p].array = call[p].array /\ call[p].array \in Arrays
    BY <1>2, <2>1 DEF SyncType, CallType, At
  <2> QED BY <1>6, <2>2 DEF pc
<1>7. ~At(p, "idle") => call[p].array \in Arrays
  BY DEF At, SyncType, CallType
<1>8. CASE CheckBind(p)
  <2>1. At(p, "check") /\ (Goto(p, "replace") \/ Goto(p, "put"))
    BY <1>8 DEF CheckBind
  <2> QED BY <1>2, <1>7, <1>8, <2>1 DEF At
<1>9. CASE Enable(p)
  <2>1. At(p, "enable") /\ Goto(p, "prune")
    BY <1>9 DEF Enable
  <2> QED BY <1>2, <1>7, <1>9, <2>1 DEF At
<1>10. CASE Prune(p)
  <2>1. (At(p, "prune") /\ Goto(p, "bound")) \/ (At(p, "failPrune") /\ Goto(p, "put"))
    BY <1>10 DEF Prune
  <2> QED BY <1>2, <1>7, <1>10, <2>1 DEF At
<1>11. CASE SetBound(p)
  <2>1. (At(p, "bound") /\ Goto(p, "put")) \/ (At(p, "failBound") /\ Goto(p, "fail"))
    BY <1>11 DEF SetBound
  <2> QED BY <1>2, <1>7, <1>11, <2>1 DEF At
<1>12. CASE Fail(p)
  <2>1. At(p, "fail") /\ Goto(p, "failPrune")
    BY <1>12 DEF Fail
  <2> QED BY <1>2, <1>7, <1>12, <2>1 DEF At
<1> QED BY <1>3, <1>4, <1>5, <1>6, <1>8, <1>9, <1>10, <1>11, <1>12 DEF ProcStep, Fds

LEMMA BindersStep ==
  ASSUME SyncType, SyncInv, [Next]_vars
  PROVE  BindersReplaced'
<1> SUFFICES ASSUME NEW p \in Procs, call'[p].pc \in {"enable", "prune", "bound"}
             PROVE  Dummies(arr'[call'[p].array]) = {}
  BY DEF BindersReplaced, Dummies
<1>1. BindersReplaced /\ SyncType'
  BY SyncTypeStep DEF SyncInv
<1>2. PICK x : x = call'[p].array
  OBVIOUS
<1>3. x \in Arrays
  BY <1>1, <1>2 DEF SyncType, CallType
<1>4. Dummies(arr'[x]) \subseteq Dummies(arr[x])
  BY <1>3, Ages DEF Older
<1>5. CASE call[p].array = x /\ call[p].pc \in {"enable", "prune", "bound"}
  BY <1>1, <1>2, <1>4, <1>5 DEF BindersReplaced
<1>6. CASE ProcStep(p) /\ ~(call[p].array = x /\ call[p].pc \in {"enable", "prune", "bound"})
  <2>1. PICK c : c = call'[p].pc
    OBVIOUS
  <2>2. ReplaceChildren(p) /\ c = "enable"
        /\ c = (IF Good(p) = Slots(call[p].array) THEN "enable" ELSE "failBound")
        /\ x = call[p].array
    BY <1>2, <1>6, <2>1, Moves DEF Enable, At
  <2>4. x = call[p].array /\ Good(p) = Slots(call[p].array)
    BY <2>2
  <2>5. Dummies(arr'[x]) = Dummies(arr[x]) \ Good(p)
    BY <2>2, <2>4, ReplaceIs
  <2>6. Dummies(arr[x]) \subseteq Slots(x)
    BY <1>3 DEF SyncType, ArrType, ArrayRec, Dummies
  <2> QED BY <1>2, <2>4, <2>5, <2>6
<1>7. CASE call'[p] = call[p]
  BY <1>2, <1>5, <1>7
<1> QED BY <1>5, <1>6, <1>7, CallMoves

LEMMA SettledStep ==
  ASSUME SyncType, SyncInv, [Next]_vars
  PROVE  BoundSettled' /\ ReturnedSettled'
<1>1. BoundSettled /\ ReturnedSettled /\ BindersReplaced
  BY DEF SyncInv
<1>2. ASSUME NEW a \in Arrays, arr'[a].bound
      PROVE  Settled(a)'
  <2>1. CASE arr[a].bound
    BY <1>1, <2>1, SettledStays DEF BoundSettled
  <2>2. ASSUME NEW p \in Procs, SetBound(p), call[p].array = a
        PROVE  Settled(a)'
    <3>1. ProcStep(p)
      BY <2>2 DEF ProcStep
    <3>2. call'[p].array = a /\ (At(p, "bound") \/ (At(p, "failBound") /\ call'[p].pc = "fail"))
      BY <2>2 DEF SetBound, At, Goto, SyncType, CallType, CallRec
    <3>3. CASE At(p, "bound")
      <4>1. Settled(a)
        BY <1>1, <2>2, <3>3 DEF BindersReplaced, At, Settled
      <4> QED BY <4>1, SettledStays
    <3>4. CASE At(p, "failBound") /\ call'[p].pc = "fail"
      BY <3>2, <3>4 DEF Settled, At
    <3> QED BY <3>2, <3>3, <3>4
  <2>3. ASSUME NEW p \in Procs, Create(p, a)
        PROVE  arr'[a].bound = arr[a].bound
    <3>1. arr'[a] = [arr[a] EXCEPT !.created = TRUE, !.refs = 2] /\ arr[a] \in ArrayRec(a)
      BY <2>3, OthersAre DEF SyncType, ArrType
    <3> QED BY <3>1 DEF ArrayRec
  <2> QED BY <1>2, <2>1, <2>2, <2>3, Marks
<1>3. ASSUME NEW w \in Waiters, wait'[w].pc = "returned", NEW a, a = wait'[w].array
      PROVE  a \in Arrays /\ Settled(a)'
  <2>1. a \in Arrays
    BY <1>3, SyncTypeStep DEF SyncType, WaitType
  <2>2. wait \in [Waiters -> WaitRec]
    BY DEF SyncType, WaitType
  <2>3. CASE wait'[w] = wait[w]
    <3>1. Settled(a)
      BY <1>1, <1>3, <2>3 DEF ReturnedSettled
    <3> QED BY <2>1, <3>1, SettledStays
  <2>4. ASSUME NEW v \in Waiters, EndWait(v) \/ TimeOut(v) \/ \E b \in Arrays : StartWait(v, b)
        PROVE  wait'[w] = wait[w] \/ (EndWait(w) /\ wait[w].array = a)
    <3>1. CASE EndWait(v)
      BY <1>3, <2>2, <3>1 DEF EndWait, EndsWait, WaitRec
    <3>2. CASE TimeOut(v)
      BY <1>3, <2>2, <3>2 DEF TimeOut, EndsWait, WaitRec
    <3>3. ASSUME NEW b \in Arrays, StartWait(v, b)
          PROVE  wait'[w] = wait[w]
      BY <1>3, <2>2, <3>3 DEF StartWait
    <3> QED BY <2>4, <3>1, <3>2, <3>3
  <2>5. CASE EndWait(w) /\ wait[w].array = a
    <3>1. arr[a].bound
      BY <2>5 DEF EndWait, WaitOver
    <3>2. Settled(a)
      BY <1>1, <2>1, <3>1 DEF BoundSettled
    <3> QED BY <2>1, <3>2, SettledStays
  <2>6. (\E v \in Waiters : EndWait(v) \/ TimeOut(v) \/ \E b \in Arrays : StartWait(v, b)) \/ UNCHANGED wait
    BY CallStep DEF Next, vars, CloseFence, UserSignals
  <2> QED BY <2>1, <2>3, <2>4, <2>5, <2>6
<1>4. BoundSettled'
  BY <1>2 DEF BoundSettled
<1>5. ReturnedSettled'
  <2> SUFFICES ASSUME NEW w \in Waiters, wait'[w].pc = "returned" PROVE Settled(wait[w].array)'
    BY DEF ReturnedSettled
  <2>1. PICK a : a = wait'[w].array
    OBVIOUS
  <2>2. Settled(a)'
    BY <1>3, <2>1
  <2> QED BY <2>1, <2>2 DEF Settled, At, Dummies
<1> QED BY <1>4, <1>5

LEMMA FreshStep ==
  ASSUME SyncType, SyncInv, [Next]_vars
  PROVE  FreshAny'
<1> SUFFICES ASSUME NEW a \in Arrays \ All, Dummies(arr'[a]) # {}
             PROVE  arr'[a].callbacks = {} /\ (arr'[a].signalled \/ arr'[a].pending = 1)
  BY DEF FreshAny, Dummies
<1>1. /\ arr[a].callbacks = {} /\ (arr[a].signalled \/ arr[a].pending = 1)
      /\ Dummies(arr[a]) # {} /\ arr[a] \in ArrayRec(a)
      /\ arr[a].signalled => arr'[a].signalled
  BY Ages DEF SyncInv, FreshAny, Older, SyncType, ArrType
<1>2. CASE RefsOnly(arr[a], arr'[a])
  BY <1>1, <1>2 DEF RefsOnly
<1>3. ASSUME NEW p \in Procs, Release(p), ClearTracker(TRUE)
      PROVE  arr'[a].callbacks = {} /\ (arr'[a].signalled \/ arr'[a].pending = 1)
  <2>1. arr'[a] = Forget(arr[a], TRUE) \/ arr'[a] = arr[a]
    BY <1>3, ClearIs
  <2>2. CASE arr'[a] = Forget(arr[a], TRUE)
    <3>1. arr'[a].callbacks = arr[a].callbacks
      <4>1. PICK f \in BOOLEAN : arr'[a] = Forget(arr[a], f)
        BY <2>2
      <4> QED BY <1>1, <4>1, ForgetIs
    <3>2. arr[a].pending = 1 => arr'[a].signalled
      BY <1>1, <2>2, ForgottenSignals
    <3> QED BY <1>1, <3>1, <3>2
  <2> QED BY <1>1, <2>1, <2>2
<1>4. ASSUME NEW p \in Procs, Create(p, a)
      PROVE  arr'[a].callbacks = {} /\ (arr'[a].signalled \/ arr'[a].pending = 1)
  <2>1. arr'[a] = [arr[a] EXCEPT !.created = TRUE, !.refs = 2]
    BY <1>4, OthersAre
  <2> QED BY <1>1, <2>1 DEF ArrayRec
<1>5. ASSUME NEW p \in Procs, call[p].array = a, BinderActs(p)
      PROVE  arr'[a].callbacks = {} /\ (arr'[a].signalled \/ arr'[a].pending = 1)
  <2>1. CASE ReplaceChildren(p)
    <3>1. PICK x : x = call[p].array
      OBVIOUS
    <3>2. /\ arr'[x].callbacks = arr[x].callbacks /\ arr'[x].pending = arr[x].pending
          /\ arr'[x].signalled = arr[x].signalled
      BY <2>1, <3>1, ReplaceIs, ZenonT(30)
    <3> QED BY <1>1, <1>5, <3>1, <3>2
  <2>2. CASE Enable(p)
    BY <1>1, <1>5, <2>2 DEF Enable, At, SyncInv, BindersReplaced
  <2>3. CASE SetBound(p)
    <3>1. arr'[a] = [arr[a] EXCEPT !.bound = TRUE]
      BY <1>5, <2>3, OthersAre
    <3> QED BY <1>1, <3>1 DEF ArrayRec
  <2>4. CASE Fail(p)
    <3>1. arr'[a] = [arr[a] EXCEPT !.error = TRUE, !.signalled = TRUE]
      BY <1>5, <2>4, OthersAre
    <3> QED BY <1>1, <3>1 DEF ArrayRec
  <2> QED BY <1>5, <2>1, <2>2, <2>3, <2>4 DEF BinderActs
<1>6. ASSUME NEW u \in Users, UserSignals(u)
      PROVE  arr'[a].callbacks = {} /\ (arr'[a].signalled \/ arr'[a].pending = 1)
  <2>1. arr'[a] = CalledBack(arr[a], u)
    BY <1>6, UserIs
  <2>2. Hits(arr[a], u) = {}
    BY <1>1 DEF Hits
  <2>3. arr'[a].pending = arr[a].pending /\ arr'[a].callbacks = arr[a].callbacks
    BY <1>1, <2>1, <2>2, CalledBackNone
  <2> QED BY <1>1, <2>3
<1> QED BY <1>2, <1>3, <1>4, <1>5, <1>6, Touches

LEMMA ListedStep ==
  ASSUME SyncType, SyncInv, [Next]_vars
  PROVE  Listed'
<1> SUFFICES ASSUME NEW a \in Arrays \ All, arr'[a].created, ~arr'[a].signalled, Dummies(arr'[a]) # {}
             PROVE  a \in tracked' \/ \E p \in Procs : call'[p].array = a /\ call'[p].pc = "track"
  BY DEF Listed, Dummies, At
<1>1. /\ ~arr[a].signalled /\ Dummies(arr[a]) # {} /\ arr[a].pending = 1 /\ arr[a] \in ArrayRec(a)
      /\ call \in [Procs -> CallRec]
  BY Ages DEF SyncInv, FreshAny, Older, SyncType, ArrType, CallType
<1>2. ASSUME NEW p \in Procs, Create(p, a)
      PROVE  call'[p].array = a /\ call'[p].pc = "track"
  BY <1>1, <1>2 DEF Create, Begin, NoCall
<1>3. ASSUME NEW p \in Procs, SetBound(p), call[p].array = a
      PROVE  arr'[a].created = arr[a].created
  <2>1. arr'[a] = [arr[a] EXCEPT !.bound = TRUE]
    BY <1>3, OthersAre
  <2> QED BY <1>1, <2>1 DEF ArrayRec
<1>4. ASSUME a \in tracked, NEW force \in BOOLEAN, ClearTracker(force)
      PROVE  a \in tracked'
  <2> SUFFICES ASSUME Forgets(arr[a], force) PROVE FALSE
    BY <1>4, ClearIs
  <2>1. force = TRUE
    BY <1>1 DEF Forgets
  <2>2. arr'[a] = Forget(arr[a], TRUE)
    BY <1>4, <2>1, ClearIs
  <2>3. arr'[a].signalled
    BY <1>1, <2>2, ForgottenSignals
  <2> QED BY <2>3
<1>5. CASE a \in tracked
  <2>1. tracked \subseteq tracked' \/ \E force \in BOOLEAN : ClearTracker(force)
    BY DEF Next, vars, ProcStep, Open, Release, Create, StartBind, Track, CheckBind, ReplaceChildren,
           Enable, Prune, SetBound, Fail, PutFence, EndWait, TimeOut, EndsWait, StartWait, CloseFence,
           UserSignals
  <2> QED BY <1>4, <1>5, <2>1
<1>6. ASSUME NEW p \in Procs, call[p].array = a, call[p].pc = "track"
      PROVE  a \in tracked' \/ (call'[p].array = a /\ call'[p].pc = "track")
  <2>1. CASE call'[p] = call[p]
    BY <1>6, <2>1
  <2>2. CASE ProcStep(p) /\ call'[p] # call[p]
    <3>1. Track(p)
      BY <1>6, <2>2 DEF ProcStep, Open, Release, Create, Begin, StartBind, CheckBind, ReplaceChildren,
                        Enable, Prune, SetBound, Fail, PutFence, At
    <3> QED BY <1>6, <3>1 DEF Track
  <2> QED BY <2>1, <2>2, CallMoves
<1>7. CASE arr[a].created
  BY <1>1, <1>5, <1>6, <1>7 DEF SyncInv, Listed, At
<1> QED BY <1>2, <1>3, <1>7, Marks

LEMMA SyncInvStep ==
  ASSUME SyncType, SyncInv, [Next]_vars
  PROVE  SyncInv'
BY BindersStep, SettledStep, FreshStep, ListedStep DEF SyncInv

\* What a bind has settled stays settled, and the list holds every array of the
\* kind "any" that may still be bound.
THEOREM SyncInvariant == Spec => []SyncInv
<1>1. SyncType /\ SyncInv /\ [Next]_vars => SyncInv'
  BY SyncInvStep
<1> QED BY <1>1, InitInv, TypeInvariant, PTL DEF Spec

\* spec_sync_wait_bind_array returns with success only after a bind that put the
\* fences into the array, or that failed and has signalled it or is about to.
THEOREM BoundHolds == Spec => []BoundForWaiters
<1>1. SyncInv => BoundForWaiters
  BY DEF SyncInv, ReturnedSettled, Settled, BoundForWaiters
<1> QED BY <1>1, SyncInvariant, PTL

\* After the last spec_sync_release no array of the kind "any" is left that nobody
\* can bind or signal any more.
THEOREM NoneOrphaned == Spec => []NoOrphan
<1>1. SyncInv => NoOrphan
  BY DEF SyncInv, Listed, NoOrphan
<1> QED BY <1>1, SyncInvariant, PTL

-----------------------------------------------------------------------------
(* An array signals as its flags ask *)

StartCount(a) == IF a \in All THEN Size[a] ELSE 1

Binds(p, a) == call[p].array = a /\ call[p].pc \notin {"idle", "track"}
Creates(p, a) == call[p].array = a /\ call[p].pc = "track"
Checked == {"replace", "enable", "prune", "bound", "failBound", "fail", "failPrune"}

\* No signal of a fence has counted.
UncalledRec(a, r) == r.callbacks = {} /\ r.pending = StartCount(a) /\ ~r.signalled
Uncalled(a) == UncalledRec(a, arr[a])

\* A bound array has a callback for every fence that has not signalled, and waits
\* for as many signals, or for one.
ArmedRec(a, r, late) ==
    IF a \in All
    THEN /\ r.callbacks = Slots(a) \ late
         /\ r.pending = Cardinality(r.callbacks)
         /\ r.signalled <=> r.callbacks = {}
    ELSE IF late = {}
         THEN r.callbacks = Slots(a) /\ r.pending = 1 /\ ~r.signalled
         ELSE r.signalled
Armed(a) == ArmedRec(a, arr[a], Late(arr[a]))

\* A created array is tracked by its creator, once, and only binds of tracked arrays
\* get past the check, one at a time.
OneBind == \A p, q \in Procs : \A a \in Arrays : Binds(p, a) /\ Binds(q, a) => p = q
OneCreator ==
    \A p, q \in Procs : \A a \in Arrays :
        /\ Creates(p, a) => arr[a].created
        /\ Creates(p, a) /\ Creates(q, a) => p = q
Untouched ==
    \A a \in Arrays :
        ~arr[a].created \/ (\E p \in Procs : Creates(p, a)) =>
            a \notin tracked /\ Dummies(arr[a]) = Slots(a) /\ Uncalled(a)
PastCheck ==
    \A p, q \in Procs : \A a \in Arrays :
        Binds(p, a) /\ call[p].pc \in Checked => arr[a].created /\ ~Creates(q, a)
StillUnbound ==
    \A p \in Procs : \A a \in Arrays :
        Binds(p, a) /\ At(p, "replace") => Dummies(arr[a]) = Slots(a)

\* Until its bind has enabled signalling nothing has counted an array down, and
\* from then on every fence that signals does.
EnablesNow(a) == \E p \in Procs : Binds(p, a) /\ At(p, "enable")
CountsWell(a) ==
    \/ Uncalled(a) /\ Dummies(arr[a]) # {}
    \/ Uncalled(a) /\ Dummies(arr[a]) = {} /\ ~arr[a].enabled /\ EnablesNow(a)
    \/ Armed(a) /\ Dummies(arr[a]) = {} /\ ~EnablesNow(a)
Counts == \A a \in tracked : ~arr[a].error => CountsWell(a)

AskInv == OneBind /\ OneCreator /\ Untouched /\ PastCheck /\ StillUnbound /\ Counts

LEMMA Smallest ==
  ASSUME NEW S \in SUBSET Nat, S # {}
  PROVE  \E m \in S : \A k \in S : ~(k < m)
<1> DEFINE R == OpToRel(<, Nat)
<1>1. IsWellFoundedOn(R, Nat)
  BY NatLessThanWellFounded
<1>2. \A x, y \in Nat : x < y => <<x, y>> \in R
  BY Zenon DEF OpToRel
<1> HIDE DEF R
<1>3. PICK m \in S : \A k \in S : <<k, m>> \notin R
  BY <1>1, WFMin
<1> QED BY <1>2, <1>3

\* dma_fence_enable_sw_signaling reaches every fence of an array that waits for all,
\* and a signalled one, if any, of an array that waits for any.
LEMMA ReachedIs ==
  ASSUME NEW a \in Arrays, NEW r \in ArrayRec(a), UncalledRec(a, r)
  PROVE  /\ Late(r) \subseteq Slots(a) /\ Reached(r) \subseteq Slots(a)
         /\ a \in All \/ Late(r) = {} => Reached(r) = Slots(a)
         /\ Late(r) # {} => Reached(r) \cap Late(r) # {}
<1>1. Late(r) \subseteq Slots(a) /\ DOMAIN r.child = Slots(a) /\ Reached(r) \subseteq Slots(a)
  BY DEF Late, Reached, ArrayRec
<1>2. r.pending = StartCount(a) /\ StartCount(a) \in Nat \ {0} /\ Size[a] \in Nat \ {0}
  BY SizesFinite DEF StartCount, UncalledRec
<1>3. ASSUME NEW i \in Slots(a), Cardinality({j \in Late(r) : j < i}) < r.pending
      PROVE  i \in Reached(r)
  BY <1>1, <1>3 DEF Reached
<1>4. ASSUME NEW i \in Slots(a), {j \in Late(r) : j < i} = {}
      PROVE  i \in Reached(r)
  <2>1. Cardinality({j \in Late(r) : j < i}) = 0
    BY <1>4, FS_EmptySet
  <2> QED BY <1>2, <1>3, <2>1
<1>5. ASSUME a \in All, NEW i \in Slots(a)
      PROVE  i \in Reached(r)
  <2> DEFINE S == {j \in Late(r) : j < i}
  <2>1. i \in Nat /\ i - 1 \in Nat /\ i - 1 < Size[a]
    BY <1>2 DEF Slots
  <2>2. S \subseteq 1..(i - 1)
    BY <1>1, <2>1 DEF Slots
  <2>3. IsFiniteSet(1..(i - 1)) /\ Cardinality(1..(i - 1)) = i - 1
    BY <2>1, FS_Interval
  <2>4. Cardinality(S) <= i - 1
    BY <2>2, <2>3, FS_Subset
  <2>5. Cardinality(S) \in Nat
    BY <2>2, <2>3, FS_Subset, FS_CardinalityType
  <2>6. r.pending = Size[a]
    BY <1>2, <1>5 DEF StartCount
  <2>7. Cardinality(S) < r.pending
    BY <1>2, <2>1, <2>4, <2>5, <2>6
  <2> QED BY <1>3, <2>7
<1>6. ASSUME Late(r) # {}
      PROVE  Reached(r) \cap Late(r) # {}
  <2>1. Late(r) \in SUBSET Nat
    BY <1>1 DEF Slots
  <2>2. PICK m \in Late(r) : \A k \in Late(r) : ~(k < m)
    BY <1>6, <2>1, Smallest
  <2>3. {j \in Late(r) : j < m} = {}
    BY <2>2
  <2> QED BY <1>1, <1>4, <2>2, <2>3
<1>7. Late(r) = {} => Reached(r) = Slots(a)
  BY <1>1, <1>4
<1>8. a \in All => Reached(r) = Slots(a)
  BY <1>1, <1>5
<1> QED BY <1>1, <1>6, <1>7, <1>8

LEMMA ArmedByEnable ==
  ASSUME NEW a \in Arrays, NEW r \in ArrayRec(a), UncalledRec(a, r), ~r.enabled,
         NEW q, q = EnableSignaling(r)
  PROVE  ArmedRec(a, q, Late(q)) /\ Late(q) = Late(r)
<1> DEFINE late == Late(r)
<1>1. /\ late \subseteq Slots(a) /\ Reached(r) \subseteq Slots(a)
      /\ a \in All \/ late = {} => Reached(r) = Slots(a)
      /\ late # {} => Reached(r) \cap late # {}
  BY ReachedIs
<1>2. r.pending = StartCount(a) /\ ~r.signalled /\ Size[a] \in Nat \ {0}
  BY SizesFinite DEF UncalledRec
<1>3. PICK cb : cb = Reached(r) \ Late(r)
  OBVIOUS
<1>4. PICK k \in Nat : k = Cardinality(Reached(r) \cap Late(r)) /\ (k = 0 <=> Reached(r) \cap late = {})
  BY <1>1, SizesFinite
<1>5. PICK e \in ArrayRec(a) : Counted(a, r, e, cb, k, q)
  BY <1>2, <1>3, <1>4, EnableCounts
<1> USE DEF Counted
<1>6. q.child = r.child /\ q.callbacks = cb
  BY <1>5, CountDownKeeps
<1>7. q.pending = r.pending - k
  BY <1>5, CountDownIs
<1>8. q.signalled <=> r.pending > 0 /\ r.pending <= k
  <2>1. q.signalled <=> e.signalled \/ (e.pending > 0 /\ e.pending <= k)
    BY <1>5, CountDownIs
  <2> QED BY <1>2, <1>5, <2>1
<1>9. Late(q) = late
  BY <1>6 DEF Late
<1>10. CASE a \in All
  <2>1. Reached(r) = Slots(a) /\ r.pending = Size[a]
    BY <1>1, <1>2, <1>10 DEF StartCount
  <2>2. cb = Slots(a) \ late /\ k = Cardinality(Slots(a) \cap late)
    BY <1>3, <1>4, <2>1
  <2>3. IsFiniteSet(Slots(a)) /\ Cardinality(Slots(a)) = Size[a]
    BY SizesFinite
  <2>4. Cardinality(cb) = Size[a] - k
    <3>1. Cardinality(Slots(a) \ late) = Cardinality(Slots(a)) - Cardinality(Slots(a) \cap late)
      BY <2>3, FS_Difference
    <3> QED BY <2>2, <2>3, <3>1
  <2>5. Cardinality(cb) \in Nat /\ (Cardinality(cb) = 0 <=> cb = {})
    BY <1>1, <1>3, SizesFinite
  <2>6. q.pending = Cardinality(cb)
    BY <1>7, <2>1, <2>4
  <2>7. q.signalled <=> cb = {}
    <3>1. k <= Size[a] /\ (Size[a] <= k <=> Cardinality(cb) = 0)
      BY <1>2, <1>4, <2>4, <2>5
    <3> QED BY <1>2, <1>8, <2>1, <2>5, <3>1
  <2> QED BY <1>6, <1>9, <1>10, <2>2, <2>6, <2>7 DEF ArmedRec
<1>11. CASE a \notin All /\ late = {}
  <2>1. cb = Slots(a) /\ k = 0 /\ r.pending = 1
    BY <1>1, <1>2, <1>3, <1>4, <1>11 DEF StartCount
  <2>2. q.pending = 1 /\ ~q.signalled
    BY <1>7, <1>8, <2>1
  <2> QED BY <1>6, <1>9, <1>11, <2>1, <2>2 DEF ArmedRec
<1>12. CASE a \notin All /\ late # {}
  <2>1. k >= 1 /\ r.pending = 1
    BY <1>1, <1>2, <1>4, <1>12 DEF StartCount
  <2>2. q.signalled
    BY <1>8, <1>4, <2>1
  <2> QED BY <1>9, <1>12, <2>2 DEF ArmedRec
<1> QED BY <1>9, <1>10, <1>11, <1>12

LEMMA ArmedByUser ==
  ASSUME NEW a \in Arrays, NEW r \in ArrayRec(a), NEW late \in SUBSET Slots(a), ArmedRec(a, r, late),
         NEW u, NEW q, q = CalledBack(r, u),
         NEW same, same = {i \in Slots(a) : r.child[i] = u}
  PROVE  ArmedRec(a, q, late \cup same)
<1> DEFINE hits == Hits(r, u)
<1>1. PICK n \in Nat : n = Cardinality(hits)
  BY HitsFinite
<1>2. r.callbacks \subseteq Slots(a) /\ hits = r.callbacks \cap same /\ same \subseteq Slots(a)
  BY DEF Hits, ArrayRec
<1>3. q.callbacks = r.callbacks \ hits
  BY CalledBackLeft
<1>4. q.pending = r.pending - n
  BY <1>1, CalledBackIs
<1>5. q.signalled <=> r.signalled \/ (r.pending > 0 /\ r.pending <= n)
  BY <1>1, CalledBackIs
<1>6. CASE a \in All
  <2>1. /\ r.callbacks = Slots(a) \ late /\ r.pending = Cardinality(r.callbacks)
        /\ r.signalled <=> r.callbacks = {}
    BY <1>6 DEF ArmedRec
  <2>2. q.callbacks = Slots(a) \ (late \cup same)
    BY <1>2, <1>3, <2>1
  <2>3. /\ IsFiniteSet(r.callbacks) /\ Cardinality(r.callbacks) \in Nat
        /\ Cardinality(r.callbacks) = 0 <=> r.callbacks = {}
    BY <1>2, SizesFinite
  <2>4. Cardinality(q.callbacks) = Cardinality(r.callbacks) - n
    <3>1. r.callbacks \cap hits = hits
      BY <1>2
    <3> QED BY <1>1, <1>3, <2>3, <3>1, FS_Difference
  <2>5. Cardinality(q.callbacks) \in Nat /\ (Cardinality(q.callbacks) = 0 <=> q.callbacks = {})
    <3>1. q.callbacks \subseteq Slots(a)
      BY <2>2
    <3> QED BY <3>1, SizesFinite
  <2>6. q.pending = Cardinality(q.callbacks)
    BY <1>4, <2>1, <2>4
  <2>7. q.signalled <=> q.callbacks = {}
    <3>1. CASE r.callbacks = {}
      BY <1>3, <1>5, <2>1, <3>1
    <3>2. CASE r.callbacks # {}
      <4>1. ~r.signalled /\ r.pending > 0
        BY <2>1, <2>3, <3>2
      <4>2. r.pending <= n <=> Cardinality(q.callbacks) = 0
        BY <2>1, <2>3, <2>4, <2>5
      <4> QED BY <1>5, <2>5, <4>1, <4>2
    <3> QED BY <3>1, <3>2
  <2> QED BY <1>6, <2>2, <2>6, <2>7 DEF ArmedRec
<1>7. CASE a \notin All /\ late = {}
  <2>1. r.callbacks = Slots(a) /\ r.pending = 1 /\ ~r.signalled
    BY <1>7 DEF ArmedRec
  <2>2. hits = same
    BY <1>2, <2>1
  <2>3. CASE same = {}
    <3>1. /\ q.pending = r.pending /\ q.callbacks = r.callbacks /\ q.signalled = r.signalled
      BY <2>2, <2>3, CalledBackNone
    <3> QED BY <1>7, <2>1, <2>3, <3>1 DEF ArmedRec
  <2>4. CASE same # {}
    <3>1. n >= 1
      <4>1. Cardinality(same) # 0
        BY <1>2, <2>4, SizesFinite
      <4> QED BY <1>1, <2>2, <4>1
    <3>2. q.signalled
      BY <1>5, <2>1, <3>1
    <3> QED BY <1>7, <2>4, <3>2 DEF ArmedRec
  <2> QED BY <2>3, <2>4
<1>8. CASE a \notin All /\ late # {}
  <2>1. r.signalled
    BY <1>8 DEF ArmedRec
  <2>2. q.signalled
    BY <1>5, <2>1
  <2> QED BY <1>8, <2>2 DEF ArmedRec
<1> QED BY <1>6, <1>7, <1>8

\* What the call of a process can become.
LEMMA Goes ==
  ASSUME SyncType, NEW p \in Procs, ProcStep(p)
  PROVE  \/ UNCHANGED call
         \/ call'[p].pc = "idle"
         \/ \E a \in Arrays : Create(p, a) /\ call'[p].array = a /\ call'[p].pc = "track"
         \/ \E a \in Arrays : \E fds : StartBind(p, a, fds) /\ call'[p].array = a /\ call'[p].pc = "check"
         \/ /\ call'[p].array = call[p].array
            /\ call[p].pc \notin {"idle", "track"} /\ call'[p].pc \notin {"idle", "track"}
<1>1. call \in [Procs -> CallRec] /\ call[p] \in CallRec
  BY DEF SyncType, CallType
<1>2. ASSUME NEW pc, Goto(p, pc)
      PROVE  call'[p].pc = pc /\ call'[p].array = call[p].array
  BY <1>1, <1>2 DEF Goto, CallRec
<1>3. CASE Open(p) \/ Release(p)
  BY <1>3 DEF Open, Release
<1>4. CASE Track(p) \/ PutFence(p)
  BY <1>1, <1>4 DEF Track, PutFence, Return, NoCall
<1>5. ASSUME NEW a \in Arrays, Create(p, a)
      PROVE  call'[p].array = a /\ call'[p].pc = "track"
  BY <1>1, <1>5 DEF Create, Begin, NoCall
<1>6. ASSUME NEW a \in Arrays, NEW fds, StartBind(p, a, fds)
      PROVE  call'[p].array = a /\ call'[p].pc = "check"
  BY <1>1, <1>6 DEF StartBind, Begin
<1>7. CASE CheckBind(p) \/ ReplaceChildren(p) \/ Enable(p) \/ Prune(p) \/ SetBound(p) \/ Fail(p)
  <2>1. /\ call[p].pc \in {"check", "replace", "enable", "prune", "failPrune", "bound", "failBound", "fail"}
        /\ \E pc \in Checked \cup {"put"} : Goto(p, pc)
    BY <1>7 DEF CheckBind, ReplaceChildren, Enable, Prune, SetBound, Fail, At, Checked
  <2> QED BY <1>2, <2>1 DEF Checked
<1> QED BY <1>3, <1>4, <1>5, <1>6, <1>7 DEF ProcStep

LEMMA CreatesFrom ==
  ASSUME SyncType, [Next]_vars, NEW p \in Procs, NEW a \in Arrays,
         call'[p].array = a, call'[p].pc = "track"
  PROVE  Creates(p, a) \/ Create(p, a)
BY CallMoves, Goes DEF Creates

LEMMA BindsFrom ==
  ASSUME OneBinder, SyncType, [Next]_vars, NEW p \in Procs, NEW a \in Arrays,
         call'[p].array = a, call'[p].pc \notin {"idle", "track"}
  PROVE  \/ Binds(p, a)
         \/ ProcStep(p) /\ call'[p].pc = "check" /\ \A q \in Procs : ~Binds(q, a)
<1>1. ASSUME NEW fds, StartBind(p, a, fds), NEW q \in Procs
      PROVE  ~Binds(q, a)
  BY <1>1 DEF StartBind, Binding, Binds, At
<1>2. CASE call'[p] = call[p]
  BY <1>2 DEF Binds
<1>3. CASE ProcStep(p)
  BY <1>1, <1>3, Goes DEF Binds
<1> QED BY <1>2, <1>3, CallMoves

LEMMA OneBindStep ==
  ASSUME OneBinder, SyncType, OneBind, [Next]_vars
  PROVE  OneBind'
<1> SUFFICES ASSUME NEW p \in Procs, NEW q \in Procs, NEW a \in Arrays, p # q,
                    call'[p].array = a, call'[p].pc \notin {"idle", "track"},
                    call'[q].array = a, call'[q].pc \notin {"idle", "track"}
             PROVE  FALSE
  BY DEF OneBind, Binds
<1>1. ~(Binds(p, a) /\ Binds(q, a))
  BY DEF OneBind
<1>2. ASSUME NEW x \in Procs, NEW y \in Procs, x # y, ProcStep(x), call'[y].array = a,
             call'[y].pc \notin {"idle", "track"}
      PROVE  Binds(y, a)
  BY <1>2, CallStep DEF Binds
<1> QED BY <1>1, <1>2, BindsFrom

LEMMA OneCreatorStep ==
  ASSUME SyncType, OneCreator, [Next]_vars
  PROVE  OneCreator'
<1>1. ASSUME NEW p \in Procs, NEW a \in Arrays, call'[p].array = a, call'[p].pc = "track"
      PROVE  arr'[a].created
  <2>1. CASE Creates(p, a)
    BY <2>1, Ages DEF OneCreator, Older
  <2>2. CASE Create(p, a)
    <3>1. arr'[a] = [arr[a] EXCEPT !.created = TRUE, !.refs = 2] /\ arr[a] \in ArrayRec(a)
      BY <2>2, OthersAre DEF SyncType, ArrType
    <3> QED BY <3>1 DEF ArrayRec
  <2> QED BY <1>1, <2>1, <2>2, CreatesFrom
<1>2. ASSUME NEW p \in Procs, NEW q \in Procs, NEW a \in Arrays, p # q,
             call'[p].array = a, call'[p].pc = "track", call'[q].array = a, call'[q].pc = "track"
      PROVE  FALSE
  <2>1. ASSUME NEW x \in Procs, NEW y \in Procs, x # y, Create(x, a),
               call'[y].array = a, call'[y].pc = "track"
        PROVE  FALSE
    <3>1. ProcStep(x) /\ ~arr[a].created
      BY <2>1 DEF ProcStep, Create
    <3>2. call'[y] = call[y]
      BY <2>1, <3>1, CallStep
    <3> QED BY <2>1, <3>1, <3>2 DEF OneCreator, Creates
  <2>2. Creates(p, a) /\ Creates(q, a)
    BY <1>2, <2>1, CreatesFrom
  <2> QED BY <1>2, <2>2 DEF OneCreator
<1> QED BY <1>1, <1>2 DEF OneCreator, Creates

LEMMA TrackedFrom ==
  ASSUME SyncType, [Next]_vars, NEW a \in Arrays, a \in tracked', a \notin tracked
  PROVE  \E p \in Procs : Track(p) /\ Creates(p, a)
<1>1. tracked' \subseteq tracked \/ \E p \in Procs : Track(p)
  BY DEF Next, vars, ProcStep, Open, Release, Create, StartBind, CheckBind, ReplaceChildren,
         Enable, Prune, SetBound, Fail, PutFence, EndWait, TimeOut, EndsWait, StartWait, CloseFence,
         UserSignals, ClearTracker
<1> QED BY <1>1 DEF Track, Creates, At

LEMMA DummiesKept ==
  ASSUME SyncType, [Next]_vars, NEW a \in Arrays
  PROVE  \/ Dummies(arr'[a]) = Dummies(arr[a])
         \/ \E p \in Procs : call[p].array = a /\ ReplaceChildren(p)
<1>1. arr[a] \in ArrayRec(a)
  BY DEF SyncType, ArrType
<1>2. ASSUME arr'[a].child = arr[a].child
      PROVE  Dummies(arr'[a]) = Dummies(arr[a])
  BY <1>2 DEF Dummies
<1>3. CASE RefsOnly(arr[a], arr'[a])
  BY <1>3, OnlyRefs
<1>4. CASE ClearTracker(TRUE)
  BY <1>4, ClearIs
<1>5. ASSUME NEW p \in Procs, Create(p, a)
      PROVE  arr'[a].child = arr[a].child
  <2>1. arr'[a] = [arr[a] EXCEPT !.created = TRUE, !.refs = 2]
    BY <1>5, OthersAre
  <2> QED BY <1>1, <2>1 DEF ArrayRec
<1>6. ASSUME NEW p \in Procs, call[p].array = a, Enable(p)
      PROVE  arr'[a].child = arr[a].child
  <2>1. PICK r, q : r \in ArrayRec(a) /\ r = arr[a] /\ q = arr'[a] /\ q = EnableSignaling(r)
    BY <1>6, OthersAre
  <2>2. q = EnableSignaling(r) /\ r \in ArrayRec(a)
    BY <2>1
  <2>3. q.child = r.child
    BY <2>2, EnableIs
  <2> QED BY <2>1, <2>3
<1>7. ASSUME NEW p \in Procs, call[p].array = a, SetBound(p) \/ Fail(p)
      PROVE  arr'[a].child = arr[a].child
  <2>1. \/ arr'[a] = [arr[a] EXCEPT !.bound = TRUE]
        \/ arr'[a] = [arr[a] EXCEPT !.error = TRUE, !.signalled = TRUE]
    BY <1>7, OthersAre
  <2> QED BY <1>1, <2>1 DEF ArrayRec
<1>8. ASSUME NEW u \in Users, UserSignals(u)
      PROVE  Dummies(arr'[a]) = Dummies(arr[a])
  BY <1>8, UserIs
<1> QED BY <1>2, <1>3, <1>4, <1>5, <1>6, <1>7, <1>8, Touches DEF BinderActs

LEMMA NotActing ==
  ASSUME SyncType, PastCheck, NEW a \in Arrays, ~arr[a].created \/ \E q \in Procs : Creates(q, a),
         NEW p \in Procs, call[p].array = a
  PROVE  ~BinderActs(p)
<1> SUFFICES ASSUME BinderActs(p) PROVE FALSE
  OBVIOUS
<1>1. call[p].pc \in {"replace", "enable", "bound", "failBound", "fail"}
  BY DEF BinderActs, ReplaceChildren, Enable, SetBound, Fail, At
<1>2. Binds(p, a) /\ call[p].pc \in Checked
  BY <1>1 DEF Binds, Checked
<1> QED BY <1>2 DEF PastCheck

LEMMA UntouchedStep ==
  ASSUME SyncType, AskInv, [Next]_vars
  PROVE  Untouched'
<1> SUFFICES ASSUME NEW a \in Arrays,
                    ~arr'[a].created \/ \E p \in Procs : call'[p].array = a /\ call'[p].pc = "track"
             PROVE  a \notin tracked' /\ Dummies(arr'[a]) = Slots(a) /\ UncalledRec(a, arr'[a])
  BY DEF Untouched, Uncalled, Creates, Dummies, UncalledRec
<1>1. OneCreator /\ Untouched /\ PastCheck /\ arr[a] \in ArrayRec(a)
  BY DEF AskInv, SyncType, ArrType
<1>2. ~arr[a].created \/ \E p \in Procs : Creates(p, a)
  <2>1. arr[a].created => arr'[a].created
    BY Ages DEF Older
  <2>2. ASSUME NEW p \in Procs, Create(p, a)
        PROVE  ~arr[a].created
    BY <2>2 DEF Create
  <2> QED BY <2>1, <2>2, CreatesFrom
<1>3. a \notin tracked /\ Dummies(arr[a]) = Slots(a) /\ UncalledRec(a, arr[a])
  BY <1>1, <1>2 DEF Untouched, Uncalled
<1>4. a \notin tracked'
  <2> SUFFICES ASSUME a \in tracked' PROVE FALSE
    OBVIOUS
  <2>1. PICK p \in Procs : Track(p) /\ Creates(p, a)
    BY <1>3, TrackedFrom
  <2>2. arr' = arr /\ call'[p].pc = "idle" /\ arr[a].created
    BY <1>1, <2>1 DEF Track, Return, NoCall, SyncType, CallType, OneCreator
  <2>3. PICK q \in Procs : call'[q].array = a /\ call'[q].pc = "track"
    BY <2>2
  <2>4. Creates(q, a)
    BY <2>2, <2>3, CreatesFrom DEF Create
  <2> QED BY <1>1, <2>1, <2>2, <2>3, <2>4 DEF OneCreator
<1>5. CASE RefsOnly(arr[a], arr'[a])
  <2>1. Dummies(arr'[a]) = Dummies(arr[a])
    BY <1>5, OnlyRefs
  <2> QED BY <1>3, <1>4, <1>5, <2>1 DEF RefsOnly, UncalledRec
<1>6. ASSUME NEW p \in Procs, Create(p, a)
      PROVE  Dummies(arr'[a]) = Slots(a) /\ UncalledRec(a, arr'[a])
  <2>1. arr'[a] = [arr[a] EXCEPT !.created = TRUE, !.refs = 2]
    BY <1>6, OthersAre
  <2>2. /\ arr'[a].child = arr[a].child /\ arr'[a].callbacks = arr[a].callbacks
        /\ arr'[a].pending = arr[a].pending /\ arr'[a].signalled = arr[a].signalled
    BY <1>1, <2>1 DEF ArrayRec
  <2> QED BY <1>3, <2>2 DEF Dummies, UncalledRec
<1>7. ASSUME NEW u \in Users, UserSignals(u)
      PROVE  Dummies(arr'[a]) = Slots(a) /\ UncalledRec(a, arr'[a])
  <2>1. arr'[a] = CalledBack(arr[a], u) /\ Dummies(arr'[a]) = Dummies(arr[a])
    BY <1>7, UserIs
  <2>2. Hits(arr[a], u) = {}
    BY <1>3 DEF Hits, UncalledRec
  <2>3. /\ arr'[a].pending = arr[a].pending /\ arr'[a].callbacks = arr[a].callbacks
        /\ arr'[a].signalled = arr[a].signalled
    BY <1>1, <2>1, <2>2, CalledBackNone
  <2> QED BY <1>3, <2>1, <2>3 DEF UncalledRec
<1>8. ASSUME NEW p \in Procs, call[p].array = a
      PROVE  ~BinderActs(p)
  BY <1>1, <1>2, <1>8, NotActing
<1> QED BY <1>3, <1>4, <1>5, <1>6, <1>7, <1>8, Touches

LEMMA ToReplace ==
  ASSUME SyncType, NEW p \in Procs, CheckBind(p), call'[p].pc = "replace"
  PROVE  call[p].array \in tracked /\ Unbound(call[p].array) /\ arr' = arr
<1>1. ~Goto(p, "put")
  BY DEF SyncType, CallType, CallRec, Goto
<1> QED BY <1>1 DEF CheckBind

LEMMA PastCheckStep ==
  ASSUME SyncType, AskInv, [Next]_vars
  PROVE  PastCheck'
<1> SUFFICES ASSUME NEW p \in Procs, NEW q \in Procs, NEW a \in Arrays,
                    call'[p].array = a, call'[p].pc \in Checked
             PROVE  arr'[a].created /\ ~(call'[q].array = a /\ call'[q].pc = "track")
  BY DEF PastCheck, Binds, Creates, Checked
<1>1. Untouched /\ PastCheck
  BY DEF AskInv
<1>2. arr[a].created /\ ~Creates(q, a)
  <2>1. CASE call[p].array = a /\ call[p].pc \in Checked
    BY <1>1, <2>1 DEF PastCheck, Binds, Checked
  <2>2. CASE call'[p] = call[p]
    BY <2>1, <2>2
  <2>3. CASE ProcStep(p) /\ call[p].array = a /\ CheckBind(p) /\ call'[p].pc = "replace"
    BY <1>1, <2>3, ToReplace DEF Untouched
  <2>4. CASE ProcStep(p) /\ ~(CheckBind(p) /\ call'[p].pc = "replace") /\ call'[p] # call[p]
    <3>1. PICK c : c = call'[p].pc
      OBVIOUS
    <3>2. c \in Checked /\ c \notin {"track", "check", "idle", "put"}
      BY <3>1 DEF Checked
    <3>3. /\ call'[p].array = call[p].array
          /\ ReplaceChildren(p) \/ Enable(p) \/ Prune(p) \/ SetBound(p) \/ Fail(p)
      BY <2>4, <3>1, <3>2, Moves
    <3>4. call[p].pc \in Checked
      BY <3>3 DEF ReplaceChildren, Enable, Prune, SetBound, Fail, At, Checked
    <3> QED BY <2>1, <3>3, <3>4
  <2>5. CASE ProcStep(p) /\ CheckBind(p) /\ call'[p].pc = "replace"
    <3>1. call[p].array = a
      BY <2>5 DEF CheckBind, Goto, SyncType, CallType, CallRec
    <3> QED BY <2>3, <2>5, <3>1
  <2> QED BY <2>2, <2>4, <2>5, CallMoves
<1>3. arr'[a].created
  BY <1>2, Ages DEF Older
<1>4. ~Create(q, a)
  BY <1>2 DEF Create
<1> QED BY <1>2, <1>3, <1>4, CreatesFrom

LEMMA StillUnboundStep ==
  ASSUME SyncType, AskInv, [Next]_vars
  PROVE  StillUnbound'
<1> SUFFICES ASSUME NEW p \in Procs, NEW a \in Arrays, call'[p].array = a, call'[p].pc = "replace"
             PROVE  Dummies(arr'[a]) = Slots(a)
  BY DEF StillUnbound, Binds, At, Dummies
<1>1. OneBind /\ StillUnbound
  BY DEF AskInv
<1>2. CASE call'[p] = call[p]
  <2>1. Binds(p, a) /\ Dummies(arr[a]) = Slots(a)
    BY <1>1, <1>2 DEF Binds, StillUnbound, At
  <2>2. ASSUME NEW q \in Procs, call[q].array = a, ReplaceChildren(q)
        PROVE  FALSE
    <3>1. Binds(q, a)
      BY <2>2 DEF ReplaceChildren, At, Binds
    <3>2. q = p
      BY <1>1, <2>1, <3>1 DEF OneBind
    <3>3. call'[p].pc # "replace"
      BY <2>2, <3>2 DEF ReplaceChildren, Goto, SyncType, CallType, CallRec
    <3> QED BY <3>3
  <2> QED BY <2>1, <2>2, DummiesKept
<1>3. CASE ProcStep(p) /\ call'[p] # call[p]
  <2>1. PICK c : c = call'[p].pc
    OBVIOUS
  <2>2. CheckBind(p) /\ call'[p].array = call[p].array
    BY <1>3, <2>1, Moves
  <2> QED BY <2>2, ToReplace DEF Unbound
<1> QED BY <1>2, <1>3, CallMoves

LEMMA EnableKept ==
  ASSUME SyncType, [Next]_vars, NEW a \in Arrays,
         \A p \in Procs : call[p].array = a => ~ReplaceChildren(p) /\ ~Enable(p)
  PROVE  EnablesNow(a)' <=> EnablesNow(a)
<1>1. ASSUME NEW p \in Procs, call'[p].array = a, call'[p].pc = "enable"
      PROVE  call[p].array = a /\ call[p].pc = "enable"
  <2>1. CASE call'[p] = call[p]
    BY <1>1, <2>1
  <2>2. CASE ProcStep(p) /\ call'[p] # call[p]
    <3>1. PICK c : c = call'[p].pc
      OBVIOUS
    <3>2. call'[p].array = call[p].array /\ ReplaceChildren(p)
      BY <1>1, <2>2, <3>1, Moves
    <3> QED BY <1>1, <3>2
  <2> QED BY <2>1, <2>2, CallMoves
<1>2. ASSUME NEW p \in Procs, call[p].array = a, call[p].pc = "enable"
      PROVE  call'[p] = call[p]
  <2>1. ASSUME ProcStep(p)
        PROVE  UNCHANGED call
    <3>1. ~Enable(p)
      BY <1>2
    <3> QED BY <1>2, <2>1, <3>1 DEF ProcStep, Open, Release, Create, Begin, StartBind, Track, CheckBind,
               ReplaceChildren, Prune, SetBound, Fail, PutFence, At
  <2> QED BY <2>1, CallMoves
<1>3. EnablesNow(a)' => EnablesNow(a)
  BY <1>1 DEF EnablesNow, Binds, At
<1>4. EnablesNow(a) => EnablesNow(a)'
  BY <1>2 DEF EnablesNow, Binds, At
<1> QED BY <1>3, <1>4

\* What an array counts depends on nothing else of it.
LEMMA CountsKept ==
  ASSUME NEW a \in Arrays, CountsWell(a), UNCHANGED signalled, EnablesNow(a)' <=> EnablesNow(a),
         arr'[a].child = arr[a].child, arr'[a].callbacks = arr[a].callbacks,
         arr'[a].pending = arr[a].pending, arr'[a].signalled = arr[a].signalled,
         arr'[a].enabled = arr[a].enabled
  PROVE  CountsWell(a)'
<1>1. Dummies(arr[a])' = Dummies(arr[a]) /\ Late(arr[a])' = Late(arr[a])
  BY DEF Dummies, Late
<1>2. Uncalled(a)' <=> Uncalled(a)
  BY DEF Uncalled, UncalledRec
<1>3. Armed(a)' <=> Armed(a)
  BY <1>1 DEF Armed, ArmedRec
<1> HIDE DEF EnablesNow, Uncalled, Armed
<1> QED BY <1>1, <1>2, <1>3 DEF CountsWell

LEMMA CountsTracked ==
  ASSUME SyncType, AskInv, [Next]_vars, NEW a \in Arrays, a \in tracked', a \notin tracked
  PROVE  CountsWell(a)'
<1>1. PICK p \in Procs : Track(p) /\ Creates(p, a)
  BY TrackedFrom
<1>2. Dummies(arr[a]) = Slots(a) /\ Uncalled(a) /\ arr' = arr
  BY <1>1 DEF AskInv, Untouched, Track
<1>3. Slots(a) # {}
  <2>1. 1 \in Slots(a)
    BY SpecSyncAssumption DEF Slots
  <2> QED BY <2>1
<1>4. Dummies(arr[a])' = Slots(a) /\ Uncalled(a)'
  BY <1>2 DEF Dummies, Uncalled, UncalledRec
<1> QED BY <1>3, <1>4 DEF CountsWell

LEMMA CountsReplaced ==
  ASSUME SyncType, AskInv, [Next]_vars, NEW a \in Arrays, CountsWell(a),
         NEW p \in Procs, ReplaceChildren(p), call[p].array = a
  PROVE  CountsWell(a)'
<1>1. Dummies(arr[a]) = Slots(a) /\ call[p] \in CallRec /\ call \in [Procs -> CallRec]
  BY DEF AskInv, StillUnbound, Binds, At, ReplaceChildren, SyncType, CallType
<1>2. Slots(a) # {}
  <2>1. 1 \in Slots(a)
    BY SpecSyncAssumption DEF Slots
  <2> QED BY <2>1
<1>3. Uncalled(a)
  BY <1>1, <1>2 DEF CountsWell
<1>4. PICK x : x = call[p].array
  OBVIOUS
<1>5. /\ arr'[x].callbacks = arr[x].callbacks /\ arr'[x].pending = arr[x].pending
      /\ arr'[x].signalled = arr[x].signalled
  BY <1>4, ReplaceIs, ZenonT(30)
<1>6. Dummies(arr'[x]) = Dummies(arr[x]) \ Good(p) /\ Good(p) \subseteq Slots(x)
  BY <1>4, ReplaceIs, ZenonT(30)
<1>7. arr'[x].enabled <=> arr[x].enabled /\ Good(p) # Slots(x)
  BY <1>4, ReplaceIs, ZenonT(30)
<1>8. call' = [call EXCEPT ![p].pc = IF Good(p) = Slots(x) THEN "enable" ELSE "failBound"]
  BY <1>4, ReplaceIs, ZenonT(30)
<1>9. Uncalled(a)'
  BY <1>3, <1>4, <1>5 DEF Uncalled, UncalledRec
<1>10. Dummies(arr[a])' = Dummies(arr'[a])
  BY DEF Dummies
<1>11. CASE Good(p) = Slots(a)
  <2>1. Dummies(arr'[a]) = {} /\ ~arr'[a].enabled
    BY <1>1, <1>4, <1>6, <1>7, <1>11
  <2>2. call'[p].array = a /\ call'[p].pc = "enable"
    BY <1>1, <1>4, <1>8, <1>11 DEF CallRec
  <2>3. EnablesNow(a)'
    BY <2>2 DEF EnablesNow, Binds, At
  <2> QED BY <1>9, <1>10, <2>1, <2>3 DEF CountsWell
<1>12. CASE Good(p) # Slots(a)
  <2>1. Dummies(arr'[a]) # {}
    BY <1>1, <1>4, <1>6, <1>12
  <2> QED BY <1>9, <1>10, <2>1 DEF CountsWell
<1> QED BY <1>11, <1>12

LEMMA CountsEnabled ==
  ASSUME SyncType, SyncInv, AskInv, [Next]_vars, NEW a \in Arrays, CountsWell(a), UNCHANGED signalled,
         NEW p \in Procs, Enable(p), call[p].array = a
  PROVE  CountsWell(a)'
<1>1. call[p].pc = "enable" /\ call \in [Procs -> CallRec] /\ call[p] \in CallRec
  BY DEF Enable, At, SyncType, CallType
<1>2. Dummies(arr[a]) = {} /\ EnablesNow(a)
  BY <1>1 DEF SyncInv, BindersReplaced, EnablesNow, Binds, At
<1>3. Uncalled(a) /\ ~arr[a].enabled
  BY <1>2 DEF CountsWell
<1>4. PICK r, q : r \in ArrayRec(a) /\ r = arr[a] /\ q = arr'[a] /\ q = EnableSignaling(r)
  BY OthersAre
<1>5. r \in ArrayRec(a) /\ UncalledRec(a, r) /\ ~r.enabled /\ q = EnableSignaling(r)
  BY <1>3, <1>4 DEF Uncalled
<1>6. ArmedRec(a, q, Late(q))
  BY <1>5, ArmedByEnable
<1>7. q.child = r.child
  BY <1>5, EnableIs
<1>8. Late(arr[a])' = Late(q)
  BY <1>4 DEF Late
<1>9. Armed(a)'
  BY <1>4, <1>6, <1>8 DEF Armed, ArmedRec
<1>10. Dummies(arr[a])' = {}
  BY <1>2, <1>4, <1>7 DEF Dummies
<1>11. ~EnablesNow(a)'
  <2> SUFFICES ASSUME NEW x \in Procs, call'[x].array = a, call'[x].pc = "enable" PROVE FALSE
    BY DEF EnablesNow, Binds, At
  <2>1. call' = [call EXCEPT ![p].pc = "prune"]
    BY DEF Enable, Goto
  <2>2. call'[p].pc = "prune"
    BY <1>1, <2>1 DEF CallRec
  <2>3. x # p /\ call[x] = call'[x]
    BY <1>1, <2>1, <2>2
  <2>4. Binds(x, a) /\ Binds(p, a)
    BY <1>1, <2>3 DEF Binds
  <2> QED BY <2>3, <2>4 DEF AskInv, OneBind
<1> QED BY <1>9, <1>10, <1>11 DEF CountsWell

LEMMA CountsSignalled ==
  ASSUME SyncType, NEW a \in Arrays, CountsWell(a), NEW u \in Users, UserSignals(u)
  PROVE  CountsWell(a)'
<1>1. arr[a] \in ArrayRec(a) /\ UNCHANGED call /\ signalled' = signalled \cup {u}
  BY DEF SyncType, ArrType, UserSignals
<1>2. arr'[a] = CalledBack(arr[a], u) /\ Dummies(arr'[a]) = Dummies(arr[a])
  BY UserIs
<1>3. arr'[a].child = arr[a].child /\ arr'[a].enabled = arr[a].enabled
  BY <1>1, <1>2, CalledBackKeeps
<1>4. EnablesNow(a)' <=> EnablesNow(a)
  BY <1>1 DEF EnablesNow, Binds, At
<1>5. Dummies(arr[a])' = Dummies(arr[a])
  BY <1>2 DEF Dummies
<1>6. ASSUME Uncalled(a)
      PROVE  Uncalled(a)'
  <2>1. Hits(arr[a], u) = {}
    BY <1>6 DEF Hits, Uncalled, UncalledRec
  <2>2. /\ arr'[a].pending = arr[a].pending /\ arr'[a].callbacks = arr[a].callbacks
        /\ arr'[a].signalled = arr[a].signalled
    BY <1>1, <1>2, <2>1, CalledBackNone
  <2> QED BY <1>6, <2>2 DEF Uncalled, UncalledRec
<1>7. ASSUME Armed(a)
      PROVE  Armed(a)'
  <2>1. PICK same : same = {i \in Slots(a) : arr[a].child[i] = u}
    OBVIOUS
  <2>2. PICK late \in SUBSET Slots(a) : late = Late(arr[a])
    BY <1>1 DEF Late, ArrayRec
  <2>3. PICK q : q = CalledBack(arr[a], u)
    OBVIOUS
  <2>4. ArmedRec(a, arr[a], late)
    BY <1>7, <2>2 DEF Armed
  <2>5. ArmedRec(a, q, late \cup same)
    BY <1>1, <2>1, <2>3, <2>4, ArmedByUser
  <2>6. Late(arr[a])' = late \cup same
    BY <1>1, <1>3, <2>1, <2>2 DEF Late, ArrayRec
  <2> QED BY <1>2, <2>3, <2>5, <2>6 DEF Armed, ArmedRec
<1> HIDE DEF EnablesNow, Uncalled, Armed
<1> QED BY <1>3, <1>4, <1>5, <1>6, <1>7 DEF CountsWell

LEMMA CountsStep ==
  ASSUME SyncType, SyncInv, AskInv, [Next]_vars
  PROVE  Counts'
<1> SUFFICES ASSUME NEW a \in Arrays, a \in tracked', ~arr'[a].error
             PROVE  CountsWell(a)'
  BY SyncTypeStep DEF Counts, SyncType, RestType
<1>1. arr[a] \in ArrayRec(a) /\ ~arr[a].error
  BY Ages DEF Older, SyncType, ArrType
<1>2. CASE a \notin tracked
  BY <1>2, CountsTracked
<1>3. CASE a \in tracked
  <2>1. CountsWell(a)
    BY <1>1, <1>3 DEF AskInv, Counts
  <2>2. CASE \E u \in Users : UserSignals(u)
    BY <2>1, <2>2, CountsSignalled
  <2>3. CASE \E p \in Procs : ReplaceChildren(p) /\ call[p].array = a
    BY <2>1, <2>3, CountsReplaced
  <2>4. CASE UNCHANGED signalled /\ \E p \in Procs : Enable(p) /\ call[p].array = a
    BY <2>1, <2>4, CountsEnabled
  <2>5. CASE /\ UNCHANGED signalled /\ ~\E u \in Users : UserSignals(u)
             /\ \A p \in Procs : call[p].array = a => ~ReplaceChildren(p) /\ ~Enable(p)
    <3>1. EnablesNow(a)' <=> EnablesNow(a)
      BY <2>5, EnableKept
    <3>2. ASSUME arr'[a].child = arr[a].child, arr'[a].callbacks = arr[a].callbacks,
                 arr'[a].pending = arr[a].pending, arr'[a].signalled = arr[a].signalled,
                 arr'[a].enabled = arr[a].enabled
          PROVE  CountsWell(a)'
      BY <2>1, <2>5, <3>1, <3>2, CountsKept
    <3>3. CASE RefsOnly(arr[a], arr'[a])
      BY <3>2, <3>3 DEF RefsOnly
    <3>4. ~ClearTracker(TRUE)
      <4>1. ASSUME ClearTracker(TRUE)
            PROVE  a \notin tracked'
        BY <4>1, ClearIs DEF Forgets
      <4> QED BY <4>1
    <3>5. ~\E p \in Procs : Create(p, a)
      BY <1>3 DEF Create, AskInv, Untouched
    <3>6. ASSUME NEW p \in Procs, call[p].array = a, SetBound(p)
          PROVE  CountsWell(a)'
      <4>1. arr'[a] = [arr[a] EXCEPT !.bound = TRUE]
        BY <3>6, OthersAre
      <4>2. /\ arr'[a].child = arr[a].child /\ arr'[a].callbacks = arr[a].callbacks
            /\ arr'[a].pending = arr[a].pending /\ arr'[a].signalled = arr[a].signalled
            /\ arr'[a].enabled = arr[a].enabled
        BY <1>1, <4>1 DEF ArrayRec
      <4> QED BY <3>2, <4>2
    <3>7. ASSUME NEW p \in Procs, call[p].array = a, Fail(p)
          PROVE  FALSE
      <4>1. arr'[a] = [arr[a] EXCEPT !.error = TRUE, !.signalled = TRUE]
        BY <3>7, OthersAre
      <4> QED BY <1>1, <4>1 DEF ArrayRec
    <3> QED BY <2>5, <3>3, <3>4, <3>5, <3>6, <3>7, Touches DEF BinderActs
  <2> QED BY <2>2, <2>3, <2>4, <2>5, SignalsKept
<1> QED BY <1>2, <1>3

LEMMA InitAsk == Init => AskInv
<1> SUFFICES ASSUME Init PROVE AskInv
  OBVIOUS
<1>1. /\ \A a \in Arrays : arr[a] = Uncreated(a)
      /\ \A p \in Procs : call[p].pc = "idle" /\ tracked = {}
  BY DEF Init, NoCall
<1>2. ASSUME NEW a \in Arrays
      PROVE  Dummies(Uncreated(a)) = Slots(a) /\ UncalledRec(a, Uncreated(a))
  BY DEF Uncreated, Dummies, UncalledRec, StartCount
<1>3. Untouched
  BY <1>1, <1>2 DEF Init, Untouched, Uncalled
<1> QED BY <1>1, <1>3 DEF Init, AskInv, OneBind, OneCreator, PastCheck, StillUnbound, Counts, Binds,
                         Creates, Checked

\* Unless two binds of an array overlap, a listed array is untouched, or about to have
\* its signalling enabled, or counts exactly what its flags ask.
THEOREM AskInvariant ==
  ASSUME OneBinder
  PROVE  Spec => []AskInv
<1>1. SyncType /\ SyncInv /\ AskInv /\ [Next]_vars => AskInv'
  BY OneBindStep, OneCreatorStep, UntouchedStep, PastCheckStep, StillUnboundStep, CountsStep DEF AskInv
<1> QED BY <1>1, InitAsk, TypeInvariant, SyncInvariant, PTL DEF Spec

\* spec_sync_create_array's flags: unless two binds of an array overlap, a bound array
\* signals with all its fences, or with any, whenever they signal.
THEOREM SignalsAsked ==
  ASSUME OneBinder
  PROVE  Spec => []SignalsAsAsked
<1>1. ASSUME SyncType, AskInv
      PROVE  SignalsAsAsked
  <2> SUFFICES ASSUME NEW a \in tracked, Dummies(arr[a]) = {}, ~Binding(a), ~arr[a].error
               PROVE  arr[a].signalled <=>
                        IF a \in All THEN \A i \in Slots(a) : arr[a].child[i] \in signalled
                                    ELSE \E i \in Slots(a) : arr[a].child[i] \in signalled
    BY DEF SignalsAsAsked
  <2>1. a \in Arrays /\ DOMAIN arr[a].child = Slots(a) /\ arr[a].callbacks \subseteq Slots(a)
    BY <1>1 DEF SyncType, RestType, ArrType, ArrayRec
  <2>2. ~EnablesNow(a)
    BY DEF EnablesNow, Binding, Binds, At
  <2>3. Armed(a)
    BY <1>1, <2>2 DEF AskInv, Counts, CountsWell
  <2>4. Late(arr[a]) = {i \in Slots(a) : arr[a].child[i] \in signalled}
    BY <2>1 DEF Late
  <2>5. CASE a \in All
    <3>1. arr[a].signalled <=> Slots(a) \ Late(arr[a]) = {}
      BY <2>3, <2>5 DEF Armed, ArmedRec
    <3> QED BY <2>4, <2>5, <3>1
  <2>6. CASE a \notin All
    <3>1. arr[a].signalled <=> Late(arr[a]) # {}
      BY <2>3, <2>6 DEF Armed, ArmedRec
    <3> QED BY <2>4, <2>6, <3>1
  <2> QED BY <2>5, <2>6
<1> QED BY <1>1, AskInvariant, TypeInvariant, PTL

-----------------------------------------------------------------------------
(* The references of an array are those of its users *)

Callers(c, a) == {p \in Procs : c[p].array = a}
WaitFor(a) == [pc |-> "waiting", array |-> a]
Waiting(w, a) == {t \in Waiters : w[t] = WaitFor(a)}
One(b) == IF b THEN 1 ELSE 0

CountOf(a) == One(a \in tracked) + One(a \in fdOpen) + Cardinality(Callers(call, a))
              + Cardinality(arr[a].callbacks) + Cardinality(Waiting(wait, a))

RefsCounted == \A a \in Arrays : arr[a].refs = CountOf(a)
\* Callbacks come with the signalling that a bind enables.
Unarmed == \A a \in Arrays : Dummies(arr[a]) # {} \/ ~arr[a].enabled => arr[a].callbacks = {}
NewUnused == \A a \in Arrays : ~arr[a].created =>
                a \notin fdOpen /\ Callers(call, a) = {} /\ Waiting(wait, a) = {}

RefsInv == RefsCounted /\ Unarmed /\ NewUnused

\* What exists where a condition holds counts for one there.
LEMMA OneOf ==
  ASSUME NEW x, NEW b, NEW s, b => s = {x}, ~b => s = {}
  PROVE  Cardinality(s) = One(b)
<1>1. CASE b
  BY <1>1, FS_Singleton DEF One
<1>2. CASE ~b
  BY <1>2, FS_EmptySet DEF One
<1> QED BY <1>1, <1>2

\* Two sets that differ in one element at most.
LEMMA OneApart ==
  ASSUME NEW U, IsFiniteSet(U), NEW S \in SUBSET U, NEW T \in SUBSET U, NEW p \in U,
         \A q \in U : q # p => (q \in S <=> q \in T)
  PROVE  /\ Cardinality(S) \in Nat /\ Cardinality(T) \in Nat
         /\ p \in S /\ p \notin T => Cardinality(T) = Cardinality(S) - 1
         /\ p \notin S /\ p \in T => Cardinality(T) = Cardinality(S) + 1
         /\ (p \in S <=> p \in T) => T = S /\ Cardinality(T) = Cardinality(S)
<1>1. IsFiniteSet(S) /\ IsFiniteSet(T) /\ Cardinality(S) \in Nat /\ Cardinality(T) \in Nat
  BY FS_Subset, FS_CardinalityType
<1>2. ASSUME p \in S, p \notin T
      PROVE  Cardinality(T) = Cardinality(S) - 1
  <2>1. T = S \ {p}
    BY <1>2
  <2> QED BY <1>1, <1>2, <2>1, FS_RemoveElement
<1>3. ASSUME p \notin S, p \in T
      PROVE  Cardinality(T) = Cardinality(S) + 1
  <2>1. T = S \cup {p}
    BY <1>3
  <2> QED BY <1>1, <1>3, <2>1, FS_AddElement
<1>4. ASSUME p \in S <=> p \in T
      PROVE  T = S
  BY <1>4
<1> QED BY <1>1, <1>2, <1>3, <1>4

\* The counts of the users are numbers, and not zero where there is one.
LEMMA CountTypes ==
  ASSUME SyncType, NEW a \in Arrays
  PROVE  /\ One(a \in tracked) \in Nat /\ One(a \in fdOpen) \in Nat
         /\ Cardinality(Callers(call, a)) \in Nat /\ Cardinality(Waiting(wait, a)) \in Nat
         /\ Cardinality(arr[a].callbacks) \in Nat /\ CountOf(a) \in Nat
         /\ a \in tracked \cup fdOpen => CountOf(a) > 0
         /\ Callers(call, a) # {} \/ Waiting(wait, a) # {} => CountOf(a) > 0
<1>1. One(a \in tracked) \in Nat /\ One(a \in fdOpen) \in Nat
  BY DEF One
<1>2. IsFiniteSet(Callers(call, a)) /\ IsFiniteSet(Waiting(wait, a))
  <2>1. Callers(call, a) \subseteq Procs /\ Waiting(wait, a) \subseteq Waiters
    BY DEF Callers, Waiting
  <2> QED BY <2>1, FS_Subset, SpecSyncAssumption
<1>3. Cardinality(Callers(call, a)) \in Nat /\ Cardinality(Waiting(wait, a)) \in Nat
  BY <1>2, FS_CardinalityType
<1>4. /\ Callers(call, a) # {} => Cardinality(Callers(call, a)) # 0
      /\ Waiting(wait, a) # {} => Cardinality(Waiting(wait, a)) # 0
  BY <1>2, FS_EmptySet
<1>5. Cardinality(arr[a].callbacks) \in Nat
  BY SizesFinite DEF SyncType, ArrType, ArrayRec
<1>6. a \in tracked \cup fdOpen => One(a \in tracked) = 1 \/ One(a \in fdOpen) = 1
  BY DEF One
<1>7. PICK l \in Nat, f \in Nat, c \in Nat, b \in Nat, w \in Nat :
         /\ l = One(a \in tracked) /\ f = One(a \in fdOpen) /\ c = Cardinality(Callers(call, a))
         /\ b = Cardinality(arr[a].callbacks) /\ w = Cardinality(Waiting(wait, a))
  BY <1>1, <1>3, <1>5
<1>8. CountOf(a) = l + f + c + b + w
  BY <1>7 DEF CountOf
<1>9. a \in tracked \cup fdOpen => CountOf(a) > 0
  BY <1>6, <1>7, <1>8
<1>10. Callers(call, a) # {} \/ Waiting(wait, a) # {} => CountOf(a) > 0
  BY <1>4, <1>7, <1>8
<1> QED BY <1>1, <1>3, <1>5, <1>8, <1>9, <1>10

\* What a step changes of the users of an array, and that it changes the references
\* by as much.
Moved(a, l, f, c, b, w) ==
    /\ One(a \in tracked') = One(a \in tracked) + l
    /\ One(a \in fdOpen') = One(a \in fdOpen) + f
    /\ Cardinality(Callers(call', a)) = Cardinality(Callers(call, a)) + c
    /\ Cardinality(arr'[a].callbacks) = Cardinality(arr[a].callbacks) + b
    /\ Cardinality(Waiting(wait', a)) = Cardinality(Waiting(wait, a)) + w
    /\ arr'[a].refs = arr[a].refs + l + f + c + b + w

LEMMA MovedCounts ==
  ASSUME SyncType, RefsCounted, NEW a \in Arrays, NEW l \in Int, NEW f \in Int, NEW c \in Int,
         NEW b \in Int, NEW w \in Int, Moved(a, l, f, c, b, w)
  PROVE  arr'[a].refs = CountOf(a)'
<1>1. CountOf(a)' = One(a \in tracked') + One(a \in fdOpen') + Cardinality(Callers(call', a))
              + Cardinality(arr'[a].callbacks) + Cardinality(Waiting(wait', a))
  BY DEF CountOf
<1>2. /\ One(a \in tracked) \in Nat /\ One(a \in fdOpen) \in Nat
      /\ Cardinality(Callers(call, a)) \in Nat /\ Cardinality(Waiting(wait, a)) \in Nat
      /\ Cardinality(arr[a].callbacks) \in Nat
  BY CountTypes
<1>3. arr[a].refs = One(a \in tracked) + One(a \in fdOpen) + Cardinality(Callers(call, a))
              + Cardinality(arr[a].callbacks) + Cardinality(Waiting(wait, a))
  BY DEF RefsCounted, CountOf
<1> QED BY <1>1, <1>2, <1>3 DEF Moved

\* The call of one process, or one wait, changes the number of calls about an array.
LEMMA CallersMove ==
  ASSUME NEW c, NEW d, NEW p \in Procs, NEW a, \A q \in Procs : q # p => d[q] = c[q]
  PROVE  /\ c[p].array = a /\ d[p].array # a => Cardinality(Callers(d, a)) = Cardinality(Callers(c, a)) - 1
         /\ c[p].array # a /\ d[p].array = a => Cardinality(Callers(d, a)) = Cardinality(Callers(c, a)) + 1
         /\ (c[p].array = a <=> d[p].array = a) => Callers(d, a) = Callers(c, a)
<1>1. PICK S \in SUBSET Procs, T \in SUBSET Procs : S = Callers(c, a) /\ T = Callers(d, a)
  BY DEF Callers
<1>2. \A q \in Procs : q # p => (q \in S <=> q \in T)
  BY <1>1 DEF Callers
<1>3. /\ p \in S <=> c[p].array = a
      /\ p \in T <=> d[p].array = a
  BY <1>1 DEF Callers
<1>4. IsFiniteSet(Procs)
  BY SpecSyncAssumption
<1>5. p \in S /\ p \notin T => Cardinality(T) = Cardinality(S) - 1
  BY <1>2, <1>4, OneApart
<1>6. p \notin S /\ p \in T => Cardinality(T) = Cardinality(S) + 1
  BY <1>2, <1>4, OneApart
<1>7. (p \in S <=> p \in T) => T = S
  BY <1>2
<1> QED BY <1>1, <1>3, <1>5, <1>6, <1>7

LEMMA WaitersMove ==
  ASSUME NEW v, NEW w, NEW t \in Waiters, NEW a, NEW x, x = WaitFor(a),
         \A q \in Waiters : q # t => w[q] = v[q]
  PROVE  /\ v[t] = x /\ w[t] # x => Cardinality(Waiting(w, a)) = Cardinality(Waiting(v, a)) - 1
         /\ v[t] # x /\ w[t] = x => Cardinality(Waiting(w, a)) = Cardinality(Waiting(v, a)) + 1
         /\ (v[t] = x <=> w[t] = x) => Waiting(w, a) = Waiting(v, a)
<1>1. PICK S \in SUBSET Waiters, T \in SUBSET Waiters : S = Waiting(v, a) /\ T = Waiting(w, a)
  BY DEF Waiting
<1>2. \A q \in Waiters : q # t => (q \in S <=> q \in T)
  BY <1>1 DEF Waiting
<1>3. /\ t \in S <=> v[t] = x
      /\ t \in T <=> w[t] = x
  BY <1>1 DEF Waiting
<1>4. IsFiniteSet(Waiters)
  BY SpecSyncAssumption
<1>5. t \in S /\ t \notin T => Cardinality(T) = Cardinality(S) - 1
  BY <1>2, <1>4, OneApart
<1>6. t \notin S /\ t \in T => Cardinality(T) = Cardinality(S) + 1
  BY <1>2, <1>4, OneApart
<1>7. (t \in S <=> t \in T) => T = S
  BY <1>2
<1> QED BY <1>1, <1>3, <1>5, <1>6, <1>7

\* The steps of a process that leave its call about the array that it was about, and
\* those of nobody.
LEMMA CallsAbout ==
  ASSUME SyncType, NEW p \in Procs, NEW a \in Arrays, ProcStep(p)
  PROVE  /\ call[p].array = a /\ call'[p].array # a =>
               Cardinality(Callers(call', a)) = Cardinality(Callers(call, a)) - 1
         /\ call[p].array # a /\ call'[p].array = a =>
               Cardinality(Callers(call', a)) = Cardinality(Callers(call, a)) + 1
         /\ (call[p].array = a <=> call'[p].array = a) => Callers(call', a) = Callers(call, a)
<1>1. \A q \in Procs : q # p => call'[q] = call[q]
  BY CallStep
<1> QED BY <1>1, CallersMove

\* Nobody comes or goes, and the references stay.
LEMMA NotMoved ==
  ASSUME SyncType, NEW a \in Arrays, a \in tracked' <=> a \in tracked, a \in fdOpen' <=> a \in fdOpen,
         Callers(call', a) = Callers(call, a), Waiting(wait', a) = Waiting(wait, a),
         arr'[a].callbacks = arr[a].callbacks, arr'[a].refs = arr[a].refs
  PROVE  Moved(a, 0, 0, 0, 0, 0)
<1>1. /\ One(a \in tracked) \in Nat /\ One(a \in fdOpen) \in Nat
      /\ Cardinality(Callers(call, a)) \in Nat /\ Cardinality(Waiting(wait, a)) \in Nat
      /\ Cardinality(arr[a].callbacks) \in Nat
  BY CountTypes
<1>2. One(a \in tracked') = One(a \in tracked) /\ One(a \in fdOpen') = One(a \in fdOpen)
  BY DEF One
<1>3. arr[a].refs \in Int
  BY DEF SyncType, ArrType, ArrayRec
<1> QED BY <1>1, <1>2, <1>3 DEF Moved

LEMMA MovedByClear ==
  ASSUME SyncType, NEW a \in Arrays, NEW force \in BOOLEAN, ClearTracker(force),
         fdOpen' = fdOpen, Callers(call', a) = Callers(call, a), wait' = wait
  PROVE  \E l \in Int : Moved(a, l, 0, 0, 0, 0)
<1>1. arr[a] \in ArrayRec(a)
  BY DEF SyncType, ArrType
<1>2. CASE a \in tracked /\ Forgets(arr[a], force)
  <2>1. a \notin tracked' /\ arr'[a] = Forget(arr[a], force)
    BY <1>2, ClearIs
  <2>2. arr'[a].refs = arr[a].refs - 1 /\ arr'[a].callbacks = arr[a].callbacks
    BY <1>1, <2>1, ForgetIs
  <2>3. One(a \in tracked') = One(a \in tracked) - 1
    BY <1>2, <2>1 DEF One
  <2>4. /\ One(a \in tracked) \in Nat /\ One(a \in fdOpen) \in Nat
        /\ Cardinality(Callers(call, a)) \in Nat /\ Cardinality(Waiting(wait, a)) \in Nat
        /\ Cardinality(arr[a].callbacks) \in Nat
    BY CountTypes
  <2>5. PICK l \in Int : l = -1
    OBVIOUS
  <2>6. Moved(a, l, 0, 0, 0, 0)
    BY <1>1, <2>2, <2>3, <2>4, <2>5 DEF Moved, ArrayRec
  <2> QED BY <2>6
<1>3. CASE ~(a \in tracked /\ Forgets(arr[a], force))
  <2>1. (a \in tracked' <=> a \in tracked) /\ arr'[a] = arr[a]
    BY <1>3, ClearIs
  <2>2. Moved(a, 0, 0, 0, 0, 0)
    BY <2>1, NotMoved
  <2> QED BY <2>2
<1> QED BY <1>2, <1>3

\* The steps of a call that take or put no reference.
LEMMA MovedByWork ==
  ASSUME SyncType, NEW p \in Procs, NEW a \in Arrays,
         Open(p) \/ CheckBind(p) \/ ReplaceChildren(p) \/ SetBound(p) \/ Fail(p)
  PROVE  Moved(a, 0, 0, 0, 0, 0)
<1>1. ProcStep(p) /\ fdOpen' = fdOpen /\ tracked' = tracked /\ wait' = wait
  BY DEF ProcStep, Open, CheckBind, ReplaceChildren, SetBound, Fail
<1>2. Callers(call', a) = Callers(call, a)
  <2>1. call'[p].array = call[p].array
    <3>1. CASE Open(p)
      BY <3>1 DEF Open
    <3>2. CASE ~Open(p)
      <4>1. \E pc : Goto(p, pc)
        BY <3>2 DEF CheckBind, ReplaceChildren, SetBound, Fail
      <4> QED BY <4>1 DEF Goto, SyncType, CallType, CallRec
    <3> QED BY <3>1, <3>2
  <2> QED BY <1>1, <2>1, CallsAbout
<1>3. arr'[a].callbacks = arr[a].callbacks /\ arr'[a].refs = arr[a].refs
  <2>1. CASE Open(p) \/ CheckBind(p)
    BY <2>1 DEF Open, CheckBind
  <2>2. CASE ReplaceChildren(p)
    <3>1. PICK x : x = call[p].array
      OBVIOUS
    <3>2. arr'[x].refs = arr[x].refs /\ arr'[x].callbacks = arr[x].callbacks
      BY <2>2, <3>1, ReplaceIs
    <3>3. a # x => arr'[a] = arr[a]
      BY <2>2, <3>1, ReplaceOthers
    <3> QED BY <3>2, <3>3
  <2>3. CASE SetBound(p) \/ Fail(p)
    <3>1. PICK x \in Arrays : x = call[p].array /\ arr[x] \in ArrayRec(x)
      BY <2>3 DEF SyncType, CallType, ArrType, SetBound, Fail, At
    <3>2. /\ \A b \in Arrays : b # x => arr'[b] = arr[b]
          /\ \/ arr'[x] = [arr[x] EXCEPT !.bound = TRUE]
             \/ arr'[x] = [arr[x] EXCEPT !.error = TRUE, !.signalled = TRUE]
      BY <2>3, <3>1, OthersAre
    <3>3. arr'[x].refs = arr[x].refs /\ arr'[x].callbacks = arr[x].callbacks
      BY <3>1, <3>2 DEF ArrayRec
    <3> QED BY <3>2, <3>3
  <2> QED BY <2>1, <2>2, <2>3
<1> QED BY <1>1, <1>2, <1>3, NotMoved

\* spec_sync_create_array's references are the first ones.
LEMMA MovedByCreate ==
  ASSUME SyncType, Untouched, RefsInv, NEW p \in Procs, NEW x \in Arrays, Create(p, x), NEW a \in Arrays
  PROVE  \E f \in Int, c \in Int : Moved(a, 0, f, c, 0, 0)
<1>1. ProcStep(p) /\ tracked' = tracked /\ wait' = wait /\ fdOpen' = fdOpen \cup {x} /\ ~arr[x].created
  BY DEF ProcStep, Create
<1>2. call[p].array = None /\ call'[p].array = x
  BY DEF Create, Begin, NoCall, SyncType, CallType, CallRec
<1>3. /\ \A b \in Arrays : b # x => arr'[b] = arr[b]
      /\ arr'[x] = [arr[x] EXCEPT !.created = TRUE, !.refs = 2]
  BY OthersAre
<1>4. CASE a # x
  <2>1. Callers(call', a) = Callers(call, a)
    BY <1>1, <1>2, <1>4, CallsAbout, SpecSyncAssumption
  <2>2. Moved(a, 0, 0, 0, 0, 0)
    BY <1>1, <1>3, <1>4, <2>1, NotMoved
  <2> QED BY <2>2
<1>5. CASE a = x
  <2>1. /\ a \notin tracked /\ arr[a].callbacks = {}
        /\ a \notin fdOpen /\ Callers(call, a) = {} /\ Waiting(wait, a) = {}
    BY <1>1, <1>5 DEF Untouched, Uncalled, UncalledRec, RefsInv, NewUnused
  <2>2. /\ Cardinality(arr[a].callbacks) = 0 /\ Cardinality(Callers(call, a)) = 0
        /\ Cardinality(Waiting(wait, a)) = 0 /\ One(a \in tracked) = 0 /\ One(a \in fdOpen) = 0
    BY <2>1, FS_EmptySet DEF One
  <2>3. arr[a].refs = 0
    <3>1. arr[a].refs = CountOf(a)
      BY DEF RefsInv, RefsCounted
    <3> QED BY <2>2, <3>1 DEF CountOf
  <2>4. Cardinality(Callers(call', a)) = Cardinality(Callers(call, a)) + 1
    BY <1>1, <1>2, <1>5, CallsAbout, SpecSyncAssumption
  <2>5. arr'[a].refs = 2 /\ arr'[a].callbacks = arr[a].callbacks
    <3>1. arr[a] \in ArrayRec(a)
      BY DEF SyncType, ArrType
    <3> QED BY <1>3, <1>5, <3>1 DEF ArrayRec
  <2>6. One(a \in tracked') = 0 /\ One(a \in fdOpen') = 1
    BY <1>1, <1>5, <2>1 DEF One
  <2>7. PICK n \in Int : n = 1
    OBVIOUS
  <2>8. Moved(a, 0, n, n, 0, 0)
    BY <1>1, <2>2, <2>3, <2>4, <2>5, <2>6, <2>7 DEF Moved
  <2> QED BY <2>8
<1> QED BY <1>4, <1>5

\* A step that takes n references to the array x, or puts as many.
LEMMA TakenOf ==
  ASSUME SyncType, NEW x \in Arrays, NEW n \in Int,
         \/ arr' = [arr EXCEPT ![x] = Put(@, n)]
         \/ arr' = [arr EXCEPT ![x].refs = @ - n],
         NEW a \in Arrays
  PROVE  /\ arr'[a].callbacks = arr[a].callbacks
         /\ arr'[a].refs = IF a = x THEN arr[a].refs - n ELSE arr[a].refs
BY TakeOrPut DEF SyncType, RefsOnly

LEMMA MovedByCall ==
  ASSUME SyncType, Untouched, NEW p \in Procs, NEW a \in Arrays,
         Track(p) \/ PutFence(p) \/ \E x \in Arrays : \E fds : StartBind(p, x, fds) /\ ProcStep(p)
  PROVE  \E l \in Int, c \in Int : Moved(a, l, 0, c, 0, 0)
<1>1. ProcStep(p) /\ fdOpen' = fdOpen /\ wait' = wait
  BY DEF ProcStep, Track, PutFence, StartBind
<1>2. /\ call \in [Procs -> CallRec] /\ call[p] \in CallRec /\ None \notin Arrays
      /\ call[p].pc = "idle" => call[p].array = None
      /\ call[p].pc # "idle" => call[p].array \in Arrays
  BY SpecSyncAssumption DEF SyncType, CallType
<1>3. /\ One(a \in tracked) \in Nat /\ One(a \in fdOpen) \in Nat
      /\ Cardinality(Callers(call, a)) \in Nat /\ Cardinality(Waiting(wait, a)) \in Nat
      /\ Cardinality(arr[a].callbacks) \in Nat /\ arr[a].refs \in Int
  BY CountTypes DEF SyncType, ArrType, ArrayRec
<1>4. PICK n \in Int : n = 1
  OBVIOUS
<1>5. ASSUME NEW x \in Arrays, NEW fds, StartBind(p, x, fds)
      PROVE  \E c \in Int : Moved(a, 0, 0, c, 0, 0)
  <2>1. call[p].array = None /\ call'[p].array = x /\ tracked' = tracked
    BY <1>2, <1>5 DEF StartBind, Begin
  <2>2. arr' = [arr EXCEPT ![x].refs = @ - (-n)] /\ -n \in Int
    <3>1. arr[x].refs + 1 = arr[x].refs - (-n)
      BY <1>4 DEF SyncType, ArrType, ArrayRec
    <3>2. arr' = [arr EXCEPT ![x].refs = arr[x].refs - (-n)]
      BY <1>5, <3>1 DEF StartBind, SyncType, ArrType
    <3>3. -n \in Int
      OBVIOUS
    <3> QED BY <3>2, <3>3
  <2>3. PICK k \in Int : k = -n
    OBVIOUS
  <2>4. /\ arr'[a].callbacks = arr[a].callbacks
        /\ arr'[a].refs = IF a = x THEN arr[a].refs - k ELSE arr[a].refs
    BY <2>2, <2>3, TakenOf
  <2>5. CASE a = x
    <3>1. Cardinality(Callers(call', a)) = Cardinality(Callers(call, a)) + 1
      BY <1>1, <1>2, <2>1, <2>5, CallsAbout
    <3>2. Moved(a, 0, 0, n, 0, 0)
      BY <1>1, <1>3, <1>4, <2>1, <2>3, <2>4, <2>5, <3>1 DEF Moved
    <3> QED BY <3>2
  <2>6. CASE a # x
    <3>1. Callers(call', a) = Callers(call, a)
      BY <1>1, <1>2, <2>1, <2>6, CallsAbout
    <3>2. Moved(a, 0, 0, 0, 0, 0)
      BY <1>1, <2>1, <2>4, <2>6, <3>1, NotMoved
    <3> QED BY <3>2
  <2> QED BY <2>5, <2>6
<1>6. CASE Track(p)
  <2>1. call'[p].array = None /\ call[p].array \in Arrays /\ call[p].pc = "track"
    BY <1>2, <1>6 DEF Track, Return, NoCall, At
  <2>2. arr' = arr /\ tracked' = tracked \cup {call[p].array}
    BY <1>6 DEF Track
  <2>3. CASE a = call[p].array
    <3>1. a \notin tracked
      BY <2>1, <2>3 DEF Untouched, Creates
    <3>2. Cardinality(Callers(call', a)) = Cardinality(Callers(call, a)) - 1
      BY <1>1, <1>2, <2>1, <2>3, CallsAbout
    <3>3. One(a \in tracked) = 0 /\ One(a \in tracked') = 1
      BY <2>2, <2>3, <3>1 DEF One
    <3>4. PICK k \in Int : k = -n
      OBVIOUS
    <3>5. Moved(a, n, 0, k, 0, 0)
      BY <1>1, <1>3, <1>4, <2>2, <3>2, <3>3, <3>4 DEF Moved
    <3> QED BY <3>5
  <2>4. CASE a # call[p].array
    <3>1. Callers(call', a) = Callers(call, a)
      BY <1>1, <1>2, <2>1, <2>4, CallsAbout
    <3>2. Moved(a, 0, 0, 0, 0, 0)
      BY <1>1, <2>2, <2>4, <3>1, NotMoved
    <3> QED BY <3>2
  <2> QED BY <2>3, <2>4
<1>7. CASE PutFence(p)
  <2>1. call'[p].array = None /\ call[p].array \in Arrays
    BY <1>2, <1>7 DEF PutFence, Return, NoCall, At
  <2>2. arr' = [arr EXCEPT ![call[p].array] = Put(@, n)] /\ tracked' = tracked
    BY <1>4, <1>7 DEF PutFence, SetArrays
  <2>3. /\ arr'[a].callbacks = arr[a].callbacks
        /\ arr'[a].refs = IF a = call[p].array THEN arr[a].refs - n ELSE arr[a].refs
    BY <2>1, <2>2, TakenOf
  <2>4. CASE a = call[p].array
    <3>1. Cardinality(Callers(call', a)) = Cardinality(Callers(call, a)) - 1
      BY <1>1, <1>2, <2>1, <2>4, CallsAbout
    <3>2. PICK k \in Int : k = -n
      OBVIOUS
    <3>3. Moved(a, 0, 0, k, 0, 0)
      BY <1>1, <1>3, <1>4, <2>2, <2>3, <2>4, <3>1, <3>2 DEF Moved
    <3> QED BY <3>3
  <2>5. CASE a # call[p].array
    <3>1. Callers(call', a) = Callers(call, a)
      BY <1>1, <1>2, <2>1, <2>5, CallsAbout
    <3>2. Moved(a, 0, 0, 0, 0, 0)
      BY <1>1, <2>2, <2>3, <2>5, <3>1, NotMoved
    <3> QED BY <3>2
  <2> QED BY <2>4, <2>5
<1> QED BY <1>5, <1>6, <1>7

\* Enabling takes a reference for each callback, and there was none before.
LEMMA EnableTakes ==
  ASSUME NEW a \in Arrays, NEW r \in ArrayRec(a), ~r.enabled => r.callbacks = {},
         NEW q, q = EnableSignaling(r)
  PROVE  q.refs - Cardinality(q.callbacks) = r.refs - Cardinality(r.callbacks)
<1>1. CASE r.enabled \/ r.signalled
  <2>1. q = [r EXCEPT !.enabled = TRUE]
    BY <1>1 DEF EnableSignaling, Enabled
  <2> QED BY <2>1 DEF ArrayRec
<1>2. CASE ~r.enabled /\ ~r.signalled
  <2>1. PICK cb \in SUBSET Slots(a) : cb = Reached(r) \ Late(r)
    BY DEF Reached, ArrayRec
  <2>2. PICK m \in Int : m = r.refs + Cardinality(cb)
    BY SizesFinite DEF ArrayRec
  <2>3. PICK k \in Int : k = Cardinality(Reached(r) \cap Late(r))
    <3>1. Reached(r) \cap Late(r) \subseteq Slots(a)
      BY DEF Reached, ArrayRec
    <3> QED BY <3>1, SizesFinite
  <2>4. PICK e : e = [r EXCEPT !.enabled = TRUE, !.callbacks = cb, !.refs = m]
    OBVIOUS
  <2>5. e \in ArrayRec(a) /\ e.callbacks = cb /\ e.refs = m
    BY <2>4 DEF ArrayRec
  <2>6. q = CountDown(e, k)
    BY <1>2, <2>1, <2>2, <2>3, <2>4 DEF EnableSignaling, Enabled
  <2>7. q.refs = e.refs /\ q.callbacks = e.callbacks
    BY <2>5, <2>6, CountDownKeeps
  <2>8. Cardinality(r.callbacks) = 0 /\ Cardinality(cb) \in Nat
    BY <1>2, FS_EmptySet, SizesFinite
  <2> QED BY <2>2, <2>5, <2>7, <2>8 DEF ArrayRec
<1> QED BY <1>1, <1>2

LEMMA MovedByEnable ==
  ASSUME SyncType, Unarmed, NEW p \in Procs, Enable(p), NEW a \in Arrays
  PROVE  \E b \in Int : Moved(a, 0, 0, 0, b, 0)
<1>1. ProcStep(p) /\ fdOpen' = fdOpen /\ tracked' = tracked /\ wait' = wait
  BY DEF ProcStep, Enable
<1>2. Callers(call', a) = Callers(call, a)
  <2>1. call'[p].array = call[p].array
    BY DEF Enable, Goto, SyncType, CallType, CallRec
  <2> QED BY <1>1, <2>1, CallsAbout
<1>3. PICK x \in Arrays : x = call[p].array
  BY DEF Enable, At, SyncType, CallType
<1>4. /\ ArrType' /\ \A b \in Arrays : b # x => arr'[b] = arr[b]
      /\ \E r, q : r \in ArrayRec(x) /\ r = arr[x] /\ q = arr'[x] /\ q = EnableSignaling(r)
  BY <1>3, OthersAre
<1>5. CASE a # x
  <2>1. Moved(a, 0, 0, 0, 0, 0)
    BY <1>1, <1>2, <1>4, <1>5, NotMoved
  <2> QED BY <2>1
<1>6. CASE a = x
  <2>1. PICK r, q : r \in ArrayRec(x) /\ r = arr[x] /\ q = arr'[x] /\ q = EnableSignaling(r)
    BY <1>4
  <2>2. q = EnableSignaling(r) /\ r \in ArrayRec(x) /\ (~r.enabled => r.callbacks = {})
    BY <2>1 DEF Unarmed
  <2>3. q.refs - Cardinality(q.callbacks) = r.refs - Cardinality(r.callbacks)
    BY <2>2, EnableTakes
  <2>4. q \in ArrayRec(x)
    BY <1>4, <2>1 DEF ArrType
  <2>5. PICK m \in Nat, n \in Nat : m = Cardinality(r.callbacks) /\ n = Cardinality(q.callbacks)
    BY <2>2, <2>4, SizesFinite DEF ArrayRec
  <2>6. PICK k \in Int : k = n - m
    OBVIOUS
  <2>7. arr'[a].refs = arr[a].refs + k /\ Cardinality(arr'[a].callbacks) = Cardinality(arr[a].callbacks) + k
    <3>1. q.refs \in Int /\ r.refs \in Int
      BY <2>2, <2>4 DEF ArrayRec
    <3>2. PICK y \in Int, z \in Int : y = q.refs /\ z = r.refs
      BY <3>1
    <3>3. y - n = z - m
      BY <2>3, <2>5, <3>2
    <3>4. y = z + k /\ n = m + k
      BY <2>6, <3>3
    <3> QED BY <1>6, <2>1, <2>5, <3>2, <3>4
  <2>8. /\ One(a \in tracked) \in Nat /\ One(a \in fdOpen) \in Nat
        /\ Cardinality(Callers(call, a)) \in Nat /\ Cardinality(Waiting(wait, a)) \in Nat
        /\ arr[a].refs \in Int
    BY CountTypes DEF SyncType, ArrType, ArrayRec
  <2>9. Moved(a, 0, 0, 0, k, 0)
    BY <1>1, <1>2, <2>7, <2>8 DEF Moved
  <2> QED BY <2>9
<1> QED BY <1>5, <1>6

\* The references of those who are no process: waiters, callbacks and the fd.
LEMMA MovedByOthers ==
  ASSUME SyncType, NEW a \in Arrays,
         \/ \E w \in Waiters : EndWait(w) \/ TimeOut(w) \/ \E x \in Arrays : StartWait(w, x)
         \/ \E x \in Arrays : CloseFence(x)
         \/ \E u \in Users : UserSignals(u)
  PROVE  \E f \in Int, b \in Int, w \in Int : Moved(a, 0, f, 0, b, w)
<1>1. call' = call /\ tracked' = tracked
  BY DEF EndWait, TimeOut, EndsWait, StartWait, CloseFence, UserSignals
<1>2. Callers(call', a) = Callers(call, a)
  BY <1>1
<1>3. /\ One(a \in tracked) \in Nat /\ One(a \in fdOpen) \in Nat
      /\ Cardinality(Callers(call, a)) \in Nat /\ Cardinality(Waiting(wait, a)) \in Nat
      /\ Cardinality(arr[a].callbacks) \in Nat /\ arr[a].refs \in Int
  BY CountTypes DEF SyncType, ArrType, ArrayRec
<1>4. PICK n \in Int, m \in Int : n = 1 /\ m = -1
  OBVIOUS
<1>5. PICK rec : rec = WaitFor(a)
  OBVIOUS
<1>6. ASSUME NEW w \in Waiters, NEW x \in Arrays, StartWait(w, x)
      PROVE  \E k \in Int : Moved(a, 0, 0, 0, 0, k)
  <2>1. fdOpen' = fdOpen /\ wait[w].pc = "idle" /\ wait' = [wait EXCEPT ![w] = [pc |-> "waiting", array |-> x]]
    BY <1>6 DEF StartWait
  <2>2. wait'[w] = WaitFor(x) /\ wait[w] # rec /\ \A q \in Waiters : q # w => wait'[q] = wait[q]
    BY <1>5, <2>1 DEF SyncType, WaitType, WaitFor
  <2>3. /\ arr'[a].callbacks = arr[a].callbacks
        /\ arr'[a].refs = IF a = x THEN arr[a].refs - m ELSE arr[a].refs
    <3>1. arr[x].refs + 1 = arr[x].refs - m
      BY <1>4 DEF SyncType, ArrType, ArrayRec
    <3>2. arr' = [arr EXCEPT ![x].refs = arr[x].refs - m]
      BY <1>6, <3>1 DEF StartWait, SyncType, ArrType
    <3> QED BY <3>2, TakenOf
  <2>4. CASE a = x
    <3>1. wait'[w] = rec
      BY <1>5, <2>2, <2>4
    <3>2. Cardinality(Waiting(wait', a)) = Cardinality(Waiting(wait, a)) + 1
      <4>1. wait[w] # rec /\ \A q \in Waiters : q # w => wait'[q] = wait[q]
        BY <2>2
      <4> QED BY <1>5, <3>1, <4>1, WaitersMove
    <3>3. Moved(a, 0, 0, 0, 0, n)
      BY <1>1, <1>2, <1>3, <1>4, <2>1, <2>3, <2>4, <3>2 DEF Moved
    <3> QED BY <3>3
  <2>5. CASE a # x
    <3>1. wait'[w] # rec
      BY <1>5, <2>2, <2>5 DEF WaitFor
    <3>2. Waiting(wait', a) = Waiting(wait, a)
      BY <1>5, <2>2, <3>1, WaitersMove
    <3>3. Moved(a, 0, 0, 0, 0, 0)
      BY <1>1, <1>2, <2>1, <2>3, <2>5, <3>2, NotMoved
    <3> QED BY <3>3
  <2> QED BY <2>4, <2>5
<1>7. ASSUME NEW w \in Waiters, EndWait(w) \/ TimeOut(w)
      PROVE  \E k \in Int : Moved(a, 0, 0, 0, 0, k)
  <2>1. PICK result \in {"returned", "timedOut"} : EndsWait(w, result) /\ wait[w].pc = "waiting"
    BY <1>7 DEF EndWait, TimeOut
  <2>2. PICK x \in Arrays : x = wait[w].array
    BY <2>1 DEF SyncType, WaitType
  <2>3. fdOpen' = fdOpen /\ arr' = [arr EXCEPT ![x] = Put(@, n)]
    BY <1>4, <2>1, <2>2 DEF EndsWait, SetArrays
  <2>4. wait[w] = WaitFor(x)
    BY <2>1, <2>2 DEF SyncType, WaitType, WaitRec, WaitFor
  <2>5. wait'[w].pc = result /\ \A q \in Waiters : q # w => wait'[q] = wait[q]
    BY <2>1 DEF EndsWait, SyncType, WaitType, WaitRec
  <2>6. wait'[w] # rec
    BY <1>5, <2>5 DEF WaitFor
  <2>7. /\ arr'[a].callbacks = arr[a].callbacks
        /\ arr'[a].refs = IF a = x THEN arr[a].refs - n ELSE arr[a].refs
    BY <2>3, TakenOf
  <2>8. CASE a = x
    <3>1. wait[w] = rec
      BY <1>5, <2>4, <2>8
    <3>2. Cardinality(Waiting(wait', a)) = Cardinality(Waiting(wait, a)) - 1
      BY <1>5, <2>5, <2>6, <3>1, WaitersMove
    <3>3. Moved(a, 0, 0, 0, 0, m)
      BY <1>1, <1>2, <1>3, <1>4, <2>3, <2>7, <2>8, <3>2 DEF Moved
    <3> QED BY <3>3
  <2>9. CASE a # x
    <3>1. wait[w] # rec
      BY <1>5, <2>4, <2>9 DEF WaitFor
    <3>2. Waiting(wait', a) = Waiting(wait, a)
      BY <1>5, <2>5, <2>6, <3>1, WaitersMove
    <3>3. Moved(a, 0, 0, 0, 0, 0)
      BY <1>1, <1>2, <2>3, <2>7, <2>9, <3>2, NotMoved
    <3> QED BY <3>3
  <2> QED BY <2>8, <2>9
<1>8. ASSUME NEW x \in Arrays, CloseFence(x)
      PROVE  \E f \in Int : Moved(a, 0, f, 0, 0, 0)
  <2>1. wait' = wait /\ fdOpen' = fdOpen \ {x} /\ x \in fdOpen /\ arr' = [arr EXCEPT ![x] = Put(@, n)]
    BY <1>4, <1>8 DEF CloseFence, SetArrays
  <2>2. /\ arr'[a].callbacks = arr[a].callbacks
        /\ arr'[a].refs = IF a = x THEN arr[a].refs - n ELSE arr[a].refs
    BY <2>1, TakenOf
  <2>3. CASE a = x
    <3>1. One(a \in fdOpen') = 0 /\ One(a \in fdOpen) = 1
      BY <2>1, <2>3 DEF One
    <3>2. Moved(a, 0, m, 0, 0, 0)
      BY <1>1, <1>2, <1>3, <1>4, <2>1, <2>2, <2>3, <3>1 DEF Moved
    <3> QED BY <3>2
  <2>4. CASE a # x
    <3>1. Moved(a, 0, 0, 0, 0, 0)
      BY <1>1, <1>2, <2>1, <2>2, <2>4, NotMoved
    <3> QED BY <3>1
  <2> QED BY <2>3, <2>4
<1>9. ASSUME NEW u \in Users, UserSignals(u)
      PROVE  \E b \in Int : Moved(a, 0, 0, 0, b, 0)
  <2>1. wait' = wait /\ fdOpen' = fdOpen
    BY <1>9 DEF UserSignals
  <2>2. PICK r \in ArrayRec(a) : r = arr[a]
    BY DEF SyncType, ArrType
  <2>3. PICK q : q = arr'[a] /\ q = CalledBack(r, u)
    BY <1>9, <2>2, UserIs
  <2>4. PICK k \in Nat : k = Cardinality(Hits(r, u))
    BY HitsFinite
  <2>5. q.refs = r.refs - k /\ q.callbacks = r.callbacks \ Hits(r, u)
    BY <2>3, <2>4, CalledBackIs
  <2>6. Hits(r, u) \subseteq r.callbacks /\ r.callbacks \subseteq Slots(a)
    BY DEF Hits, ArrayRec
  <2>7. IsFiniteSet(r.callbacks) /\ IsFiniteSet(Hits(r, u))
    BY <2>6, SizesFinite
  <2>8. Cardinality(r.callbacks \ Hits(r, u)) = Cardinality(r.callbacks) - Cardinality(r.callbacks \cap Hits(r, u))
    BY <2>7, FS_Difference
  <2>9. r.callbacks \cap Hits(r, u) = Hits(r, u)
    BY <2>6
  <2>10. Cardinality(q.callbacks) = Cardinality(r.callbacks) - k
    BY <2>4, <2>5, <2>8, <2>9
  <2>11. PICK j \in Int : j = -k
    OBVIOUS
  <2>12. Moved(a, 0, 0, 0, j, 0)
    BY <1>1, <1>2, <1>3, <2>1, <2>2, <2>3, <2>5, <2>10, <2>11 DEF Moved
  <2> QED BY <2>12
<1>10. 0 \in Int
  OBVIOUS
<1> QED BY <1>6, <1>7, <1>8, <1>9, <1>10

LEMMA RefsCountedStep ==
  ASSUME SyncType, Untouched, RefsInv, [Next]_vars
  PROVE  RefsCounted'
<1> SUFFICES ASSUME NEW a \in Arrays PROVE arr'[a].refs = CountOf(a)'
  BY DEF RefsCounted
<1> DEFINE Goal == \E l \in Int, f \in Int, c \in Int, b \in Int, w \in Int : Moved(a, l, f, c, b, w)
<1>0. 0 \in Int /\ RefsCounted /\ Unarmed
  BY DEF RefsInv
<1>1. CASE UNCHANGED vars
  <2>1. Moved(a, 0, 0, 0, 0, 0)
    BY <1>1, NotMoved DEF vars
  <2>2. Goal
    BY <1>0, <2>1
  <2> QED BY <1>0, <2>2, MovedCounts
<1>2. ASSUME NEW p \in Procs, ProcStep(p)
      PROVE  Goal
  <2>1. CASE Open(p) \/ CheckBind(p) \/ ReplaceChildren(p) \/ SetBound(p) \/ Fail(p)
    BY <1>0, <2>1, MovedByWork
  <2>2. CASE Release(p)
    <3>1. call' = call /\ fdOpen' = fdOpen /\ wait' = wait
      BY <2>2 DEF Release
    <3>2. CASE UNCHANGED <<arr, tracked, dummyRefs>>
      <4>1. Moved(a, 0, 0, 0, 0, 0)
        BY <3>1, <3>2, NotMoved
      <4> QED BY <1>0, <4>1
    <3>3. CASE ClearTracker(TRUE)
      <4>1. PICK force \in BOOLEAN : force = TRUE
        OBVIOUS
      <4>2. \E l \in Int : Moved(a, l, 0, 0, 0, 0)
        BY <3>1, <3>3, <4>1, MovedByClear
      <4> QED BY <1>0, <4>2
    <3> QED BY <2>2, <3>2, <3>3 DEF Release
  <2>3. CASE Prune(p)
    <3>1. fdOpen' = fdOpen /\ wait' = wait
      BY <2>3 DEF Prune
    <3>2. call'[p].array = call[p].array
      BY <2>3 DEF Prune, Goto, SyncType, CallType, CallRec
    <3>3. Callers(call', a) = Callers(call, a)
      BY <1>2, <3>2, CallsAbout
    <3>4. PICK force \in BOOLEAN : force = FALSE
      OBVIOUS
    <3>5. ClearTracker(force)
      BY <2>3, <3>4 DEF Prune
    <3>6. \E l \in Int : Moved(a, l, 0, 0, 0, 0)
      BY <3>1, <3>3, <3>5, MovedByClear
    <3> QED BY <1>0, <3>6
  <2>4. ASSUME NEW x \in Arrays, Create(p, x)
        PROVE  Goal
    <3>1. \E f \in Int, c \in Int : Moved(a, 0, f, c, 0, 0)
      BY <2>4, MovedByCreate
    <3> QED BY <1>0, <3>1
  <2>5. CASE Track(p) \/ PutFence(p) \/ \E x \in Arrays : \E fds : StartBind(p, x, fds)
    <3>1. \E l \in Int, c \in Int : Moved(a, l, 0, c, 0, 0)
      BY <1>2, <2>5, MovedByCall
    <3> QED BY <1>0, <3>1
  <2>6. CASE Enable(p)
    <3>1. \E b \in Int : Moved(a, 0, 0, 0, b, 0)
      BY <1>0, <2>6, MovedByEnable
    <3> QED BY <1>0, <3>1
  <2> QED BY <1>2, <2>1, <2>2, <2>3, <2>4, <2>5, <2>6 DEF ProcStep
<1>3. CASE \/ \E w \in Waiters : EndWait(w) \/ TimeOut(w) \/ \E x \in Arrays : StartWait(w, x)
           \/ \E x \in Arrays : CloseFence(x)
           \/ \E u \in Users : UserSignals(u)
  <2>1. \E f \in Int, b \in Int, w \in Int : Moved(a, 0, f, 0, b, w)
    BY <1>3, MovedByOthers
  <2>2. Goal
    BY <1>0, <2>1
  <2> QED BY <1>0, <2>2, MovedCounts
<1>4. Goal => arr'[a].refs = CountOf(a)'
  BY <1>0, MovedCounts
<1> HIDE DEF Goal
<1> QED BY <1>1, <1>2, <1>3, <1>4 DEF Next

LEMMA UnarmedStep ==
  ASSUME SyncType, SyncInv, StillUnbound, RefsInv, [Next]_vars
  PROVE  Unarmed'
<1> SUFFICES ASSUME NEW a \in Arrays, Dummies(arr'[a]) # {} \/ ~arr'[a].enabled
             PROVE  arr'[a].callbacks = {}
  BY DEF Unarmed, Dummies
<1>1. /\ arr[a] \in ArrayRec(a)
      /\ Dummies(arr[a]) # {} \/ ~arr[a].enabled => arr[a].callbacks = {}
  BY DEF SyncType, ArrType, RefsInv, Unarmed
<1>2. CASE RefsOnly(arr[a], arr'[a])
  BY <1>1, <1>2, OnlyRefs DEF RefsOnly
<1>3. CASE ClearTracker(TRUE)
  <2>1. Dummies(arr'[a]) = Dummies(arr[a])
    BY <1>3, ClearIs
  <2>2. arr'[a] = Forget(arr[a], TRUE) \/ arr'[a] = arr[a]
    BY <1>3, ClearIs
  <2>3. ASSUME arr'[a] = Forget(arr[a], TRUE)
        PROVE  arr'[a].enabled = arr[a].enabled /\ arr'[a].callbacks = arr[a].callbacks
    <3>1. PICK f \in BOOLEAN : arr'[a] = Forget(arr[a], f)
      BY <2>3
    <3> QED BY <1>1, <3>1, ForgetIs
  <2> QED BY <1>1, <2>1, <2>2, <2>3
<1>4. ASSUME NEW p \in Procs, Create(p, a)
      PROVE  arr'[a].callbacks = {}
  <2>1. arr'[a] = [arr[a] EXCEPT !.created = TRUE, !.refs = 2]
    BY <1>4, OthersAre
  <2>2. arr'[a].child = arr[a].child /\ arr'[a].enabled = arr[a].enabled /\ arr'[a].callbacks = arr[a].callbacks
    BY <1>1, <2>1 DEF ArrayRec
  <2> QED BY <1>1, <2>2 DEF Dummies
<1>5. ASSUME NEW p \in Procs, call[p].array = a, BinderActs(p)
      PROVE  arr'[a].callbacks = {}
  <2>1. CASE ReplaceChildren(p)
    <3>1. Binds(p, a) /\ At(p, "replace")
      BY <1>5, <2>1 DEF ReplaceChildren, At, Binds
    <3>2. Dummies(arr[a]) = Slots(a)
      BY <3>1 DEF StillUnbound
    <3>3. 1 \in Slots(a)
      BY SpecSyncAssumption DEF Slots
    <3>4. arr'[a].callbacks = arr[a].callbacks
      BY <1>5, <2>1, ReplaceIs
    <3> QED BY <1>1, <3>2, <3>3, <3>4
  <2>2. CASE Enable(p)
    <3>1. PICK r, q : r \in ArrayRec(a) /\ r = arr[a] /\ q = arr'[a] /\ q = EnableSignaling(r)
      BY <1>5, <2>2, OthersAre
    <3>2. q = EnableSignaling(r) /\ r \in ArrayRec(a)
      BY <3>1
    <3>3. q.enabled /\ q.child = r.child
      BY <3>2, EnableIs
    <3>4. Dummies(arr[a]) = {}
      BY <1>5, <2>2 DEF SyncInv, BindersReplaced, Enable, At
    <3> QED BY <3>1, <3>3, <3>4 DEF Dummies
  <2>3. CASE SetBound(p) \/ Fail(p)
    <3>1. \/ arr'[a] = [arr[a] EXCEPT !.bound = TRUE]
          \/ arr'[a] = [arr[a] EXCEPT !.error = TRUE, !.signalled = TRUE]
      BY <1>5, <2>3, OthersAre
    <3>2. arr'[a].child = arr[a].child /\ arr'[a].enabled = arr[a].enabled /\ arr'[a].callbacks = arr[a].callbacks
      BY <1>1, <3>1 DEF ArrayRec
    <3> QED BY <1>1, <3>2 DEF Dummies
  <2> QED BY <1>5, <2>1, <2>2, <2>3 DEF BinderActs
<1>6. ASSUME NEW u \in Users, UserSignals(u)
      PROVE  arr'[a].callbacks = {}
  <2>1. PICK q : q = arr'[a] /\ q = CalledBack(arr[a], u)
    BY <1>6, UserIs
  <2>2. q.child = arr[a].child /\ q.enabled = arr[a].enabled
    BY <1>1, <2>1, CalledBackKeeps
  <2>3. q.callbacks = arr[a].callbacks \ Hits(arr[a], u)
    BY <1>1, <2>1, CalledBackLeft
  <2> QED BY <1>1, <2>1, <2>2, <2>3 DEF Dummies
<1> QED BY <1>2, <1>3, <1>4, <1>5, <1>6, Touches

LEMMA NewUnusedStep ==
  ASSUME SyncType, RefsInv, [Next]_vars
  PROVE  NewUnused'
<1> SUFFICES ASSUME NEW a \in Arrays, ~arr'[a].created
             PROVE  a \notin fdOpen' /\ Callers(call', a) = {} /\ Waiting(wait', a) = {}
  BY DEF NewUnused
<1>1. ~arr[a].created /\ \A p \in Procs : ~Create(p, a)
  <2>1. ~arr[a].created
    BY Ages DEF Older
  <2>2. ASSUME NEW p \in Procs, Create(p, a)
        PROVE  FALSE
    <3>1. arr'[a] = [arr[a] EXCEPT !.created = TRUE, !.refs = 2] /\ arr[a] \in ArrayRec(a)
      BY <2>2, OthersAre DEF SyncType, ArrType
    <3> QED BY <3>1 DEF ArrayRec
  <2> QED BY <2>1, <2>2
<1>2. a \notin fdOpen /\ Callers(call, a) = {} /\ Waiting(wait, a) = {}
  BY <1>1 DEF RefsInv, NewUnused
<1>3. a \notin fdOpen'
  <2>1. fdOpen' \subseteq fdOpen \/ \E p \in Procs : \E x \in Arrays : Create(p, x)
    BY DEF Next, vars, ProcStep, Open, Release, Track, StartBind, CheckBind, ReplaceChildren, Enable,
           Prune, SetBound, Fail, PutFence, EndWait, TimeOut, EndsWait, StartWait, CloseFence, UserSignals
  <2>2. ASSUME NEW p \in Procs, NEW x \in Arrays, Create(p, x)
        PROVE  a \notin fdOpen'
    BY <1>1, <1>2, <2>2 DEF Create
  <2> QED BY <1>2, <2>1, <2>2
<1>4. ASSUME NEW p \in Procs
      PROVE  call'[p].array # a
  <2>1. call[p].array # a
    BY <1>2 DEF Callers
  <2>2. CASE call'[p] = call[p]
    BY <2>1, <2>2
  <2>3. CASE ProcStep(p)
    <3>1. CASE call'[p].pc = "idle"
      <4>1. CallType'
        BY <2>3, CallStep
      <4> QED BY <3>1, <4>1, SpecSyncAssumption DEF CallType
    <3>2. ASSUME NEW x \in Arrays, NEW fds, StartBind(p, x, fds), call'[p].array = x
          PROVE  x # a
      BY <1>2, <3>2 DEF StartBind
    <3>3. ASSUME NEW x \in Arrays, Create(p, x), call'[p].array = x
          PROVE  x # a
      BY <1>1, <3>3
    <3>4. CASE UNCHANGED call
      BY <2>1, <3>4
    <3> QED BY <2>1, <2>3, <3>1, <3>2, <3>3, <3>4, Goes
  <2> QED BY <2>2, <2>3, CallMoves
<1>5. ASSUME NEW t \in Waiters
      PROVE  wait'[t] # WaitFor(a)
  <2>1. wait[t] # WaitFor(a) /\ wait \in [Waiters -> WaitRec]
    BY <1>2 DEF Waiting, SyncType, WaitType
  <2>2. ASSUME NEW w \in Waiters, NEW x \in Arrays, StartWait(w, x)
        PROVE  wait'[t] # WaitFor(a)
    <3>1. x # a /\ wait' = [wait EXCEPT ![w] = [pc |-> "waiting", array |-> x]]
      BY <1>2, <2>2 DEF StartWait
    <3> QED BY <2>1, <3>1 DEF WaitFor
  <2>3. ASSUME NEW w \in Waiters, EndWait(w) \/ TimeOut(w)
        PROVE  wait'[t] # WaitFor(a)
    <3>1. PICK result \in {"returned", "timedOut"} : wait' = [wait EXCEPT ![w].pc = result]
      BY <2>3 DEF EndWait, TimeOut, EndsWait
    <3>2. CASE t = w
      <4>1. wait'[t].pc = result
        BY <2>1, <3>1, <3>2 DEF WaitRec
      <4> QED BY <4>1 DEF WaitFor
    <3>3. CASE t # w
      BY <2>1, <3>1, <3>3
    <3> QED BY <3>2, <3>3
  <2>4. \/ wait' = wait \/ \E w \in Waiters : EndWait(w) \/ TimeOut(w) \/ \E x \in Arrays : StartWait(w, x)
    BY DEF Next, vars, ProcStep, Open, Release, Create, Track, StartBind, CheckBind, ReplaceChildren,
           Enable, Prune, SetBound, Fail, PutFence, CloseFence, UserSignals
  <2> QED BY <2>1, <2>2, <2>3, <2>4
<1> QED BY <1>3, <1>4, <1>5 DEF Callers, Waiting

LEMMA InitRefs == Init => RefsInv
<1> SUFFICES ASSUME Init PROVE RefsInv
  OBVIOUS
<1>1. ASSUME NEW a \in Arrays
      PROVE  arr[a].refs = 0 /\ arr[a].callbacks = {} /\ a \notin tracked /\ a \notin fdOpen
             /\ Callers(call, a) = {} /\ Waiting(wait, a) = {}
  BY SpecSyncAssumption DEF Init, Uncreated, Callers, NoCall, Waiting, WaitFor, NoWait
<1>2. ASSUME NEW a \in Arrays
      PROVE  arr[a].refs = CountOf(a)
  <2>1. /\ Cardinality(arr[a].callbacks) = 0 /\ Cardinality(Callers(call, a)) = 0
        /\ Cardinality(Waiting(wait, a)) = 0 /\ One(a \in tracked) = 0 /\ One(a \in fdOpen) = 0
    BY <1>1, FS_EmptySet DEF One
  <2> QED BY <1>1, <2>1 DEF CountOf
<1> QED BY <1>1, <1>2 DEF RefsInv, RefsCounted, Unarmed, NewUnused

\* Unless two binds of an array overlap, the references of an array are those of its
\* users: every path through create, bind, wait and release takes and puts as many.
THEOREM RefsInvariant ==
  ASSUME OneBinder
  PROVE  Spec => []RefsInv
<1>1. SyncType /\ SyncInv /\ AskInv /\ RefsInv /\ [Next]_vars => RefsInv'
  BY RefsCountedStep, UnarmedStep, NewUnusedStep DEF AskInv, RefsInv
<1> QED BY <1>1, InitRefs, TypeInvariant, SyncInvariant, AskInvariant, PTL DEF Spec

-----------------------------------------------------------------------------
(* The references of the dummy fence *)

Pairs(r, S) == UNION {{a} \X Dummies(r[a]) : a \in S}
LiveOf(r) == {a \in Arrays : r[a].refs > 0}

\* One for every child that is the dummy in an array that is not released, and its own.
DummiesCounted == dummyRefs = 1 + Cardinality(Pairs(arr, LiveOf(arr)))

LEMMA DummiesFinite ==
  ASSUME NEW a \in Arrays, NEW r \in ArrayRec(a)
  PROVE  Dummies(r) \subseteq Slots(a) /\ IsFiniteSet(Dummies(r)) /\ Cardinality(Dummies(r)) \in Nat
<1>1. Dummies(r) \subseteq Slots(a)
  BY DEF Dummies, ArrayRec
<1> QED BY <1>1, SizesFinite

LEMMA PairsFinite ==
  ASSUME NEW r, \A a \in Arrays : r[a] \in ArrayRec(a), NEW S \in SUBSET Arrays
  PROVE  IsFiniteSet(Pairs(r, S)) /\ Cardinality(Pairs(r, S)) \in Nat
<1> DEFINE F == {{a} \X Dummies(r[a]) : a \in S}
           f == [a \in S |-> {a} \X Dummies(r[a])]
<1>1. IsFiniteSet(S)
  <2>1. IsFiniteSet(Arrays)
    BY SpecSyncAssumption
  <2> QED BY <2>1, FS_Subset
<1>2. f \in Surjection(S, F)
  BY DEF Surjection
<1>3. \A T \in F : IsFiniteSet(T)
  <2> SUFFICES ASSUME NEW a \in S PROVE IsFiniteSet({a} \X Dummies(r[a]))
    OBVIOUS
  <2>1. IsFiniteSet(Dummies(r[a])) /\ IsFiniteSet({a})
    BY DummiesFinite, FS_Singleton
  <2> QED BY <2>1, FS_Product
<1>4. Pairs(r, S) = UNION F
  BY DEF Pairs
<1> HIDE DEF F, f
<1>5. IsFiniteSet(F)
  BY <1>1, <1>2, FS_Surjection
<1>6. IsFiniteSet(UNION F)
  BY <1>3, <1>5, FS_UNION
<1> QED BY <1>4, <1>6, FS_CardinalityType

LEMMA PairsSame ==
  ASSUME NEW r, NEW q, NEW S, \A a \in S : Dummies(q[a]) = Dummies(r[a])
  PROVE  Pairs(q, S) = Pairs(r, S)
BY DEF Pairs

\* The pairs of some of the arrays, and those of the rest.
LEMMA PairsSplit ==
  ASSUME NEW r, \A a \in Arrays : r[a] \in ArrayRec(a), NEW S \in SUBSET Arrays, NEW T \in SUBSET S
  PROVE  Cardinality(Pairs(r, S \ T)) = Cardinality(Pairs(r, S)) - Cardinality(Pairs(r, T))
<1>0. ASSUME NEW V, NEW x
      PROVE  x \in Pairs(r, V) <=> (\E a \in V : x \in {a} \X Dummies(r[a]))
  BY DEF Pairs
<1>1. Pairs(r, S \ T) = Pairs(r, S) \ Pairs(r, T)
  <2>1. ASSUME NEW x \in Pairs(r, S \ T)
        PROVE  x \in Pairs(r, S) \ Pairs(r, T)
    <3>1. PICK a \in S \ T : x \in {a} \X Dummies(r[a])
      BY <1>0
    <3>2. ASSUME NEW b \in T, x \in {b} \X Dummies(r[b])
          PROVE  FALSE
      BY <3>1, <3>2
    <3> QED BY <1>0, <3>1, <3>2
  <2>2. ASSUME NEW x \in Pairs(r, S) \ Pairs(r, T)
        PROVE  x \in Pairs(r, S \ T)
    BY <1>0
  <2> QED BY <2>1, <2>2
<1>2. Pairs(r, S) \cap Pairs(r, T) = Pairs(r, T)
  BY DEF Pairs
<1>3. IsFiniteSet(Pairs(r, S))
  BY PairsFinite
<1>4. PICK P, Q : P = Pairs(r, S) /\ Q = Pairs(r, T)
  OBVIOUS
<1>5. IsFiniteSet(P) /\ P \cap Q = Q /\ Pairs(r, S \ T) = P \ Q
  BY <1>1, <1>2, <1>3, <1>4
<1>6. Cardinality(P \ Q) = Cardinality(P) - Cardinality(P \cap Q)
  BY <1>5, FS_Difference
<1> QED BY <1>4, <1>5, <1>6

LEMMA PairsOfOne ==
  ASSUME NEW r, NEW a \in Arrays, r[a] \in ArrayRec(a)
  PROVE  Cardinality(Pairs(r, {a})) = Cardinality(Dummies(r[a]))
<1>1. Pairs(r, {a}) = {a} \X Dummies(r[a])
  BY DEF Pairs
<1>2. IsFiniteSet(Dummies(r[a])) /\ Cardinality(Dummies(r[a])) \in Nat
  BY DummiesFinite
<1>3. IsFiniteSet({a}) /\ Cardinality({a}) = 1
  BY FS_Singleton
<1>4. Cardinality({a} \X Dummies(r[a])) = 1 * Cardinality(Dummies(r[a]))
  BY <1>2, <1>3, FS_Product
<1> QED BY <1>1, <1>2, <1>4

\* A step that keeps the dummies of the arrays, and who lives.
LEMMA DummiesStay ==
  ASSUME DummiesCounted, dummyRefs' = dummyRefs,
         \A a \in Arrays : Dummies(arr'[a]) = Dummies(arr[a]),
         \A a \in Arrays : arr'[a].refs > 0 <=> arr[a].refs > 0
  PROVE  DummiesCounted'
<1>1. LiveOf(arr') = LiveOf(arr)
  BY DEF LiveOf
<1>2. Pairs(arr', LiveOf(arr)) = Pairs(arr, LiveOf(arr))
  BY PairsSame DEF LiveOf
<1> QED BY <1>1, <1>2 DEF DummiesCounted

\* A step that puts references: an array that nobody has any more puts its dummies.
LEMMA DummiesPut ==
  ASSUME SyncType, DummiesCounted, NEW new, SetArrays(new),
         \A a \in Arrays : Dummies(arr'[a]) = Dummies(arr[a]),
         \A a \in Arrays : arr'[a].refs \in Nat /\ arr'[a].refs <= arr[a].refs
  PROVE  DummiesCounted'
<1> DEFINE freed == {a \in Arrays : arr[a].refs > 0 /\ arr'[a].refs = 0}
<1>1. arr' = new /\ dummyRefs' = dummyRefs - Cardinality(Pairs(arr', freed))
  BY DEF SetArrays, Pairs
<1>2. \A a \in Arrays : arr[a] \in ArrayRec(a) /\ arr[a].refs \in Int
  BY DEF SyncType, ArrType, ArrayRec
<1>3. LiveOf(arr') = LiveOf(arr) \ freed /\ freed \in SUBSET LiveOf(arr) /\ LiveOf(arr) \in SUBSET Arrays
  BY <1>2 DEF LiveOf
<1>4. Pairs(arr', freed) = Pairs(arr, freed) /\ Pairs(arr', LiveOf(arr')) = Pairs(arr, LiveOf(arr'))
  BY PairsSame DEF LiveOf
<1> HIDE DEF freed
<1>5. Cardinality(Pairs(arr, LiveOf(arr) \ freed))
        = Cardinality(Pairs(arr, LiveOf(arr))) - Cardinality(Pairs(arr, freed))
  BY <1>2, <1>3, PairsSplit
<1>6. Cardinality(Pairs(arr, LiveOf(arr))) \in Nat /\ Cardinality(Pairs(arr, freed)) \in Nat
  BY <1>2, <1>3, PairsFinite
<1> QED BY <1>1, <1>3, <1>4, <1>5, <1>6 DEF DummiesCounted

\* Who has references, and how many.
RefsTypes ==
    \A a \in Arrays :
        /\ arr[a].refs \in Nat
        /\ Callers(call, a) # {} \/ a \in fdOpen => arr[a].refs > 0
        /\ ~arr[a].created => arr[a].refs = 0

LEMMA RefsTyped ==
  ASSUME SyncType, AskInv, RefsInv
  PROVE  RefsTypes
<1> SUFFICES ASSUME NEW a \in Arrays
             PROVE  /\ arr[a].refs \in Nat
                    /\ Callers(call, a) # {} \/ a \in fdOpen => arr[a].refs > 0
                    /\ ~arr[a].created => arr[a].refs = 0
  BY DEF RefsTypes
<1>1. arr[a].refs = CountOf(a)
  BY DEF RefsInv, RefsCounted
<1>2. arr[a].refs \in Nat /\ (Callers(call, a) # {} \/ a \in fdOpen => arr[a].refs > 0)
  BY <1>1, CountTypes
<1>3. ASSUME ~arr[a].created
      PROVE  arr[a].refs = 0
  <2>1. a \notin tracked /\ Dummies(arr[a]) = Slots(a)
    BY <1>3 DEF AskInv, Untouched
  <2>2. a \notin fdOpen /\ Callers(call, a) = {} /\ Waiting(wait, a) = {}
    BY <1>3 DEF RefsInv, NewUnused
  <2>3. Slots(a) # {}
    BY SizesFinite DEF Slots
  <2>4. arr[a].callbacks = {}
    BY <2>1, <2>3 DEF RefsInv, Unarmed
  <2>5. /\ Cardinality(arr[a].callbacks) = 0 /\ Cardinality(Callers(call, a)) = 0
        /\ Cardinality(Waiting(wait, a)) = 0 /\ One(a \in tracked) = 0 /\ One(a \in fdOpen) = 0
    BY <2>1, <2>2, <2>4, FS_EmptySet DEF One
  <2> QED BY <1>1, <2>5 DEF CountOf
<1> QED BY <1>2, <1>3

LEMMA DummiesCountedStep ==
  ASSUME SyncType, AskInv, RefsTypes, RefsTypes', DummiesCounted, [Next]_vars
  PROVE  DummiesCounted'
<1>1. \A a \in Arrays : arr[a] \in ArrayRec(a) /\ arr[a].refs \in Nat /\ arr'[a].refs \in Nat
  BY DEF SyncType, ArrType, RefsTypes
<1>2. CASE UNCHANGED vars
  BY <1>2, DummiesStay DEF vars
<1>3. ASSUME NEW new, SetArrays(new), \A a \in Arrays : arr'[a].refs <= arr[a].refs,
             \A a \in Arrays : Dummies(arr'[a]) = Dummies(arr[a])
      PROVE  DummiesCounted'
  BY <1>1, <1>3, DummiesPut
<1>4. ASSUME NEW x \in Arrays, SetArrays([arr EXCEPT ![x] = Put(@, 1)])
      PROVE  DummiesCounted'
  <2>1. PICK one \in Int : one = 1
    OBVIOUS
  <2>2. arr' = [arr EXCEPT ![x] = Put(@, one)]
    BY <1>4, <2>1 DEF SetArrays
  <2>3. \A a \in Arrays : arr'[a].refs = IF a = x THEN arr[a].refs - one ELSE arr[a].refs
    BY <2>2, TakenOf
  <2>4. \A a \in Arrays : arr'[a].refs <= arr[a].refs
    BY <1>1, <2>1, <2>3
  <2>5. \A a \in Arrays : Dummies(arr'[a]) = Dummies(arr[a])
    BY <2>2, TakeOrPut, OnlyRefs DEF SyncType
  <2> QED BY <1>3, <1>4, <2>4, <2>5
<1>5. ASSUME NEW force \in BOOLEAN, ClearTracker(force)
      PROVE  DummiesCounted'
  <2>1. \E new : SetArrays(new)
    BY <1>5 DEF ClearTracker
  <2>2. ASSUME NEW a \in Arrays
        PROVE  arr'[a].refs <= arr[a].refs
    <3>1. arr'[a] = Forget(arr[a], force) \/ arr'[a] = arr[a]
      BY <1>5, ClearIs
    <3>2. Forget(arr[a], force).refs = arr[a].refs - 1
      BY <1>1, ForgetIs
    <3> QED BY <1>1, <3>1, <3>2
  <2>3. \A a \in Arrays : Dummies(arr'[a]) = Dummies(arr[a])
    BY <1>5, ClearIs
  <2> QED BY <1>3, <2>1, <2>2, <2>3
<1>6. ASSUME NEW u \in Users, UserSignals(u)
      PROVE  DummiesCounted'
  <2>1. \E new : SetArrays(new)
    BY <1>6 DEF UserSignals
  <2>2. ASSUME NEW a \in Arrays
        PROVE  arr'[a].refs <= arr[a].refs
    <3>1. PICK q : q = arr'[a] /\ q = CalledBack(arr[a], u)
      BY <1>6, UserIs
    <3>2. PICK k \in Nat : k = Cardinality(Hits(arr[a], u))
      BY <1>1, HitsFinite
    <3>3. q.refs = arr[a].refs - k
      BY <1>1, <3>1, <3>2, CalledBackIs
    <3> QED BY <1>1, <3>1, <3>2, <3>3
  <2>3. \A a \in Arrays : Dummies(arr'[a]) = Dummies(arr[a])
    BY <1>6, UserIs
  <2> QED BY <1>3, <2>1, <2>2, <2>3
<1>7. ASSUME NEW p \in Procs, NEW x \in Arrays, Create(p, x)
      PROVE  DummiesCounted'
  <2>1. /\ \A a \in Arrays : a # x => arr'[a] = arr[a]
        /\ arr'[x] = [arr[x] EXCEPT !.created = TRUE, !.refs = 2]
        /\ ~arr[x].created /\ dummyRefs' = dummyRefs + Size[x]
    BY <1>7, OthersAre DEF Create
  <2>2. arr'[x].refs = 2 /\ arr'[x].child = arr[x].child
    BY <1>1, <2>1 DEF ArrayRec
  <2>3. arr[x].refs = 0 /\ Dummies(arr[x]) = Slots(x)
    BY <2>1 DEF RefsTypes, AskInv, Untouched
  <2>4. \A a \in Arrays : Dummies(arr'[a]) = Dummies(arr[a])
    BY <2>1, <2>2 DEF Dummies
  <2>5. LiveOf(arr') = LiveOf(arr) \cup {x} /\ x \notin LiveOf(arr) /\ LiveOf(arr) \subseteq Arrays
    <3>1. \A a \in Arrays : a \in LiveOf(arr) <=> arr[a].refs > 0
      BY DEF LiveOf
    <3>2. \A a \in Arrays : a \in LiveOf(arr') <=> arr'[a].refs > 0
      BY DEF LiveOf
    <3>3. LiveOf(arr) \subseteq Arrays /\ LiveOf(arr') \subseteq Arrays
      BY DEF LiveOf
    <3>4. \A a \in Arrays : a # x => arr'[a].refs = arr[a].refs
      BY <2>1
    <3>5. x \in LiveOf(arr') /\ x \notin LiveOf(arr)
      BY <2>2, <2>3, <3>1, <3>2
    <3> QED BY <3>1, <3>2, <3>3, <3>4, <3>5
  <2>6. Pairs(arr', LiveOf(arr')) = Pairs(arr, LiveOf(arr'))
    BY <2>4, PairsSame DEF LiveOf
  <2>7. PICK L : L = LiveOf(arr') /\ L \subseteq Arrays
    BY DEF LiveOf
  <2>8. L \ {x} = LiveOf(arr) /\ {x} \in SUBSET L
    BY <2>5, <2>7
  <2>9. Cardinality(Pairs(arr, L \ {x})) = Cardinality(Pairs(arr, L)) - Cardinality(Pairs(arr, {x}))
    BY <1>1, <2>7, <2>8, PairsSplit
  <2>10. Cardinality(Pairs(arr, {x})) = Size[x] /\ Size[x] \in Nat
    BY <1>1, <2>3, PairsOfOne, SizesFinite
  <2>11. Cardinality(Pairs(arr, L)) \in Nat
    BY <1>1, <2>7, PairsFinite
  <2>12. dummyRefs = 1 + Cardinality(Pairs(arr, L \ {x}))
    BY <2>8 DEF DummiesCounted
  <2>13. dummyRefs' = 1 + Cardinality(Pairs(arr, L))
    BY <2>1, <2>9, <2>10, <2>11, <2>12
  <2>14. Pairs(arr', LiveOf(arr')) = Pairs(arr, L)
    BY <2>6, <2>7
  <2> QED BY <2>13, <2>14 DEF DummiesCounted
<1>8. ASSUME NEW x \in Arrays, x \in fdOpen, arr' = [arr EXCEPT ![x].refs = @ + 1], dummyRefs' = dummyRefs
      PROVE  DummiesCounted'
  <2>1. PICK m \in Int : m = -1
    OBVIOUS
  <2>2. arr' = [arr EXCEPT ![x].refs = arr[x].refs - m]
    <3>1. arr[x].refs + 1 = arr[x].refs - m
      BY <1>1, <2>1
    <3> QED BY <1>8, <3>1 DEF SyncType, ArrType
  <2>3. \A a \in Arrays : arr'[a].refs = IF a = x THEN arr[a].refs - m ELSE arr[a].refs
    BY <2>2, TakenOf
  <2>4. arr[x].refs > 0
    BY <1>8 DEF RefsTypes
  <2>5. \A a \in Arrays : arr'[a].refs > 0 <=> arr[a].refs > 0
    BY <1>1, <2>1, <2>3, <2>4
  <2>6. \A a \in Arrays : Dummies(arr'[a]) = Dummies(arr[a])
    BY <2>2, TakeOrPut, OnlyRefs DEF SyncType
  <2> QED BY <1>8, <2>5, <2>6, DummiesStay
<1>9. ASSUME NEW p \in Procs, ReplaceChildren(p)
      PROVE  DummiesCounted'
  <2>1. PICK x \in Arrays : x = call[p].array
    BY <1>9 DEF ReplaceChildren, At, SyncType, CallType
  <2>2. /\ arr'[x].refs = arr[x].refs /\ Good(p) \subseteq Slots(x)
        /\ Dummies(arr'[x]) = Dummies(arr[x]) \ Good(p)
        /\ \A a \in Arrays : a # x => arr'[a] = arr[a]
    BY <1>9, <2>1, ReplaceIs, ReplaceOthers
  <2>3. dummyRefs' = dummyRefs - Cardinality(Good(p))
    BY <1>9 DEF ReplaceChildren, PutDummies
  <2>4. Dummies(arr[x]) = Slots(x)
    BY <1>9, <2>1 DEF AskInv, StillUnbound, Binds, ReplaceChildren, At
  <2>5. x \in LiveOf(arr) /\ LiveOf(arr) \subseteq Arrays
    <3>1. Callers(call, x) # {}
      BY <2>1 DEF Callers
    <3> QED BY <3>1 DEF RefsTypes, LiveOf
  <2>6. LiveOf(arr') = LiveOf(arr)
    BY <2>2 DEF LiveOf
  <2>7. PICK L, R : L = LiveOf(arr) /\ R = L \ {x}
    OBVIOUS
  <2>8. Pairs(arr', R) = Pairs(arr, R)
    <3>1. \A a \in R : Dummies(arr'[a]) = Dummies(arr[a])
      BY <2>2, <2>5, <2>7
    <3> QED BY <3>1, PairsSame
  <2>9. ASSUME NEW r, \A a \in Arrays : r[a] \in ArrayRec(a)
        PROVE  /\ Cardinality(Pairs(r, R)) = Cardinality(Pairs(r, L)) - Cardinality(Dummies(r[x]))
               /\ Cardinality(Pairs(r, L)) \in Nat
    <3>1. L \in SUBSET Arrays /\ {x} \in SUBSET L
      BY <2>5, <2>7
    <3>2. Cardinality(Pairs(r, L \ {x})) = Cardinality(Pairs(r, L)) - Cardinality(Pairs(r, {x}))
      BY <2>9, <3>1, PairsSplit
    <3>3. Cardinality(Pairs(r, {x})) = Cardinality(Dummies(r[x]))
      BY <2>9, PairsOfOne
    <3>4. Cardinality(Pairs(r, L)) \in Nat
      BY <2>9, <3>1, PairsFinite
    <3> QED BY <2>7, <3>2, <3>3, <3>4
  <2>10. ArrType'
    BY <1>9, <2>1, ReplaceIs
  <2>11. PICK G : G = Good(p) /\ G \subseteq Slots(x)
    BY <2>2
  <2>12. Cardinality(Slots(x) \ G) = Cardinality(Slots(x)) - Cardinality(G)
    <3>1. IsFiniteSet(Slots(x)) /\ Slots(x) \cap G = G
      BY <2>11, SizesFinite
    <3> QED BY <3>1, FS_Difference
  <2>13. Cardinality(Slots(x)) \in Nat /\ Cardinality(G) \in Nat
    BY <2>11, SizesFinite
  <2>14. Cardinality(Pairs(arr, R)) = Cardinality(Pairs(arr, L)) - Cardinality(Slots(x))
         /\ Cardinality(Pairs(arr, L)) \in Nat
    BY <1>1, <2>4, <2>9
  <2>15. Cardinality(Pairs(arr', R)) = Cardinality(Pairs(arr', L)) - Cardinality(Slots(x) \ G)
         /\ Cardinality(Pairs(arr', L)) \in Nat
    <3>1. Dummies(arr'[x]) = Slots(x) \ G
      BY <2>2, <2>4, <2>11
    <3> QED BY <2>9, <2>10, <3>1 DEF ArrType
  <2>16. Cardinality(Pairs(arr', L)) = Cardinality(Pairs(arr, L)) - Cardinality(G)
    BY <2>8, <2>12, <2>13, <2>14, <2>15
  <2>17. dummyRefs = 1 + Cardinality(Pairs(arr, L))
    BY <2>7 DEF DummiesCounted
  <2> QED BY <2>3, <2>6, <2>7, <2>11, <2>13, <2>14, <2>16, <2>17 DEF DummiesCounted
<1>10. ASSUME NEW p \in Procs, Enable(p)
       PROVE  DummiesCounted'
  <2>1. PICK x \in Arrays : x = call[p].array
    BY <1>10 DEF Enable, At, SyncType, CallType
  <2>2. PICK r, q : /\ r \in ArrayRec(x) /\ r = arr[x] /\ q = arr'[x] /\ q = EnableSignaling(r)
                    /\ \A a \in Arrays : a # x => arr'[a] = arr[a]
    BY <1>10, <2>1, OthersAre
  <2>3. q = EnableSignaling(r) /\ r \in ArrayRec(x)
    BY <2>2
  <2>4. q.child = r.child
    BY <2>3, EnableIs
  <2>5. \A a \in Arrays : Dummies(arr'[a]) = Dummies(arr[a])
    BY <2>2, <2>4 DEF Dummies
  <2>6. call'[p].array = call[p].array
    BY <1>10 DEF Enable, Goto, SyncType, CallType, CallRec
  <2>7. x \in Arrays /\ Callers(call, x) # {} /\ Callers(call', x) # {}
    BY <2>1, <2>6 DEF Callers
  <2>8. arr[x].refs > 0 /\ arr'[x].refs > 0
    BY <2>7 DEF RefsTypes
  <2>9. \A a \in Arrays : arr'[a].refs > 0 <=> arr[a].refs > 0
    BY <2>2, <2>8
  <2>10. dummyRefs' = dummyRefs
    BY <1>10 DEF Enable
  <2> QED BY <2>5, <2>9, <2>10, DummiesStay
<1>11. ASSUME NEW p \in Procs, Open(p) \/ Track(p) \/ CheckBind(p)
       PROVE  DummiesCounted'
  BY <1>11, DummiesStay DEF Open, Track, CheckBind
<1>12. ASSUME NEW p \in Procs, SetBound(p) \/ Fail(p)
       PROVE  DummiesCounted'
  <2>1. PICK x \in Arrays : x = call[p].array
    BY <1>12 DEF SetBound, Fail, At, SyncType, CallType
  <2>2. /\ \A a \in Arrays : a # x => arr'[a] = arr[a]
        /\ \/ arr'[x] = [arr[x] EXCEPT !.bound = TRUE]
           \/ arr'[x] = [arr[x] EXCEPT !.error = TRUE, !.signalled = TRUE]
    BY <1>12, <2>1, OthersAre
  <2>3. arr'[x].refs = arr[x].refs /\ arr'[x].child = arr[x].child
    BY <1>1, <2>2 DEF ArrayRec
  <2>4. dummyRefs' = dummyRefs
    BY <1>12 DEF SetBound, Fail
  <2>5. \A a \in Arrays : arr'[a].refs = arr[a].refs /\ arr'[a].child = arr[a].child
    BY <2>2, <2>3
  <2>6. \A a \in Arrays : Dummies(arr'[a]) = Dummies(arr[a])
    BY <2>5 DEF Dummies
  <2> QED BY <2>4, <2>5, <2>6, DummiesStay
<1>13. ASSUME NEW p \in Procs, Release(p)
       PROVE  DummiesCounted'
  <2>1. CASE UNCHANGED <<arr, tracked, dummyRefs>>
    BY <2>1, DummiesStay
  <2>2. CASE ClearTracker(TRUE)
    <3>1. PICK force \in BOOLEAN : force = TRUE
      OBVIOUS
    <3> QED BY <1>5, <2>2, <3>1
  <2> QED BY <1>13, <2>1, <2>2 DEF Release
<1>14. ASSUME NEW p \in Procs, Prune(p)
       PROVE  DummiesCounted'
  <2>1. PICK force \in BOOLEAN : force = FALSE
    OBVIOUS
  <2> QED BY <1>5, <1>14, <2>1 DEF Prune
<1>15. ASSUME NEW p \in Procs, PutFence(p)
       PROVE  DummiesCounted'
  BY <1>4, <1>15 DEF PutFence, At, SyncType, CallType
<1>16. ASSUME NEW w \in Waiters, EndWait(w) \/ TimeOut(w)
       PROVE  DummiesCounted'
  BY <1>4, <1>16 DEF EndWait, TimeOut, EndsWait, SyncType, WaitType
<1>17. ASSUME NEW p \in Procs, NEW x \in Arrays, NEW fds, StartBind(p, x, fds)
       PROVE  DummiesCounted'
  BY <1>8, <1>17 DEF StartBind
<1>18. ASSUME NEW w \in Waiters, NEW x \in Arrays, StartWait(w, x)
       PROVE  DummiesCounted'
  BY <1>8, <1>18 DEF StartWait
<1>19. ASSUME NEW x \in Arrays, CloseFence(x)
       PROVE  DummiesCounted'
  BY <1>4, <1>19 DEF CloseFence
<1>20. CASE \E p \in Procs : ProcStep(p)
  BY <1>7, <1>9, <1>10, <1>11, <1>12, <1>13, <1>14, <1>15, <1>17, <1>20 DEF ProcStep
<1> QED BY <1>2, <1>6, <1>16, <1>18, <1>19, <1>20 DEF Next

LEMMA InitDummies == Init => DummiesCounted
<1> SUFFICES ASSUME Init PROVE DummiesCounted
  OBVIOUS
<1>1. LiveOf(arr) = {}
  BY DEF Init, Uncreated, LiveOf
<1>2. Cardinality(Pairs(arr, LiveOf(arr))) = 0
  BY <1>1, FS_EmptySet DEF Pairs
<1> QED BY <1>2 DEF Init, DummiesCounted

\* "we must keep an extra refcount for every time that the fence-array->release can
\* decrement its children's refcount": unless two binds of an array overlap, the dummy
\* fence has one for every dummy of an array that lives, and its own.
THEOREM DummiesInvariant ==
  ASSUME OneBinder
  PROVE  Spec => []DummiesCounted
<1>1. SyncType /\ AskInv /\ RefsInv => RefsTypes
  BY RefsTyped
<1>2. SyncType /\ AskInv /\ RefsTypes /\ RefsTypes' /\ DummiesCounted /\ [Next]_vars => DummiesCounted'
  BY DummiesCountedStep
<1> QED BY <1>1, <1>2, InitDummies, TypeInvariant, AskInvariant, RefsInvariant, PTL DEF Spec

\* fence_array_put and dma_fence_array_release: unless two binds of an array overlap,
\* an array has exactly the references of the tracker's list, its descriptor, the binds,
\* the armed callbacks and the waits about it, and the dummy fence those of the slots
\* that still hold it and its own.
THEOREM RefsHold ==
  ASSUME OneBinder
  PROVE  Spec => []RefsExact
<1>1. ASSUME SyncType, RefsTypes, RefsInv, DummiesCounted
      PROVE  RefsExact
  <2>1. \A a \in Arrays : arr[a] \in ArrayRec(a) /\ arr[a].refs \in Nat
    BY <1>1 DEF SyncType, ArrType, RefsTypes
  <2>2. dummyRefs = 1 + Cardinality(UNION {{a} \X Dummies(arr[a]) : a \in {b \in Arrays : Live(b)}})
    BY <1>1 DEF DummiesCounted, Pairs, LiveOf, Live
  <2>3. dummyRefs \in Nat
    <3>1. LiveOf(arr) \in SUBSET Arrays
      BY DEF LiveOf
    <3>2. Cardinality(Pairs(arr, LiveOf(arr))) \in Nat
      BY <2>1, <3>1, PairsFinite
    <3> QED BY <1>1, <3>2 DEF DummiesCounted
  <2>4. TypeOK
    <3>1. \A a \in Arrays : /\ arr[a].pending \in Int
                            /\ arr[a].child \in [Slots(a) -> Users \cup {Dummy}]
                            /\ arr[a].callbacks \subseteq Slots(a)
      BY <2>1 DEF ArrayRec
    <3>2. \A p \in Procs : call[p].array \in Arrays \cup {None} /\ binds[p] \in 0..MaxBinds
      BY <1>1 DEF SyncType, CallType, RestType, CallRec
    <3>3. \A w \in Waiters : wait[w].pc \in {"idle", "waiting", "returned", "timedOut"}
      BY <1>1 DEF SyncType, WaitType, WaitRec
    <3> QED BY <1>1, <2>1, <2>3, <3>1, <3>2, <3>3 DEF TypeOK, SyncType, RestType
  <2>5. ASSUME NEW a \in Arrays
        PROVE  arr[a].refs = Cardinality({x \in {"list"} : a \in tracked})
                           + Cardinality({x \in {"fd"} : a \in fdOpen})
                           + Cardinality({p \in Procs : call[p].array = a})
                           + Cardinality(arr[a].callbacks)
                           + Cardinality({w \in Waiters : wait[w] = [pc |-> "waiting", array |-> a]})
    <3>1. Cardinality({x \in {"list"} : a \in tracked}) = One(a \in tracked)
      <4>1. PICK s : s = {x \in {"list"} : a \in tracked}
        OBVIOUS
      <4>2. /\ a \in tracked => s = {"list"}
            /\ ~(a \in tracked) => s = {}
        BY <4>1
      <4> QED BY <4>1, <4>2, OneOf
    <3>2. Cardinality({x \in {"fd"} : a \in fdOpen}) = One(a \in fdOpen)
      <4>1. PICK s : s = {x \in {"fd"} : a \in fdOpen}
        OBVIOUS
      <4>2. /\ a \in fdOpen => s = {"fd"}
            /\ ~(a \in fdOpen) => s = {}
        BY <4>1
      <4> QED BY <4>1, <4>2, OneOf
    <3>3. arr[a].refs = CountOf(a)
      BY <1>1 DEF RefsInv, RefsCounted
    <3> QED BY <3>1, <3>2, <3>3 DEF CountOf, Callers, Waiting, WaitFor
  <2> QED BY <2>2, <2>4, <2>5 DEF RefsExact
<1>2. SyncType /\ AskInv /\ RefsInv => RefsTypes
  BY RefsTyped
<1> QED BY <1>1, <1>2, TypeInvariant, AskInvariant, RefsInvariant, DummiesInvariant, PTL
====
