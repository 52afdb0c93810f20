------------------------ MODULE ValidationClientProofs ------------------------
(***************************************************************************)
(* Proofs about ValidationClient, for any number of files, of client       *)
(* objects and of client ids.                                              *)
(***************************************************************************)
EXTENDS ValidationClient, TLAPS

FilePc == {"idle", "resources", "waitQueue", "unlink", "free", "wait", "clear", "read"}

FileRec == [pc : FilePc, handle : Handles \cup {Null, Err}, id : Ids, fence : Fences \cup {Null}]

\* What a file may be, in more detail than TypeOK.
FileType ==
    /\ TypeOK
    /\ file \in [Files -> FileRec]
    /\ rxq \in [Ids -> Seq(Fences)] /\ unsent \in [Ids -> SUBSET Fences]

\* A file that is inside a call holds the object the call is about, and the object
\* of a file lives: only that file frees it, and then forgets it.
HandleLives ==
    \A f \in Files :
        /\ ~At(f, "idle") => file[f].handle \in Handles
        /\ file[f].handle \in Handles => object[file[f].handle] \in {"published", "ready"}

\* Every pointer of the table is the handle of a file that has not unlinked it.
PointerOwned ==
    \A id \in Ids : clients[id] # Null =>
        \E f \in Files : file[f].handle = clients[id] /\ file[f].id = id /\ ~At(f, "free")

ClientInv == HandleLives /\ OwnClient /\ PointerOwned

-----------------------------------------------------------------------------
\* A wait clears val_signal, then reads, then returns.
LEMMA Order == After["wait"] = "clear" /\ After["clear"] = "read" /\ After["read"] = "idle"
BY DEF After

\* Every action of a file writes that file's record only, as a whole record.
LEMMA FileStepType ==
  ASSUME NEW f \in Files, FileStep(f), file \in [Files -> FileRec]
  PROVE  file' \in [Files -> FileRec]
<1>1. ASSUME NEW r \in FileRec, file' = [file EXCEPT ![f] = r]
      PROVE  file' \in [Files -> FileRec]
  BY <1>1
<1>2. ASSUME NEW p \in FilePc, Goto(f, p) PROVE file' \in [Files -> FileRec]
  <2>1. [file[f] EXCEPT !.pc = p] \in FileRec
    BY DEF FileRec
  <2>2. file' = [file EXCEPT ![f] = [file[f] EXCEPT !.pc = p]]
    BY <1>2 DEF Goto
  <2> QED BY <2>1, <2>2, <1>1
<1>3. ASSUME ReturnTo(f, "idle") PROVE file' \in [Files -> FileRec]
  <2>1. [file[f] EXCEPT !.pc = "idle", !.fence = Null] \in FileRec
    BY DEF FileRec, FilePc
  <2> QED BY <2>1, <1>1, <1>3 DEF ReturnTo
<1>4. ASSUME NEW id \in Ids, NEW h \in Handles, RegClient(f, id, h)
      PROVE  file' \in [Files -> FileRec]
  <2>1. /\ [file[f] EXCEPT !.pc = "resources", !.handle = h, !.id = id] \in FileRec
        /\ [file[f] EXCEPT !.handle = Err, !.id = id] \in FileRec
    BY DEF FileRec, FilePc
  <2> QED BY <2>1, <1>1, <1>4 DEF RegClient
<1>5. CASE FreeClient(f)
  <2>1. [file[f] EXCEPT !.pc = "idle", !.handle = Err] \in FileRec
    BY DEF FileRec, FilePc
  <2> QED BY <2>1, <1>1, <1>5 DEF FreeClient
<1>6. ASSUME NEW x \in Fences, StartWait(f, x) PROVE file' \in [Files -> FileRec]
  <2>1. [file[f] EXCEPT !.pc = "wait", !.fence = x] \in FileRec
    BY DEF FileRec, FilePc
  <2> QED BY <2>1, <1>1, <1>6 DEF StartWait
<1>7. CASE \/ InitResources(f) \/ InitWaitQueue(f) \/ UnregClient(f) \/ Unlink(f)
           \/ WaitEvent(f) \/ ClearSignal(f)
  <2>1. \E p \in FilePc : Goto(f, p)
    BY <1>7, Order
       DEF InitResources, InitWaitQueue, UnregClient, Unlink, WaitEvent, ClearSignal, FilePc
  <2> QED BY <2>1, <1>2
<1>8. CASE WaitTimeout(f) \/ ReadPayload(f) \/ ReadNothing(f)
  BY <1>8, <1>3, Order DEF WaitTimeout, ReadPayload, ReadNothing
<1> QED BY <1>4, <1>5, <1>6, <1>7, <1>8 DEF FileStep

\* The records of the other files stay as they are.
LEMMA OtherFiles ==
  ASSUME NEW f \in Files, FileStep(f), file \in [Files -> FileRec], NEW g \in Files \ {f}
  PROVE  file'[g] = file[g]
BY DEF FileStep, RegClient, InitResources, InitWaitQueue, UnregClient, Unlink, FreeClient,
       StartWait, WaitEvent, WaitTimeout, ClearSignal, ReadPayload, ReadNothing, ReturnTo, Goto

\* The type invariant of the clients table, the objects and the files.
THEOREM TypeCorrect == Spec => []FileType
<1>1. Init => FileType
  <2> SUFFICES ASSUME Init PROVE FileType
    OBVIOUS
  <2>1. file \in [Files -> FileRec] /\ \A f \in Files : file[f].handle = Null /\ file[f].id \in Ids
    BY ValidationAssumption DEF Init, FileRec, FilePc
  <2> QED BY <2>1, ValidationAssumption DEF Init, FileType, TypeOK
<1>2. FileType /\ [Next]_vars => FileType'
  <2> SUFFICES ASSUME FileType, [Next]_vars PROVE FileType'
    OBVIOUS
  <2>1. file' \in [Files -> FileRec]
    <3>1. file \in [Files -> FileRec]
      BY DEF FileType
    <3> QED BY <3>1, FileStepType DEF Next, HwFenceCb, CtlSignal, vars
  <2>2. \A f \in Files : /\ file'[f].handle \in Handles \cup {Null, Err} /\ file'[f].id \in Ids
                         /\ file[f].handle \in Handles \cup {Null, Err} /\ file[f].id \in Ids
    BY <2>1 DEF FileRec, FileType
  <2>3. clients' \in [Ids -> Handles \cup {Null}]
    <3>1. clients \in [Ids -> Handles \cup {Null}]
      BY DEF FileType, TypeOK
    <3>2. ASSUME NEW f \in Files, NEW id \in Ids, NEW h \in Handles, RegClient(f, id, h)
          PROVE  clients' \in [Ids -> Handles \cup {Null}]
      <4>1. clients' = [clients EXCEPT ![id] = h] \/ clients' = clients
        BY <3>2 DEF RegClient
      <4> QED BY <3>1, <4>1
    <3>3. ASSUME NEW f \in Files, Unlink(f) PROVE clients' \in [Ids -> Handles \cup {Null}]
      BY <3>1, <3>3 DEF Unlink, ClearPointer
    <3>4. CASE UNCHANGED clients
      BY <3>1, <3>4
    <3> QED BY <3>2, <3>3, <3>4 DEF Next, vars, FileStep, InitResources, InitWaitQueue,
      UnregClient, FreeClient, StartWait, WaitEvent, WaitTimeout, ClearSignal,
      ReadPayload, ReadNothing, HwFenceCb, CtlSignal
  <2>4. object' \in [Handles -> {"unused", "published", "ready", "freed"}]
    <3>1. object \in [Handles -> {"unused", "published", "ready", "freed"}]
      BY DEF FileType, TypeOK
    <3>2. ASSUME NEW h, NEW s \in {"published", "ready", "freed"}, object' = [object EXCEPT ![h] = s]
          PROVE  object' \in [Handles -> {"unused", "published", "ready", "freed"}]
      BY <3>1, <3>2
    <3>3. ASSUME NEW f \in Files, NEW id \in Ids, NEW h \in Handles, RegClient(f, id, h)
          PROVE  object' \in [Handles -> {"unused", "published", "ready", "freed"}]
      BY <3>2, <3>3 DEF RegClient
    <3>4. ASSUME NEW f \in Files, InitWaitQueue(f) \/ FreeClient(f)
          PROVE  object' \in [Handles -> {"unused", "published", "ready", "freed"}]
      BY <3>2, <3>4 DEF InitWaitQueue, FreeClient
    <3>5. CASE UNCHANGED object
      BY <3>1, <3>5
    <3> QED BY <3>3, <3>4, <3>5 DEF Next, vars, FileStep, InitResources, UnregClient, Unlink,
      StartWait, WaitEvent, WaitTimeout, ClearSignal, ReadPayload, ReadNothing,
      HwFenceCb, CtlSignal
  <2>5. valSignal' \in [Handles -> BOOLEAN]
    <3>1. valSignal \in [Handles -> BOOLEAN] /\ clients \in [Ids -> Handles \cup {Null}]
      BY DEF FileType, TypeOK
    <3>2. CASE \E f \in Files : ClearSignal(f)
      BY <3>1, <3>2 DEF ClearSignal
    <3>3. ASSUME NEW id \in Ids, HwFenceCb(id) PROVE valSignal' \in [Handles -> BOOLEAN]
      <4>1. CASE clients[id] = Null
        BY <3>1, <3>3, <4>1 DEF HwFenceCb
      <4>2. CASE clients[id] # Null
        <5>1. DOMAIN valSignal \cup {clients[id]} = Handles
          BY <3>1, <4>2
        <5>2. valSignal' = [g \in Handles |-> g = clients[id] \/ valSignal[g]]
          BY <3>3, <4>2, <5>1 DEF HwFenceCb, SetSignal
        <5> QED BY <5>2
      <4> QED BY <4>1, <4>2
    <3>4. CASE UNCHANGED valSignal
      BY <3>1, <3>4
    <3> QED BY <3>2, <3>3, <3>4 DEF Next, vars, FileStep, RegClient, InitResources, InitWaitQueue,
      UnregClient, Unlink, FreeClient, StartWait, WaitEvent, WaitTimeout,
      ReadPayload, ReadNothing, CtlSignal
  <2>6. rxq' \in [Ids -> Seq(Fences)] /\ unsent' \in [Ids -> SUBSET Fences] /\ doorbell' \subseteq Ids
    <3>1. rxq \in [Ids -> Seq(Fences)] /\ unsent \in [Ids -> SUBSET Fences] /\ doorbell \subseteq Ids
      BY DEF FileType, TypeOK
    <3>2. ASSUME NEW f \in Files, ReadPayload(f)
          PROVE  rxq' \in [Ids -> Seq(Fences)] /\ UNCHANGED <<unsent, doorbell>>
      <4>1. rxq[file[f].id] # <<>> /\ rxq[file[f].id] \in Seq(Fences)
        BY <3>1, <3>2, <2>2 DEF ReadPayload
      <4>2. Tail(rxq[file[f].id]) \in Seq(Fences)
        BY <4>1
      <4> QED BY <3>1, <3>2, <4>2 DEF ReadPayload
    <3>3. ASSUME NEW id \in Ids, NEW x \in Fences, CtlSignal(id, x)
          PROVE  /\ rxq' \in [Ids -> Seq(Fences)] /\ unsent' \in [Ids -> SUBSET Fences]
                 /\ doorbell' \subseteq Ids
      <4>1. Append(rxq[id], x) \in Seq(Fences)
        BY <3>1
      <4>2. unsent[id] \ {x} \in SUBSET Fences
        BY <3>1
      <4> QED BY <3>1, <3>3, <4>1, <4>2 DEF CtlSignal
    <3>4. CASE \/ UNCHANGED <<rxq, unsent, doorbell>>
               \/ \E id \in Ids : HwFenceCb(id)
      BY <3>1, <3>4 DEF HwFenceCb
    <3> QED BY <3>1, <3>2, <3>3, <3>4 DEF Next, vars, FileStep, RegClient, InitResources,
      InitWaitQueue, UnregClient, Unlink, FreeClient, StartWait, WaitEvent, WaitTimeout,
      ClearSignal, ReadNothing
  <2>7. waits' \in [Files -> 0..MaxWaits]
    <3>1. waits \in [Files -> 0..MaxWaits] /\ MaxWaits \in Nat
      BY ValidationAssumption DEF FileType, TypeOK
    <3>2. ASSUME NEW f \in Files, NEW x \in Fences, StartWait(f, x)
          PROVE  waits' \in [Files -> 0..MaxWaits]
      BY <3>1, <3>2 DEF StartWait
    <3>3. CASE UNCHANGED waits
      BY <3>1, <3>3
    <3> QED BY <3>2, <3>3 DEF Next, vars, FileStep, RegClient, InitResources, InitWaitQueue,
      UnregClient, Unlink, FreeClient, WaitEvent, WaitTimeout, ClearSignal,
      ReadPayload, ReadNothing, HwFenceCb, CtlSignal
  <2>8. left' \in [Ids -> Nat]
    <3>1. left \in [Ids -> Nat] /\ rxq \in [Ids -> Seq(Fences)]
      BY DEF FileType, TypeOK
    <3>2. ASSUME NEW id, NEW n \in Nat, left' = [left EXCEPT ![id] = n] PROVE left' \in [Ids -> Nat]
      BY <3>1, <3>2
    <3>3. ASSUME NEW f \in Files, NEW id \in Ids, NEW h \in Handles, RegClient(f, id, h)
          PROVE  left' \in [Ids -> Nat]
      <4>1. Len(rxq[id]) \in Nat
        BY <3>1
      <4> QED BY <3>1, <3>2, <3>3, <4>1 DEF RegClient
    <3>4. ASSUME NEW f \in Files, ReadPayload(f) PROVE left' \in [Ids -> Nat]
      <4>1. rxq[file[f].id] # <<>> /\ rxq[file[f].id] \in Seq(Fences)
        BY <3>1, <3>4, <2>2 DEF ReadPayload
      <4>2. Len(rxq[file[f].id]) - 1 \in Nat
        BY <4>1
      <4> QED BY <3>2, <3>4, <4>2 DEF ReadPayload
    <3>5. CASE UNCHANGED left
      BY <3>1, <3>5
    <3> QED BY <3>3, <3>4, <3>5 DEF Next, vars, FileStep, InitResources, InitWaitQueue,
      UnregClient, Unlink, FreeClient, StartWait, WaitEvent, WaitTimeout, ClearSignal,
      ReadNothing, HwFenceCb, CtlSignal
  <2> QED BY <2>1, <2>2, <2>3, <2>4, <2>5, <2>6, <2>7, <2>8 DEF FileType, TypeOK
<1> QED BY <1>1, <1>2, PTL DEF Spec

-----------------------------------------------------------------------------
\* A step that registers, unlinks and frees nothing keeps the invariant.
LEMMA InvKept ==
  ASSUME ClientInv, UNCHANGED clients,
         \A f \in Files : file'[f].handle = file[f].handle /\ file'[f].id = file[f].id,
         \A f \in Files : file'[f].pc = "free" <=> file[f].pc = "free",
         \A f \in Files : file'[f].pc # "idle" => file[f].handle \in Handles,
         \A h \in Handles :
            object[h] \in {"published", "ready"} => object'[h] \in {"published", "ready"}
  PROVE  ClientInv'
BY DEF ClientInv, HandleLives, OwnClient, PointerOwned, At

LEMMA ClientInvStep ==
  ASSUME FileType, ClientInv, [Next]_vars
  PROVE  ClientInv'
<1>1. /\ clients \in [Ids -> Handles \cup {Null}]
      /\ object \in [Handles -> {"unused", "published", "ready", "freed"}]
      /\ file \in [Files -> FileRec]
  BY DEF FileType, TypeOK
<1>2. \A f \in Files : file[f].id \in Ids /\ file[f].handle \in Handles \cup {Null, Err}
  BY DEF FileType, TypeOK
<1>3. Null \notin Handles /\ Err \notin Handles
  BY ValidationAssumption
<1>4. \A f \in Files : /\ file[f].pc # "idle" => file[f].handle \in Handles
                       /\ file[f].handle \in Handles =>
                            object[file[f].handle] \in {"published", "ready"}
                       /\ file[f].handle \in Handles /\ file[f].pc # "free" =>
                            clients[file[f].id] = file[f].handle
  BY DEF ClientInv, HandleLives, OwnClient, At
<1>5. \A f, g \in Files :
        file[f].handle \in Handles /\ file[f].handle = file[g].handle => f = g
  BY DEF ClientInv, OwnClient
<1>6. \A id \in Ids : clients[id] # Null =>
        \E f \in Files : file[f].handle = clients[id] /\ file[f].id = id /\ file[f].pc # "free"
  BY DEF ClientInv, PointerOwned, At
<1>7. CASE UNCHANGED vars
  BY <1>4, <1>7, InvKept DEF vars
<1>8. ASSUME NEW f \in Files, FileStep(f) PROVE ClientInv'
  <2>0. \A g \in Files \ {f} : file'[g] = file[g]
    BY <1>1, <1>8, OtherFiles
  <2>1. ASSUME NEW id \in Ids, NEW h \in Handles, RegClient(f, id, h) PROVE ClientInv'
    <3>1. /\ file[f].pc = "idle" /\ file[f].handle = Null /\ object[h] = "unused"
      BY <2>1 DEF RegClient, At
    <3>2. \A g \in Files : file[g].handle # h
      BY <1>4, <3>1
    <3>3. CASE FreeId(id)
      <4>1. /\ file' = [file EXCEPT ![f] = [file[f] EXCEPT !.pc = "resources", !.handle = h, !.id = id]]
            /\ clients' = [clients EXCEPT ![id] = h]
            /\ object' = [object EXCEPT ![h] = "published"]
        BY <2>1, <3>3 DEF RegClient
      <4>2. file'[f].pc = "resources" /\ file'[f].handle = h /\ file'[f].id = id
        BY <4>1, <1>1 DEF FileRec
      <4>3. clients[id] = Null
        BY <3>3 DEF FreeId
      <4>4. HandleLives'
        BY <1>1, <1>4, <2>0, <3>2, <4>1, <4>2 DEF HandleLives, At
      <4>5. OwnClient'
        BY <1>1, <1>2, <1>3, <1>4, <1>5, <2>0, <3>2, <4>1, <4>2, <4>3 DEF OwnClient, At
      <4>6. PointerOwned'
        BY <1>1, <1>3, <1>6, <2>0, <3>1, <4>1, <4>2 DEF PointerOwned, At
      <4> QED BY <4>4, <4>5, <4>6 DEF ClientInv
    <3>4. CASE ~FreeId(id)
      <4>1. /\ file' = [file EXCEPT ![f] = [file[f] EXCEPT !.handle = Err, !.id = id]]
            /\ UNCHANGED clients
            /\ object' = [object EXCEPT ![h] = "freed"]
        BY <2>1, <3>4 DEF RegClient
      <4>2. file'[f].pc = "idle" /\ file'[f].handle = Err
        BY <3>1, <4>1, <1>1 DEF FileRec
      <4>3. HandleLives'
        BY <1>1, <1>3, <1>4, <2>0, <3>2, <4>1, <4>2 DEF HandleLives, At
      <4>4. OwnClient'
        BY <1>3, <1>4, <1>5, <2>0, <4>1, <4>2 DEF OwnClient, At
      <4>5. PointerOwned'
        BY <1>3, <1>6, <2>0, <3>1, <4>1, <4>2 DEF PointerOwned, At
      <4> QED BY <4>3, <4>4, <4>5 DEF ClientInv
    <3> QED BY <3>3, <3>4
  <2>2. ASSUME NEW p \in FilePc \ {"idle", "free"}, file[f].pc # "free", file[f].handle \in Handles,
               Goto(f, p), UNCHANGED <<clients, object>>
        PROVE  ClientInv'
    <3>1. file'[f].pc = p /\ file'[f].handle = file[f].handle /\ file'[f].id = file[f].id
      BY <1>1, <2>2 DEF Goto, FileRec
    <3> QED BY <1>4, <2>0, <2>2, <3>1, InvKept
  <2>3. CASE InitResources(f)
    BY <1>4, <2>2, <2>3 DEF InitResources, At, FilePc
  <2>4. CASE InitWaitQueue(f)
    <3>1. /\ file[f].pc = "waitQueue" /\ UNCHANGED clients
          /\ object' = [object EXCEPT ![file[f].handle] = "ready"]
          /\ file'[f].pc = "idle"
          /\ file'[f].handle = file[f].handle /\ file'[f].id = file[f].id
      BY <1>1, <2>4 DEF InitWaitQueue, Goto, At, FileRec
    <3> QED BY <1>1, <1>4, <2>0, <3>1, InvKept
  <2>5. CASE UnregClient(f)
    BY <2>2, <2>5 DEF UnregClient, Registered, At, FilePc
  <2>6. CASE Unlink(f)
    <3>1. /\ file[f].pc = "unlink" /\ UNCHANGED object
          /\ clients' = [clients EXCEPT ![file[f].id] = Null]
          /\ file'[f].pc = "free" /\ file'[f].handle = file[f].handle /\ file'[f].id = file[f].id
      BY <1>1, <2>6 DEF Unlink, ClearPointer, Goto, At, FileRec
    <3>2. clients[file[f].id] = file[f].handle /\ file[f].handle \in Handles
      BY <1>4, <3>1
    <3>3. HandleLives'
      BY <1>4, <2>0, <3>1 DEF HandleLives, At
    <3>4. OwnClient'
      BY <1>1, <1>2, <1>4, <1>5, <2>0, <3>1, <3>2 DEF OwnClient, At
    <3>5. PointerOwned'
      BY <1>1, <1>2, <1>6, <2>0, <3>1, <3>2 DEF PointerOwned, At
    <3> QED BY <3>3, <3>4, <3>5 DEF ClientInv
  <2>7. CASE FreeClient(f)
    <3>1. /\ file[f].pc = "free" /\ UNCHANGED clients
          /\ object' = [object EXCEPT ![file[f].handle] = "freed"]
          /\ file'[f].pc = "idle" /\ file'[f].handle = Err
      BY <1>1, <2>7 DEF FreeClient, At, FileRec
    <3>2. HandleLives'
      BY <1>1, <1>3, <1>4, <1>5, <2>0, <3>1 DEF HandleLives, At
    <3>3. OwnClient'
      BY <1>3, <1>4, <1>5, <2>0, <3>1 DEF OwnClient, At
    <3>4. PointerOwned'
      BY <1>6, <2>0, <3>1 DEF PointerOwned, At
    <3> QED BY <3>2, <3>3, <3>4 DEF ClientInv
  <2>8. ASSUME NEW x \in Fences, StartWait(f, x) PROVE ClientInv'
    <3>1. /\ file[f].pc = "idle" /\ file[f].handle \in Handles /\ UNCHANGED <<clients, object>>
          /\ file'[f].pc = "wait" /\ file'[f].handle = file[f].handle /\ file'[f].id = file[f].id
      BY <1>1, <2>8 DEF StartWait, Registered, At, FileRec
    <3> QED BY <1>4, <2>0, <3>1, InvKept
  <2>9. CASE WaitEvent(f) \/ ClearSignal(f)
    BY <1>4, <2>2, <2>9, Order DEF WaitEvent, ClearSignal, At, FilePc
  <2>10. CASE WaitTimeout(f) \/ ReadNothing(f) \/ ReadPayload(f)
    <3>1. /\ UNCHANGED <<clients, object>> /\ file[f].pc \in {"wait", "read"}
          /\ file' = [file EXCEPT ![f] = [file[f] EXCEPT !.pc = "idle", !.fence = Null]]
               \/ UNCHANGED file
      BY <2>10, Order DEF WaitTimeout, ReadNothing, ReadPayload, ReturnTo, At
    <3>2. /\ file'[f].pc \in {"idle", "wait", "read"}
          /\ file'[f].handle = file[f].handle /\ file'[f].id = file[f].id
      <4>1. CASE file' = [file EXCEPT ![f] = [file[f] EXCEPT !.pc = "idle", !.fence = Null]]
        BY <1>1, <4>1 DEF FileRec
      <4>2. CASE UNCHANGED file
        BY <3>1, <4>2
      <4> QED BY <3>1, <4>1, <4>2
    <3> QED BY <1>4, <2>0, <3>1, <3>2, InvKept
  <2> QED BY <1>8, <2>1, <2>3, <2>4, <2>5, <2>6, <2>7, <2>8, <2>9, <2>10 DEF FileStep
<1>9. ASSUME NEW id \in Ids, HwFenceCb(id) \/ \E x \in Fences : CtlSignal(id, x)
      PROVE  ClientInv'
  BY <1>4, <1>9, InvKept DEF HwFenceCb, CtlSignal
<1> QED BY <1>7, <1>8, <1>9 DEF Next

\* The table and the files agree on who owns each client object, whatever the
\* registrations, failures and deregistrations: the inductive invariant.
THEOREM ClientInvariant == Spec => []ClientInv
<1>1. Init => ClientInv
  BY ValidationAssumption DEF Init, ClientInv, HandleLives, OwnClient, PointerOwned, At
<1>2. FileType /\ ClientInv /\ [Next]_vars => ClientInv'
  BY ClientInvStep
<1> QED BY <1>1, <1>2, TypeCorrect, PTL DEF Spec

\* msm_hw_fence_register under clients_register_lock gives a client id to one
\* file only, and that file finds itself in the table until it deregisters.
THEOREM OneOwner == Spec => []OwnClient
<1>1. ClientInv => OwnClient
  BY DEF ClientInv
<1> QED BY <1>1, ClientInvariant, PTL

\* process_validation_client_loopback never touches the memory of a client that
\* hw_fence_cleanup_client freed.
THEOREM FreedNotReached == Spec => []NoFreedClient
<1>1. FileType /\ ClientInv => NoFreedClient
  <2>1. FileType => /\ TypeOK /\ clients \in [Ids -> Handles \cup {Null}]
    BY DEF FileType, TypeOK
  <2>2. ClientInv => HandleLives /\ PointerOwned
    BY DEF ClientInv
  <2> QED BY <2>1, <2>2 DEF HandleLives, PointerOwned, NoFreedClient
<1> QED BY <1>1, TypeCorrect, ClientInvariant, PTL

-----------------------------------------------------------------------------
\* Two files that have a client and have not unlinked it have different ids.
LEMMA OneFilePerId ==
  ASSUME FileType, ClientInv, NEW f \in Files, NEW g \in Files, file[f].id = file[g].id,
         file[f].handle \in Handles, ~At(f, "free"), file[g].handle \in Handles, ~At(g, "free")
  PROVE  f = g
BY DEF ClientInv, OwnClient

\* What is asked of one file; PayloadsAnnounced asks it of all.
Told(f) ==
    file[f].handle \in Handles /\ file[f].pc # "free"
        /\ Len(rxq[file[f].id]) > left[file[f].id] =>
            \/ valSignal[file[f].handle] \/ file[f].id \in doorbell
            \/ file[f].pc \in {"clear", "read"}

LEMMA ToldStep ==
  ASSUME FileType, ClientInv, \A f \in Files : Told(f), [Next]_vars, NEW g \in Files
  PROVE  Told(g)'
<1>1. /\ clients \in [Ids -> Handles \cup {Null}] /\ valSignal \in [Handles -> BOOLEAN]
      /\ file \in [Files -> FileRec] /\ rxq \in [Ids -> Seq(Fences)] /\ left \in [Ids -> Nat]
  BY DEF FileType, TypeOK
<1>2. \A f \in Files : file[f].id \in Ids
  BY DEF FileType, TypeOK
<1>3. /\ \A f \in Files : file[f].pc # "idle" => file[f].handle \in Handles
      /\ \A f, h \in Files :
            file[f].handle \in Handles /\ file[f].handle = file[h].handle => f = h
      /\ \A f \in Files : file[f].handle \in Handles /\ file[f].pc # "free" =>
            clients[file[f].id] = file[f].handle
  BY DEF ClientInv, HandleLives, OwnClient, At
<1>4. Null \notin Handles /\ Err \notin Handles
  BY ValidationAssumption
<1>5. Told(g)
  OBVIOUS
<1>6. CASE UNCHANGED vars
  BY <1>5, <1>6 DEF vars, Told
<1>7. ASSUME NEW f \in Files, FileStep(f) PROVE Told(g)'
  <2>0. g # f => file'[g] = file[g]
    BY <1>1, <1>7, OtherFiles
  <2>1. ASSUME NEW id \in Ids, NEW h \in Handles, RegClient(f, id, h) PROVE Told(g)'
    <3>1. UNCHANGED <<valSignal, rxq, doorbell>>
      BY <2>1 DEF RegClient
    <3>2. CASE FreeId(id)
      <4>1. /\ file' = [file EXCEPT ![f] = [file[f] EXCEPT !.pc = "resources", !.handle = h, !.id = id]]
            /\ left' = [left EXCEPT ![id] = Len(rxq[id])]
        BY <2>1, <3>2 DEF RegClient
      <4>2. file'[f].id = id /\ left'[id] = Len(rxq'[id]) /\ Len(rxq[id]) \in Nat
        BY <1>1, <3>1, <4>1 DEF FileRec
      <4>3. CASE g = f
        BY <4>2, <4>3 DEF Told
      <4>4. CASE g # f
        <5>1. file[g].handle \in Handles /\ file[g].pc # "free" => file[g].id # id
          BY <1>3, <1>4, <3>2 DEF FreeId
        <5>2. file[g].id # id => left'[file[g].id] = left[file[g].id]
          BY <1>1, <1>2, <4>1
        <5> QED BY <1>5, <2>0, <3>1, <4>4, <5>1, <5>2 DEF Told
      <4> QED BY <4>3, <4>4
    <3>3. CASE ~FreeId(id)
      <4>1. /\ file' = [file EXCEPT ![f] = [file[f] EXCEPT !.handle = Err, !.id = id]]
            /\ UNCHANGED left
        BY <2>1, <3>3 DEF RegClient
      <4>2. file'[f].handle = Err
        BY <1>1, <4>1 DEF FileRec
      <4> QED BY <1>4, <1>5, <2>0, <3>1, <4>1, <4>2 DEF Told
    <3> QED BY <3>2, <3>3
  \* A step that writes only its file's pc, neither from nor to a waived one.
  <2>2. ASSUME file[f].pc \notin {"clear", "read", "free"}, file'[f].handle = file[f].handle,
               file'[f].id = file[f].id, UNCHANGED <<valSignal, rxq, doorbell, left>>
        PROVE  Told(g)'
    BY <1>5, <2>0, <2>2 DEF Told
  <2>3. ASSUME NEW p \in FilePc, Goto(f, p)
        PROVE  file'[f].pc = p /\ file'[f].handle = file[f].handle /\ file'[f].id = file[f].id
    BY <1>1, <2>3 DEF Goto, FileRec
  <2>4. CASE InitResources(f) \/ InitWaitQueue(f) \/ UnregClient(f) \/ Unlink(f)
    <3>1. /\ file[f].pc \notin {"clear", "read", "free"}
          /\ UNCHANGED <<valSignal, rxq, doorbell, left>>
          /\ \E p \in FilePc : Goto(f, p)
      BY <2>4 DEF InitResources, InitWaitQueue, UnregClient, Unlink, At, FilePc
    <3> QED BY <2>2, <2>3, <3>1
  <2>5. CASE FreeClient(f)
    <3>1. UNCHANGED <<valSignal, rxq, doorbell, left>> /\ file'[f].handle = Err
      BY <1>1, <2>5 DEF FreeClient, FileRec
    <3> QED BY <1>4, <1>5, <2>0, <3>1 DEF Told
  <2>6. ASSUME NEW x \in Fences, StartWait(f, x) PROVE Told(g)'
    <3>1. /\ file[f].pc = "idle" /\ UNCHANGED <<valSignal, rxq, doorbell, left>>
          /\ file'[f].handle = file[f].handle /\ file'[f].id = file[f].id
      BY <1>1, <2>6 DEF StartWait, At, FileRec
    <3> QED BY <2>2, <3>1
  <2>7. CASE WaitEvent(f)
    <3>1. file[f].pc = "wait" /\ Goto(f, "clear") /\ UNCHANGED <<valSignal, rxq, doorbell, left>>
      BY <2>7, Order DEF WaitEvent, At
    <3> QED BY <2>2, <2>3, <3>1 DEF FilePc
  <2>8. CASE WaitTimeout(f)
    <3>1. file[f].pc = "wait" /\ UNCHANGED <<valSignal, rxq, doorbell, left>>
      BY <2>8 DEF WaitTimeout, At
    <3>2. file'[f].handle = file[f].handle /\ file'[f].id = file[f].id
      BY <1>1, <2>8 DEF WaitTimeout, ReturnTo, FileRec
    <3> QED BY <2>2, <3>1, <3>2
  <2>9. CASE ClearSignal(f)
    <3>1. /\ Goto(f, "read") /\ UNCHANGED <<rxq, doorbell, left>>
          /\ valSignal' = [valSignal EXCEPT ![file[f].handle] = FALSE]
          /\ file[f].handle \in Handles
      BY <1>3, <2>9, Order DEF ClearSignal, At
    <3>2. file'[f].pc = "read"
      BY <2>3, <3>1 DEF FilePc
    <3>3. g # f /\ file[g].handle \in Handles =>
            valSignal'[file[g].handle] = valSignal[file[g].handle]
      <4>1. g # f /\ file[g].handle \in Handles => file[g].handle # file[f].handle
        BY <1>3, <3>1
      <4> QED BY <1>1, <3>1, <4>1
    <3> QED BY <1>5, <2>0, <3>1, <3>2, <3>3 DEF Told
  <2>10. CASE ReadPayload(f)
    <3> DEFINE id == file[f].id
    <3>1. /\ file[f].pc = "read" /\ rxq[id] # <<>> /\ UNCHANGED <<valSignal, doorbell>>
          /\ rxq' = [rxq EXCEPT ![id] = Tail(rxq[id])]
          /\ left' = [left EXCEPT ![id] = Len(rxq[id]) - 1]
      BY <2>10 DEF ReadPayload, At
    <3>2. id \in Ids /\ rxq[id] \in Seq(Fences)
      BY <1>1, <1>2
    <3>3. Len(Tail(rxq[id])) = Len(rxq[id]) - 1 /\ Len(rxq[id]) \in Nat
      BY <3>1, <3>2
    <3>4. rxq'[id] = Tail(rxq[id]) /\ left'[id] = Len(rxq[id]) - 1
      BY <1>1, <3>1, <3>2
    <3>5. ~(Len(rxq'[id]) > left'[id])
      BY <3>3, <3>4
    <3>6. file'[f].id = id
      BY <1>1, <2>10 DEF ReadPayload, ReturnTo, FileRec
    <3>7. CASE g = f
      BY <3>5, <3>6, <3>7 DEF Told
    <3>8. CASE g # f
      <4>1. file[g].handle \in Handles /\ file[g].pc # "free" => file[g].id # id
        BY <1>3, <3>1, <3>8, OneFilePerId DEF At
      <4>2. file[g].id # id => /\ rxq'[file[g].id] = rxq[file[g].id]
                               /\ left'[file[g].id] = left[file[g].id]
        BY <1>1, <1>2, <3>1
      <4> QED BY <1>5, <2>0, <3>1, <3>8, <4>1, <4>2 DEF Told
    <3> QED BY <3>7, <3>8
  <2>11. CASE ReadNothing(f)
    <3>1. rxq[file[f].id] = <<>> /\ UNCHANGED <<valSignal, rxq, doorbell, left>>
      BY <2>11 DEF ReadNothing
    <3>2. file'[f].id = file[f].id
      BY <1>1, <2>11 DEF ReadNothing, ReturnTo, FileRec
    <3>3. Len(rxq[file[f].id]) = 0 /\ left[file[f].id] \in Nat
      BY <1>1, <1>2, <3>1
    <3>4. ~(Len(rxq[file[f].id]) > left[file[f].id])
      BY <3>3
    <3> QED BY <1>5, <2>0, <3>1, <3>2, <3>4 DEF Told
  <2> QED BY <1>7, <2>1, <2>4, <2>5, <2>6, <2>7, <2>8, <2>9, <2>10, <2>11 DEF FileStep
<1>8. ASSUME NEW id \in Ids, HwFenceCb(id) PROVE Told(g)'
  <2>1. UNCHANGED <<rxq, file, left>> /\ doorbell' = doorbell \ {id}
    BY <1>8 DEF HwFenceCb
  <2>2. CASE clients[id] = Null
    <3>1. UNCHANGED valSignal
      BY <1>8, <2>2 DEF HwFenceCb
    <3>2. file[g].handle \in Handles /\ file[g].pc # "free" => file[g].id # id
      BY <1>3, <1>4, <2>2
    <3> QED BY <1>5, <2>1, <3>1, <3>2 DEF Told
  <2>3. CASE clients[id] # Null
    <3>1. valSignal' = [h \in DOMAIN valSignal \cup {clients[id]} |->
                            h = clients[id] \/ valSignal[h]]
      BY <1>8, <2>3 DEF HwFenceCb, SetSignal
    <3>2. \A h \in Handles : valSignal'[h] <=> h = clients[id] \/ valSignal[h]
      <4>1. \A h \in Handles : valSignal'[h] = (h = clients[id] \/ valSignal[h])
        BY <1>1, <3>1
      <4> QED BY <4>1
    <3>3. file[g].handle \in Handles /\ file[g].pc # "free" /\ file[g].id = id =>
            valSignal'[file[g].handle]
      BY <1>3, <3>2
    <3> QED BY <1>5, <2>1, <3>2, <3>3 DEF Told
  <2> QED BY <2>2, <2>3
<1>9. ASSUME NEW id \in Ids, NEW x \in Fences, CtlSignal(id, x) PROVE Told(g)'
  <2>1. /\ UNCHANGED <<file, valSignal, left>> /\ doorbell' = doorbell \cup {id}
        /\ rxq' = [rxq EXCEPT ![id] = Append(rxq[id], x)]
    BY <1>9 DEF CtlSignal
  <2>2. file[g].id # id => rxq'[file[g].id] = rxq[file[g].id]
    BY <1>1, <1>2, <2>1
  <2> QED BY <1>5, <2>1, <2>2 DEF Told
<1> QED BY <1>6, <1>7, <1>8, <1>9 DEF Next

\* hw_sync_ioctl_fence_wait clears val_signal before it reads the Rx queue, so
\* no payload stays in the queue of a client that nothing tells about it.
THEOREM PayloadsTold == Spec => []PayloadsAnnounced
<1>1. (\A f \in Files : Told(f)) <=> PayloadsAnnounced
  BY DEF Told, PayloadsAnnounced, At
<1>2. Init => PayloadsAnnounced
  BY ValidationAssumption DEF Init, PayloadsAnnounced
<1>3. FileType /\ ClientInv /\ PayloadsAnnounced /\ [Next]_vars => PayloadsAnnounced'
  <2> SUFFICES ASSUME FileType, ClientInv, PayloadsAnnounced, [Next]_vars
               PROVE  PayloadsAnnounced'
    OBVIOUS
  <2>1. \A f \in Files : Told(f)'
    BY <1>1, ToldStep
  <2> QED BY <2>1 DEF Told, PayloadsAnnounced, At
<1> QED BY <1>2, <1>3, TypeCorrect, ClientInvariant, PTL DEF Spec
=============================================================================
