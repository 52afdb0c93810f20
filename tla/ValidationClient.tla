-------------------------- MODULE ValidationClient --------------------------
(***************************************************************************)
(* The life of a client object, seen through the validation clients:       *)
(* registration and deregistration (msm_hw_fence.c), the ioctls of a       *)
(* validation file that register, wait and deregister, and the doorbell    *)
(* callback that tells a client to read its Rx queue.                      *)
(*                                                                         *)
(* A file has one thread and uses no handle after it deregistered it.  The *)
(* Rx queue is a sequence of fences (HwFenceQueue): each is written once   *)
(* for a client id, by the controller (external), which then rings.        *)
(***************************************************************************)
EXTENDS Naturals, Sequences, FiniteSets

CONSTANTS Files,        \* open files of the validation device
          Handles,      \* client objects, each allocated once
          Ids,          \* HW_FENCE_CLIENT_ID_VAL0 ...
          Fences,
          MaxWaits,     \* bound: wait calls of a file
          Null, Err

ASSUME ValidationAssumption ==
    /\ Null \notin Handles \cup Fences /\ Err \notin Handles \cup {Null}
    /\ MaxWaits \in Nat /\ Ids # {}

VARIABLES clients,      \* drv_data->clients
          object,       \* the client objects: how far each one is
          valSignal,    \* val_signal of a client object
          rxq,          \* the Rx queue of a client id
          unsent,       \* fences the controller has still to signal to an id
          doorbell,     \* ids whose doorbell bit is raised
          file,         \* each file's handle and what its thread is doing
          waits,        \* wait calls made so far
          left          \* history: payloads of an id that its last read, or an
                        \* earlier client, left in the queue

vars == <<clients, object, valSignal, rxq, unsent, doorbell, file, waits, left>>

Init ==
    /\ clients = [id \in Ids |-> Null]
    /\ object = [h \in Handles |-> "unused"]
    /\ valSignal = [h \in Handles |-> FALSE]
    /\ rxq = [id \in Ids |-> <<>>]
    /\ unsent = [id \in Ids |-> Fences]
    /\ doorbell = {}
    /\ file = [f \in Files |-> [pc |-> "idle", handle |-> Null, id |-> CHOOSE i \in Ids : TRUE,
                                fence |-> Null]]
    /\ waits = [f \in Files |-> 0]
    /\ left = [id \in Ids |-> 0]

At(f, pc) == file[f].pc = pc
Goto(f, pc) == file' = [file EXCEPT ![f].pc = pc]

-----------------------------------------------------------------------------
(* hw_sync_ioctl_reg_client and msm_hw_fence_register *)

\* AlwaysFree, LeavesPointer and OnlyWakes are plausible mistakes,
\* to compare with.
AlwaysFree(id) == TRUE
FreeId(id) == clients[id] = Null

\* Under clients_register_lock; a handle that is an error is kept as well.
RegClient(f, id, h) ==
    /\ At(f, "idle") /\ file[f].handle = Null
    /\ object[h] = "unused"
    /\ \/ /\ FreeId(id)
          /\ clients' = [clients EXCEPT ![id] = h]
          /\ object' = [object EXCEPT ![h] = "published"]
          /\ file' = [file EXCEPT ![f] = [@ EXCEPT !.pc = "resources", !.handle = h, !.id = id]]
          /\ left' = [left EXCEPT ![id] = Len(rxq[id])]
       \/ /\ ~FreeId(id)
          /\ object' = [object EXCEPT ![h] = "freed"]
          /\ file' = [file EXCEPT ![f] = [@ EXCEPT !.handle = Err, !.id = id]]
          /\ UNCHANGED <<clients, left>>
    /\ UNCHANGED <<valSignal, rxq, unsent, doorbell, waits>>

\* The ipc ids, the queues and the controller signal: any of them may fail.  The
\* indexes of the queues are not touched, what an earlier client left stays.
InitResources(f) ==
    /\ At(f, "resources")
    /\ Goto(f, "waitQueue") \/ Goto(f, "unlink")
    /\ UNCHANGED <<clients, object, valSignal, rxq, unsent, doorbell, waits, left>>

InitWaitQueue(f) ==
    /\ At(f, "waitQueue")
    /\ object' = [object EXCEPT ![file[f].handle] = "ready"]
    /\ Goto(f, "idle")
    /\ UNCHANGED <<clients, valSignal, rxq, unsent, doorbell, waits, left>>

(* hw_sync_ioctl_unreg_client, msm_hw_fence_deregister, hw_fence_cleanup_client *)

Registered(f) == file[f].handle \in Handles /\ object[file[f].handle] = "ready"

UnregClient(f) ==
    /\ At(f, "idle") /\ Registered(f)
    /\ Goto(f, "unlink")
    /\ UNCHANGED <<clients, object, valSignal, rxq, unsent, doorbell, waits, left>>

LeavesPointer(f) == UNCHANGED clients
ClearPointer(f) == clients' = [clients EXCEPT ![file[f].id] = Null]

Unlink(f) ==
    /\ At(f, "unlink")
    /\ ClearPointer(f)
    /\ Goto(f, "free")
    /\ UNCHANGED <<object, valSignal, rxq, unsent, doorbell, waits, left>>

FreeClient(f) ==
    /\ At(f, "free")
    /\ object' = [object EXCEPT ![file[f].handle] = "freed"]
    /\ file' = [file EXCEPT ![f] = [@ EXCEPT !.pc = "idle", !.handle = Err]]
    /\ UNCHANGED <<clients, valSignal, rxq, unsent, doorbell, waits, left>>

-----------------------------------------------------------------------------
(* The controller and the doorbell *)

\* External: a payload for a registered id, then the doorbell.
CtlSignal(id, x) ==
    /\ clients[id] # Null /\ object[clients[id]] = "ready"
    /\ x \in unsent[id]
    /\ unsent' = [unsent EXCEPT ![id] = @ \ {x}]
    /\ rxq' = [rxq EXCEPT ![id] = Append(@, x)]
    /\ doorbell' = doorbell \cup {id}
    /\ UNCHANGED <<clients, object, valSignal, file, waits, left>>

\* _hw_fence_cb for the bits raised, process_validation_client_loopback under
\* clients_register_lock: nothing for an id without a client.
OnlyWakes(h) == UNCHANGED valSignal
SetSignal(h) == valSignal' = [g \in DOMAIN valSignal \cup {h} |-> g = h \/ valSignal[g]]

HwFenceCb(id) ==
    /\ id \in doorbell
    /\ doorbell' = doorbell \ {id}
    /\ IF clients[id] # Null THEN SetSignal(clients[id]) ELSE UNCHANGED valSignal
    /\ UNCHANGED <<clients, object, rxq, unsent, file, waits, left>>

-----------------------------------------------------------------------------
(* hw_sync_ioctl_fence_wait *)

StartWait(f, x) ==
    /\ At(f, "idle") /\ Registered(f)
    /\ waits[f] < MaxWaits
    /\ waits' = [waits EXCEPT ![f] = @ + 1]
    /\ file' = [file EXCEPT ![f] = [@ EXCEPT !.pc = "wait", !.fence = x]]
    /\ UNCHANGED <<clients, object, valSignal, rxq, unsent, doorbell, left>>

\* What follows each step of a wait that its doorbell woke: val_signal is
\* cleared before the queue is read.  ReadsFirst is a plausible mistake.
ReadsFirst == [wait |-> "read", read |-> "clear", clear |-> "idle"]
After == [wait |-> "clear", clear |-> "read", read |-> "idle"]

ReturnTo(f, pc) == file' = [file EXCEPT ![f] = [@ EXCEPT !.pc = pc, !.fence = Null]]

WaitEvent(f) ==
    /\ At(f, "wait")
    /\ valSignal[file[f].handle]
    /\ Goto(f, After["wait"])
    /\ UNCHANGED <<clients, object, valSignal, rxq, unsent, doorbell, waits, left>>

WaitTimeout(f) ==
    /\ At(f, "wait")
    /\ ~valSignal[file[f].handle]
    /\ ReturnTo(f, "idle")
    /\ UNCHANGED <<clients, object, valSignal, rxq, unsent, doorbell, waits, left>>

ClearSignal(f) ==
    /\ At(f, "clear")
    /\ valSignal' = [valSignal EXCEPT ![file[f].handle] = FALSE]
    /\ Goto(f, After["clear"])
    /\ UNCHANGED <<clients, object, rxq, unsent, doorbell, waits, left>>

\* The loop ends with the payload of the fence, or when nothing is left.
ReadPayload(f) ==
    LET id == file[f].id
    IN  /\ At(f, "read")
        /\ rxq[id] # <<>>
        /\ rxq' = [rxq EXCEPT ![id] = Tail(@)]
        /\ left' = [left EXCEPT ![id] = Len(rxq[id]) - 1]
        /\ IF Head(rxq[id]) = file[f].fence \/ Len(rxq[id]) = 1
           THEN ReturnTo(f, After["read"]) ELSE UNCHANGED file
        /\ UNCHANGED <<clients, object, valSignal, unsent, doorbell, waits>>

\* The queue was empty to begin with: the payload on the stack is compared
\* though nothing was read into it, and the ioctl returns 0 either way.
ReadNothing(f) ==
    /\ At(f, "read")
    /\ rxq[file[f].id] = <<>>
    /\ ReturnTo(f, After["read"])
    /\ UNCHANGED <<clients, object, valSignal, rxq, unsent, doorbell, waits, left>>

-----------------------------------------------------------------------------
FileStep(f) ==
    \/ \E id \in Ids, h \in Handles : RegClient(f, id, h)
    \/ InitResources(f) \/ InitWaitQueue(f)
    \/ UnregClient(f) \/ Unlink(f) \/ FreeClient(f)
    \/ \E x \in Fences : StartWait(f, x)
    \/ WaitEvent(f) \/ WaitTimeout(f) \/ ClearSignal(f) \/ ReadPayload(f) \/ ReadNothing(f)

Next ==
    \/ \E f \in Files : FileStep(f)
    \/ \E id \in Ids : HwFenceCb(id) \/ \E x \in Fences : CtlSignal(id, x)

Spec == Init /\ [][Next]_vars

\* A thread in an ioctl runs on, a doorbell interrupt is taken.
Fairness ==
    /\ \A f \in Files : WF_vars(WaitEvent(f) \/ ClearSignal(f) \/ ReadPayload(f) \/ ReadNothing(f))
    /\ \A id \in Ids : WF_vars(HwFenceCb(id))

FairSpec == Spec /\ Fairness

-----------------------------------------------------------------------------
(* Properties *)

\* The types of the variables: val_signal is a field of an allocated client only.
TypeOK ==
    /\ clients \in [Ids -> Handles \cup {Null}]
    /\ object \in [Handles -> {"unused", "published", "ready", "freed"}]
    /\ valSignal \in [Handles -> BOOLEAN]
    /\ \A id \in Ids : rxq[id] \in Seq(Fences) /\ unsent[id] \subseteq Fences
    /\ doorbell \subseteq Ids
    /\ \A f \in Files : file[f].handle \in Handles \cup {Null, Err} /\ file[f].id \in Ids
    /\ waits \in [Files -> 0..MaxWaits]
    /\ left \in [Ids -> Nat]

\* "Avoid race condition if multiple-threads request same client at same time":
\* files never share a client, and a file that has one finds itself in the
\* table until it deregisters.
OwnClient ==
    \A f, g \in Files :
        /\ file[f].handle \in Handles /\ file[f].handle = file[g].handle => f = g
        /\ file[f].handle \in Handles /\ ~At(f, "free") => clients[file[f].id] = file[f].handle

\* The doorbell callback reaches only objects that are not freed, however it
\* falls into a registration that fails or a deregistration.
NoFreedClient ==
    /\ TypeOK
    /\ \A id \in Ids : clients[id] # Null => object[clients[id]] # "freed"

\* No payload goes unnoticed: of those that came since a client registered and
\* since it last read, it is told by val_signal or by a doorbell still raised,
\* or its thread is about to read.  A doorbell may ring between any two steps
\* of hw_sync_ioctl_fence_wait, which clears val_signal before it reads.
PayloadsAnnounced ==
    \A f \in Files :
        LET id == file[f].id
        IN  file[f].handle \in Handles /\ ~At(f, "free") /\ Len(rxq[id]) > left[id] =>
                \/ valSignal[file[f].handle] \/ id \in doorbell
                \/ At(f, "clear") \/ At(f, "read")

\* A client that waits while its doorbell is raised is woken and returns, without
\* any help from the timeout: val_signal is set for the client registered now and cleared only
\* by its own thread, before it reads.  A payload alone does not wake it: one
\* that an earlier wait or an earlier client left in the queue is found only
\* with the next doorbell.
WaitReturns ==
    \A f \in Files : At(f, "wait") /\ file[f].id \in doorbell ~> ~At(f, "wait")
=============================================================================
