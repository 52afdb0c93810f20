----------------------------- MODULE ExtDisplay -----------------------------
(***************************************************************************)
(* The external-display broker: displays register and announce their       *)
(* audio, the audio codec registers its table of operations, and the       *)
(* broker fills the table with those of the display selected, and moves    *)
(* the extcon cable state.  Every entry point runs under the driver's      *)
(* mutex except the end of msm_ext_disp_register_audio_codec, which reads  *)
(* the selected codec, finds its display and copies the operations         *)
(* without it.  A codec id is its type and stream; ctrl_id is always 0.    *)
(***************************************************************************)
EXTENDS Naturals, FiniteSets

CONSTANTS Displays,     \* msm_ext_disp_init_data of the display drivers
          Codecs,       \* codec ids
          Codec,        \* the codec id of a display
          NoCodec,      \* type EXT_DISPLAY_TYPE_MAX
          Orderly,      \* no call overlaps a codec's registration, and a display
                        \* disconnects before it deregisters
          NotRegistered, Cleared

ASSUME ExtDisplayAssumption ==
    /\ Codec \in [Displays -> Codecs]
    /\ NoCodec \notin Codecs
    /\ NotRegistered # Cleared /\ {NotRegistered, Cleared} \cap Displays = {}
    /\ Orderly \in BOOLEAN

VARIABLES displayList,  \* display_list
          intfOps,      \* displays whose init_data has its intf_ops
          ops,          \* the codec's table: whose operations it holds
          current,      \* current_codec
          updateAudio,  \* update_audio
          cable,        \* the codecs whose extcon state is connected
          reg           \* the call of msm_ext_disp_register_audio_codec

vars == <<displayList, intfOps, ops, current, updateAudio, cable, reg>>

NoReg == [pc |-> "idle", display |-> NotRegistered]

Init ==
    /\ displayList = {} /\ intfOps = {}
    /\ ops = NotRegistered
    /\ current = NoCodec
    /\ updateAudio = FALSE
    /\ cable = {}
    /\ reg = NoReg

-----------------------------------------------------------------------------
\* msm_ext_disp_get_intf_data
WithCodec(k) == {d \in displayList : Codec[d] = k}

\* The table after msm_ext_disp_update_audio_ops: unchanged without a display.
KeepsOps(k, table) == table
UpdatedOps(k, table) ==
    IF WithCodec(k) = {} THEN table ELSE CHOOSE d \in WithCodec(k) : TRUE

\* msm_ext_disp_process_audio; extcon refuses a type it does not know.
ProcessAudio(k, connect) ==
    cable' = IF k = NoCodec THEN cable ELSE IF connect THEN cable \cup {k} ELSE cable \ {k}

MayCall == Orderly => reg.pc = "idle"

-----------------------------------------------------------------------------
(* The display drivers *)

\* msm_ext_disp_register_intf; it does nothing when the codec id is taken.
CodecFree(k) == WithCodec(k) = {}

RegisterIntf(d) ==
    /\ MayCall
    /\ CodecFree(Codec[d])
    /\ displayList' = displayList \cup {d}
    /\ intfOps' = intfOps \cup {d}
    /\ UNCHANGED <<ops, current, updateAudio, cable, reg>>

\* msm_ext_disp_deregister_intf
DeregisterIntf(d) ==
    /\ MayCall
    /\ Orderly => current # Codec[d]
    /\ displayList' = displayList \ {d}
    /\ intfOps' = intfOps \ {d}
    /\ UNCHANGED <<ops, current, updateAudio, cable, reg>>

\* msm_ext_disp_select_audio_codec, by the codec or a display that connects.
Select(k) ==
    /\ MayCall
    /\ \/ /\ ops = NotRegistered
          /\ updateAudio' = TRUE
          /\ current' = k
          /\ UNCHANGED ops
       \/ /\ ops # NotRegistered
          /\ ops' = UpdatedOps(k, ops)
          /\ current' = IF WithCodec(k) = {} THEN current ELSE k
          /\ UNCHANGED updateAudio
    /\ UNCHANGED <<displayList, intfOps, cable, reg>>

\* msm_ext_disp_audio_config(CONNECT)
Connect(d) == d \in intfOps /\ Select(Codec[d])

\* msm_ext_disp_audio_config(DISCONNECT)
KeepsTable(table) == table
ClearTable(table) == IF table = NotRegistered THEN table ELSE Cleared

Disconnect(d) ==
    /\ MayCall
    /\ d \in intfOps
    /\ ops' = ClearTable(ops)
    /\ current' = NoCodec
    /\ UNCHANGED <<displayList, intfOps, updateAudio, cable, reg>>

\* msm_ext_disp_audio_notify
Notify(d, connect) ==
    /\ MayCall
    /\ d \in intfOps
    /\ ops # NotRegistered
    /\ ProcessAudio(Codec[d], connect)
    /\ UNCHANGED <<displayList, intfOps, ops, current, updateAudio, reg>>

-----------------------------------------------------------------------------
(* msm_ext_disp_register_audio_codec *)

\* Under the mutex; a second registration is refused and goes on below.
RegisterCodec ==
    /\ reg.pc = "idle"
    /\ reg' = [reg EXCEPT !.pc = "check"]
    /\ \/ /\ ops = NotRegistered
          /\ ops' = IF updateAudio THEN UpdatedOps(current, Cleared) ELSE Cleared
          /\ IF updateAudio THEN ProcessAudio(current, TRUE) ELSE UNCHANGED cable
          /\ updateAudio' = FALSE
       \/ /\ ops # NotRegistered
          /\ UNCHANGED <<ops, cable, updateAudio>>
    /\ UNCHANGED <<displayList, intfOps, current>>

\* After the unlock: is a codec selected?
CheckCurrent ==
    /\ reg.pc = "check"
    /\ reg' = IF current = NoCodec THEN NoReg ELSE [reg EXCEPT !.pc = "find"]
    /\ UNCHANGED <<displayList, intfOps, ops, current, updateAudio, cable>>

\* msm_ext_disp_ready_for_display
FindDisplay ==
    /\ reg.pc = "find"
    /\ reg' = IF WithCodec(current) = {} THEN NoReg
              ELSE [pc |-> "copy", display |-> CHOOSE d \in WithCodec(current) : TRUE]
    /\ UNCHANGED <<displayList, intfOps, ops, current, updateAudio, cable>>

CopyOps ==
    /\ reg.pc = "copy"
    /\ ops' = reg.display
    /\ reg' = NoReg
    /\ UNCHANGED <<displayList, intfOps, current, updateAudio, cable>>

-----------------------------------------------------------------------------
Next ==
    \/ \E d \in Displays : RegisterIntf(d) \/ DeregisterIntf(d) \/ Connect(d) \/ Disconnect(d)
    \/ \E d \in Displays, connect \in BOOLEAN : Notify(d, connect)
    \/ \E k \in Codecs : Select(k)
    \/ RegisterCodec \/ CheckCurrent \/ FindDisplay \/ CopyOps

Spec == Init /\ [][Next]_vars

-----------------------------------------------------------------------------
(* Properties *)

\* The types of the variables.
TypeOK ==
    /\ displayList \subseteq Displays /\ intfOps \subseteq displayList
    /\ ops \in Displays \cup {NotRegistered, Cleared}
    /\ current \in Codecs \cup {NoCodec}
    /\ updateAudio \in BOOLEAN /\ cable \subseteq Codecs
    /\ reg \in [pc : {"idle", "check", "find", "copy"},
                display : Displays \cup {NotRegistered}]

\* The codec's table holds the operations of the display that is selected, and
\* of none after a disconnect; that display is still registered.  It takes the
\* order of calls that Orderly asks for: the copy in
\* msm_ext_disp_ready_for_display is made without the mutex.
OpsFollowCodec ==
    /\ TypeOK
    /\ ops \in Displays => current = Codec[ops] /\ ops \in displayList

\* A display that connected before the codec registered is heard when it does:
\* the table is its own and its cable is connected (update_audio).
LateCodecHeard ==
    [][\A d \in displayList :
        ops = NotRegistered /\ ops' # ops /\ current = Codec[d] =>
            ops' = d /\ Codec[d] \in cable']_vars
=============================================================================
