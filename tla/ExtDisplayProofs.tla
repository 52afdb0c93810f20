-------------------------- MODULE ExtDisplayProofs --------------------------
(***************************************************************************)
(* Proofs about ExtDisplay, for any set of displays and of codec ids.      *)
(***************************************************************************)
EXTENDS ExtDisplay, TLAPS

\* msm_ext_disp_register_intf refuses a codec id that is taken.
OneDisplay == \A d, e \in displayList : Codec[d] = Codec[e] => d = e

\* update_audio remembers a selection made before the codec registered, and a
\* registration under way has taken the table.
Remembered ==
    /\ ops = NotRegistered /\ current \in Codecs => updateAudio
    /\ reg.pc # "idle" => ops # NotRegistered
    /\ reg.pc = "copy" => reg.display \in Displays

BrokerInv == OneDisplay /\ Remembered

-----------------------------------------------------------------------------
LEMMA CodecType ==
  /\ \A d \in Displays : Codec[d] \in Codecs /\ Codec[d] # NoCodec
  /\ NotRegistered # Cleared /\ NotRegistered \notin Displays /\ Cleared \notin Displays
BY ExtDisplayAssumption

\* The display found for a codec is one of those registered with it
\* (msm_ext_disp_get_intf_data).
LEMMA FoundDisplay ==
  ASSUME NEW k, WithCodec(k) # {}
  PROVE  (CHOOSE d \in WithCodec(k) : TRUE) \in WithCodec(k)
OBVIOUS

\* What msm_ext_disp_update_audio_ops leaves in the codec's table.
LEMMA UpdatedOpsIs ==
  ASSUME NEW k, NEW table
  PROVE  \/ WithCodec(k) = {} /\ UpdatedOps(k, table) = table
         \/ UpdatedOps(k, table) \in WithCodec(k)
<1>1. CASE WithCodec(k) = {}
  BY <1>1 DEF UpdatedOps
<1>2. CASE WithCodec(k) # {}
  <2>1. UpdatedOps(k, table) = CHOOSE d \in WithCodec(k) : TRUE
    BY <1>2 DEF UpdatedOps
  <2> QED BY <1>2, <2>1, FoundDisplay
<1> QED BY <1>1, <1>2

LEMMA InitType == Init => TypeOK
<1> SUFFICES ASSUME Init PROVE TypeOK
  OBVIOUS
<1>1. updateAudio \in BOOLEAN
  BY Zenon DEF Init
<1>2. reg \in [pc : {"idle", "check", "find", "copy"}, display : Displays \cup {NotRegistered}]
  BY DEF Init, NoReg
<1> QED BY <1>1, <1>2 DEF Init, TypeOK

\* The type invariant of the broker's state (msm_ext_display.c).
THEOREM TypeCorrect == Spec => []TypeOK
<1>1. Init => TypeOK
  BY InitType
<1>2. TypeOK /\ [Next]_vars => TypeOK'
  <2> SUFFICES ASSUME TypeOK, [Next]_vars PROVE TypeOK'
    OBVIOUS
  <2> USE CodecType DEF TypeOK
  <2>1. CASE UNCHANGED vars
    BY <2>1 DEF vars
  <2>2. ASSUME NEW d \in Displays, RegisterIntf(d) \/ DeregisterIntf(d) PROVE TypeOK'
    BY <2>2 DEF RegisterIntf, DeregisterIntf
  <2>3. ASSUME NEW k \in Codecs, Select(k) PROVE TypeOK'
    <3>1. UpdatedOps(k, ops) \in Displays \cup {NotRegistered, Cleared}
      BY UpdatedOpsIs DEF WithCodec
    <3> QED BY <2>3, <3>1 DEF Select
  <2>4. ASSUME NEW d \in Displays, Connect(d) PROVE TypeOK'
    BY <2>3, <2>4 DEF Connect
  <2>5. ASSUME NEW d \in Displays, Disconnect(d) PROVE TypeOK'
    BY <2>5 DEF Disconnect, ClearTable
  <2>6. ASSUME NEW d \in Displays, NEW connect \in BOOLEAN, Notify(d, connect) PROVE TypeOK'
    BY <2>6 DEF Notify, ProcessAudio
  <2>7. CASE RegisterCodec
    <3>1. UpdatedOps(current, Cleared) \in Displays \cup {NotRegistered, Cleared}
      BY UpdatedOpsIs DEF WithCodec
    <3> QED BY <2>7, <3>1 DEF RegisterCodec, ProcessAudio
  <2>8. CASE CheckCurrent
    BY <2>8 DEF CheckCurrent, NoReg
  <2>9. CASE FindDisplay
    BY <2>9, FoundDisplay DEF FindDisplay, NoReg, WithCodec
  <2>10. CASE CopyOps
    BY <2>10 DEF CopyOps, NoReg
  <2> QED BY <2>1, <2>2, <2>3, <2>4, <2>5, <2>6, <2>7, <2>8, <2>9, <2>10 DEF Next
<1> QED BY <1>1, <1>2, PTL DEF Spec

-----------------------------------------------------------------------------
LEMMA BrokerInvStep ==
  ASSUME TypeOK, BrokerInv, [Next]_vars
  PROVE  BrokerInv'
<1> USE CodecType DEF TypeOK, BrokerInv, OneDisplay, Remembered
<1>1. CASE UNCHANGED vars
  BY <1>1 DEF vars
<1>2. ASSUME NEW d \in Displays, RegisterIntf(d) PROVE BrokerInv'
  BY <1>2 DEF RegisterIntf, CodecFree, WithCodec
<1>3. ASSUME NEW d \in Displays, DeregisterIntf(d) PROVE BrokerInv'
  BY <1>3 DEF DeregisterIntf
<1>4. ASSUME NEW k \in Codecs, Select(k) PROVE BrokerInv'
  <2>1. UpdatedOps(k, ops) \in Displays \cup {ops}
    BY UpdatedOpsIs DEF WithCodec
  <2> QED BY <1>4, <2>1 DEF Select
<1>5. ASSUME NEW d \in Displays, Connect(d) PROVE BrokerInv'
  BY <1>4, <1>5 DEF Connect
<1>6. ASSUME NEW d \in Displays, Disconnect(d) PROVE BrokerInv'
  BY <1>6, ExtDisplayAssumption DEF Disconnect, ClearTable
<1>7. ASSUME NEW d \in Displays, NEW connect \in BOOLEAN, Notify(d, connect) PROVE BrokerInv'
  BY <1>7 DEF Notify
<1>8. CASE RegisterCodec
  <2>1. UpdatedOps(current, Cleared) \in Displays \cup {Cleared}
    BY UpdatedOpsIs DEF WithCodec
  <2> QED BY <1>8, <2>1 DEF RegisterCodec
<1>9. CASE CheckCurrent
  BY <1>9 DEF CheckCurrent, NoReg
<1>10. CASE FindDisplay
  BY <1>10, FoundDisplay DEF FindDisplay, NoReg, WithCodec
<1>11. CASE CopyOps
  BY <1>11 DEF CopyOps, NoReg
<1> QED BY <1>1, <1>2, <1>3, <1>4, <1>5, <1>6, <1>7, <1>8, <1>9, <1>10, <1>11 DEF Next

\* Two displays never share a codec id, and a selection made before the codec
\* registers is remembered, whatever the order of the calls.
THEOREM BrokerInvariant == Spec => []BrokerInv
<1>1. Init => BrokerInv
  BY ExtDisplayAssumption DEF Init, BrokerInv, OneDisplay, Remembered, NoReg
<1>2. TypeOK /\ BrokerInv /\ [Next]_vars => BrokerInv'
  BY BrokerInvStep
<1> QED BY <1>1, <1>2, TypeCorrect, PTL DEF Spec

\* A codec that registers late hears the display that connected first
\* (update_audio in msm_ext_disp_register_audio_codec), in any order of calls.
THEOREM LateCodec == Spec => LateCodecHeard
<1>1. ASSUME TypeOK, BrokerInv, [Next]_vars, NEW d \in displayList,
             ops = NotRegistered, ops' # ops, current = Codec[d]
      PROVE  ops' = d /\ Codec[d] \in cable'
  <2> USE CodecType DEF TypeOK, BrokerInv, OneDisplay, Remembered
  <2>1. RegisterCodec
    BY <1>1 DEF Next, vars, RegisterIntf, DeregisterIntf, Connect, Select, Disconnect,
      ClearTable, Notify, CheckCurrent, FindDisplay, CopyOps
  <2>2. updateAudio /\ d \in WithCodec(current)
    BY <1>1 DEF WithCodec
  <2>3. ops' = UpdatedOps(current, Cleared) /\ cable' = cable \cup {current}
    BY <1>1, <2>1, <2>2 DEF RegisterCodec, ProcessAudio
  <2>4. UpdatedOps(current, Cleared) \in WithCodec(current)
    BY <2>2, UpdatedOpsIs
  <2> QED BY <1>1, <2>3, <2>4 DEF WithCodec
<1>2. TypeOK /\ BrokerInv /\ [Next]_vars =>
        [\A d \in displayList :
           ops = NotRegistered /\ ops' # ops /\ current = Codec[d] =>
               ops' = d /\ Codec[d] \in cable']_vars
  BY <1>1
<1> QED BY <1>2, TypeCorrect, BrokerInvariant, PTL DEF Spec, LateCodecHeard
=============================================================================
