------------------------ MODULE DeviceSessionProofs ------------------------
(***************************************************************************)
(* Proofs that the types hold, and that an open that succeeds means a      *)
(* device that is ready, for any number of processes, handles, addresses   *)
(* and records of the firmware image.                                      *)
(*                                                                         *)
(* OpenMeansReady is about the time between two calls. It needs what an    *)
(* open has reached in the middle (Opening), and that the address of a     *)
(* board that was taken away is never given to another, so that a handle   *)
(* of the old one does not suddenly answer (Handles).                      *)
(***************************************************************************)
EXTENDS DeviceSession, TLAPS

Boards == [present : BOOLEAN, addr : Nat, held : BOOLEAN, loaded : SUBSET Nat,
           smbusb : BOOLEAN, pec_enabled : BOOLEAN]

\* The types TypeOK leaves out.
Types ==
  /\ TypeOK
  /\ uri \in {"vidpid", "busaddr", "i2c"}
  /\ dongle \in Boards

\* Handles have the number they were given and an address the board had.
Handles == \A g \in handles : g.id \in 1..opened /\ g.addr \in 1..dongle.addr

\* While a device is being opened the driver's handle is open, and from the
\* claim on it has the interface.
Opening ==
  /\ pc \in {"claim", "identify", "version", "hold", "write", "release"} => Open(device)
  /\ pc \in {"identify", "version", "hold", "write", "release"} => device \in claimed

IInv == Types /\ Handles /\ Opening /\ OpenMeansReady

LEMMA InitInv == Init => IInv
<1> SUFFICES ASSUME Init PROVE IInv
  OBVIOUS
<1> USE SessionAssumption DEF Init
<1>0. /\ Blank(1) \in Boards /\ Blank(1).loaded = {} /\ Blank(1).addr = 1
  BY DEF Blank, Boards
<1>1. TypeOK
  <2>1. 0 \in 0..MaxHandles /\ 0 \in 0..Records /\ 1 \in 1..MaxAddr
    OBVIOUS
  <2> QED
    BY <1>0, <2>1 DEF TypeOK
<1>2. Types
  BY <1>0, <1>1 DEF Types
<1>3. Handles /\ Opening /\ OpenMeansReady
  BY DEF Handles, Opening, OpenMeansReady
<1> QED
  BY <1>2, <1>3 DEF IInv

\* The board's fields.
LEMMA DongleFields ==
  ASSUME Types
  PROVE  /\ dongle.present \in BOOLEAN /\ dongle.held \in BOOLEAN
         /\ dongle.smbusb \in BOOLEAN /\ dongle.addr \in Nat \ {0}
         /\ dongle.addr <= MaxAddr /\ MaxAddr \in Nat
         /\ dongle.loaded \subseteq 1..Records /\ Records \in Nat
BY SessionAssumption DEF Types, TypeOK, Boards

-----------------------------------------------------------------------------
(* The program's steps                                                      *)

\* Steps that leave the handles and the board alone, and stay outside of the
\* middle of an open.
LEMMA OutsideSteps ==
  ASSUME IInv, OpenRefused \/ FX2LP_Open \/ I2CDEV_Open \/ OpenHandleFails
  PROVE  IInv'
<1> USE DEF IInv
<1>1. CASE OpenRefused
  BY <1>1 DEF OpenRefused, Types, TypeOK, Handles, Opening, OpenMeansReady, Open, Connected
<1>2. CASE FX2LP_Open
  BY <1>2 DEF FX2LP_Open, OpenFails, Types, TypeOK, Handles, Opening, OpenMeansReady,
              Open, Connected
<1>3. CASE I2CDEV_Open
  BY <1>3 DEF I2CDEV_Open, Types, TypeOK, Handles, Opening, OpenMeansReady, Open, Connected
<1>4. CASE OpenHandleFails
  BY <1>4, SessionAssumption DEF OpenHandleFails, OpenFails, Types, TypeOK, Handles,
     Opening, OpenMeansReady
<1> QED
  BY <1>1, <1>2, <1>3, <1>4

LEMMA OpenHandleInv ==
  ASSUME IInv, OpenHandle
  PROVE  IInv'
<1> USE SessionAssumption, DongleFields DEF IInv, OpenHandle
<1>1. opened \in Nat /\ opened' = opened + 1 /\ opened' <= MaxHandles /\ device' = opened'
  BY DEF Types, TypeOK
<1>2. Types'
  BY <1>1 DEF Types, TypeOK
<1>3. Handles'
  <2>1. [id |-> opened', addr |-> dongle.addr].id = opened'
        /\ [id |-> opened', addr |-> dongle.addr].addr = dongle.addr
    OBVIOUS
  <2>2. \A n \in 1..opened : n \in 1..opened'
    BY <1>1
  <2> QED
    BY <1>1, <2>1, <2>2 DEF Handles
<1>4. Opening'
  <2>1. [id |-> opened', addr |-> dongle.addr].id = device'
    BY <1>1
  <2> QED
    BY <2>1 DEF Opening, Open
<1>5. OpenMeansReady'
  BY DEF OpenMeansReady
<1> QED
  BY <1>2, <1>3, <1>4, <1>5

\* InitDevice, without the upload.
LEMMA InitDeviceInv ==
  ASSUME IInv, InitDevice
  PROVE  IInv'
<1> USE DEF IInv
<1>1. CASE ClaimInterface
  <2>1. device \in 1..MaxHandles
    BY <1>1, SessionAssumption DEF ClaimInterface, Opening, Open, Handles, Types, TypeOK
  <2>2. CASE UNCHANGED handles /\ claimed' = claimed \cup {device} /\ pc' = "identify"
    <3>1. /\ UNCHANGED <<uri, device, handles, opened, line, fd, crashed, dongle, s_drv>>
          /\ pc = "claim"
      BY <1>1, <2>1, <2>2 DEF ClaimInterface, ClaimFails, OpenFails
    <3>2. claimed' \subseteq 1..MaxHandles /\ device \in claimed'
      BY <2>1, <2>2 DEF Types, TypeOK
    <3> QED
      BY <2>2, <3>1, <3>2 DEF Types, TypeOK, Handles, Opening, OpenMeansReady, Open
  <2>3. CASE ClaimFails
    <3>1. /\ UNCHANGED <<uri, claimed, device, opened, line, fd, crashed, dongle>>
          /\ handles' \subseteq handles /\ pc' = "idle" /\ s_drv' = "none"
      BY <1>1, <2>3 DEF ClaimInterface, ClaimFails, OpenFails
    <3> QED
      BY <3>1 DEF Types, TypeOK, Handles, Opening, OpenMeansReady
  <2> QED
    BY <1>1, <2>2, <2>3 DEF ClaimInterface
<1>2. CASE SMBInterfaceID
  BY <1>2 DEF SMBInterfaceID, Types, TypeOK, Handles, Opening, OpenMeansReady, Open
<1>3. CASE FirmwareVersion
  <2>1. Open(device) /\ device \in claimed
    BY <1>3 DEF FirmwareVersion, Opening
  <2> QED
    BY <1>3, <2>1 DEF FirmwareVersion, OpenFails, Answers, Types, TypeOK, Handles, Opening,
       OpenMeansReady, Open, Connected
<1> QED
  BY <1>1, <1>2, <1>3 DEF InitDevice

\* The upload changes the board and keeps the handle.
LEMMA UploadInv ==
  ASSUME IInv, CypressUploadIhxFirmware \/ Settle
  PROVE  IInv'
<1> USE DEF IInv
<1>0. /\ UNCHANGED <<handles, claimed, device, opened>> /\ dongle' \in Boards
      /\ dongle'.addr = dongle.addr
      /\ line' \in 0..Records /\ dongle'.loaded \subseteq 1..Records
  <2> USE DongleFields, SessionAssumption DEF Types, TypeOK
  <2>1. CASE UploadFails
    BY <2>1 DEF UploadFails
  <2>2. CASE HoldReset
    <3>1. dongle' \in Boards /\ dongle'.addr = dongle.addr /\ dongle'.loaded = dongle.loaded
      BY <2>2 DEF HoldReset, Boards
    <3> QED
      BY <2>2, <3>1 DEF HoldReset
  <2>3. CASE WriteRam
    <3>1. CASE MoreLines
      <4>1. line' = line + 1 /\ line' \in 1..Records /\ line' \in Nat
        BY <2>3, <3>1 DEF WriteRam, MoreLines
      <4>2. dongle' = [dongle EXCEPT !.loaded = dongle.loaded \cup {line'}]
        BY <2>3, <3>1 DEF WriteRam
      <4>3. dongle' \in Boards /\ dongle'.addr = dongle.addr
            /\ dongle'.loaded = dongle.loaded \cup {line'}
        BY <4>1, <4>2 DEF Boards
      <4> QED
        BY <2>3, <4>1, <4>3 DEF WriteRam
    <3>2. CASE ~MoreLines
      BY <2>3, <3>2 DEF WriteRam
    <3> QED
      BY <3>1, <3>2
  <2>4. CASE ReleaseReset
    BY <2>4 DEF ReleaseReset, Boards
  <2>5. CASE Settle
    BY <2>5 DEF Settle
  <2> QED
    BY <2>1, <2>2, <2>3, <2>4, <2>5 DEF CypressUploadIhxFirmware
<1>1. pc # "idle" /\ (pc' = "idle" => s_drv' = "none")
  BY DEF CypressUploadIhxFirmware, UploadFails, HoldReset, WriteRam, ReleaseReset,
         Settle, OpenFails
<1>2. Handles'
  BY <1>0 DEF Handles
<1>3. Opening'
  <2>1. pc' \in {"write", "release"} => pc \in {"hold", "write"}
    BY DEF CypressUploadIhxFirmware, UploadFails, HoldReset, WriteRam, ReleaseReset,
           Settle, OpenFails
  <2>2. pc' \notin {"claim", "identify", "version", "hold"}
    BY DEF CypressUploadIhxFirmware, UploadFails, HoldReset, WriteRam, ReleaseReset,
           Settle, OpenFails
  <2> QED
    BY <1>0, <2>1, <2>2 DEF Opening, Open
<1>4. OpenMeansReady'
  BY <1>1 DEF OpenMeansReady
<1>5. Types'
  <2>2. /\ pc' \in {"idle", "write", "release", "settle", "open"} /\ s_drv' \in {"none", s_drv}
        /\ UNCHANGED <<uri, fd, crashed>>
    BY DEF CypressUploadIhxFirmware, UploadFails, HoldReset, WriteRam, ReleaseReset, Settle,
           OpenFails
  <2> QED
    BY <1>0, <2>2 DEF Types, TypeOK
<1> QED
  BY <1>2, <1>3, <1>4, <1>5

\* The other calls, and the end of the process.
LEMMA OtherCallsInv ==
  ASSUME IInv, SMBCloseDevice \/ LibraryCall \/ ProcessEnds
  PROVE  IInv'
<1> USE DEF IInv
<1>1. CASE SMBCloseDevice
  <2>1. UNCHANGED <<pc, uri, opened, line, crashed, dongle, s_drv>> /\ fd' \in BOOLEAN
        /\ pc = "idle" /\ handles' \subseteq handles /\ claimed' \subseteq claimed
        /\ \/ device' = 0
           \/ s_drv' # "fx2lp" /\ UNCHANGED device
    BY <1>1 DEF SMBCloseDevice, Types, TypeOK
  <2> QED
    BY <2>1, SessionAssumption DEF Types, TypeOK, Handles, Opening, OpenMeansReady
<1>2. CASE LibraryCall
  <2>1. /\ UNCHANGED <<pc, uri, handles, claimed, device, opened, line, s_drv, fd>>
        /\ crashed' \in BOOLEAN /\ pc = "idle"
    BY <1>2 DEF LibraryCall, Open
  <2>2. /\ dongle'.addr = dongle.addr /\ dongle'.loaded = dongle.loaded
        /\ dongle'.present = dongle.present /\ dongle'.smbusb = dongle.smbusb
        /\ dongle' \in Boards
    BY <1>2 DEF LibraryCall, Types, Boards
  <2> QED
    BY <2>1, <2>2 DEF Types, TypeOK, Handles, Opening, OpenMeansReady, Open, Connected
<1>3. CASE ProcessEnds
  <2> USE <1>3 DEF ProcessEnds
  <2>1. 0 \in 0..MaxHandles /\ 0 \in 0..Records
    BY SessionAssumption
  <2>2. Types'
    BY <2>1 DEF Types, TypeOK
  <2> QED
    BY <2>2 DEF Handles, Opening, OpenMeansReady
<1> QED
  BY <1>1, <1>2, <1>3

-----------------------------------------------------------------------------
(* The board's steps                                                        *)

LEMMA BoardInv ==
  ASSUME IInv, Boot \/ Unplug \/ PlugIn
  PROVE  IInv'
<1> USE DEF IInv
<1>1. UNCHANGED hostVars
  BY DEF Boot, Unplug, PlugIn
<1>2. /\ dongle' \in Boards
      /\ dongle'.addr \in Nat /\ dongle.addr <= dongle'.addr /\ dongle'.addr <= MaxAddr
      /\ dongle'.loaded \subseteq 1..Records
  <2>1. CASE Boot
    <3>1. PICK a \in {dongle.addr, dongle.addr + 1} :
            /\ a <= MaxAddr
            /\ dongle' = [dongle EXCEPT !.smbusb = TRUE, !.pec_enabled = TRUE, !.addr = a]
      BY <2>1 DEF Boot
    <3>2. a \in Nat /\ dongle.addr <= a
      BY DongleFields
    <3>3. dongle' \in Boards /\ dongle'.addr = a /\ dongle'.loaded = dongle.loaded
      BY <3>1, <3>2 DEF Types, Boards
    <3> QED
      BY <3>1, <3>2, <3>3, DongleFields
  <2>2. CASE Unplug
    <3>1. dongle' \in Boards /\ dongle'.addr = dongle.addr /\ dongle'.loaded = dongle.loaded
      BY <2>2 DEF Unplug, Types, Boards
    <3> QED
      BY <3>1, DongleFields
  <2>3. CASE PlugIn
    BY <2>3, DongleFields DEF PlugIn, Blank, Boards
  <2> QED
    BY <2>1, <2>2, <2>3
<1>3. Types'
  BY <1>1, <1>2, DongleFields DEF hostVars, Types, TypeOK
<1>4. Handles' /\ Opening'
  <2>1. \A n \in 1..dongle.addr : n \in 1..dongle'.addr
    BY <1>2, DongleFields
  <2> QED
    BY <1>1, <2>1 DEF hostVars, Handles, Opening, Open
<1>5. OpenMeansReady'
  <2> SUFFICES ASSUME pc = "idle", s_drv = "fx2lp", device # 0, Connected(device)'
               PROVE  dongle'.smbusb
    BY <1>1 DEF hostVars, OpenMeansReady, Open
  <2>1. CASE Boot
    BY <2>1 DEF Boot, Types, Boards
  <2>2. CASE Unplug
    BY <2>2 DEF Unplug, Connected, Types, Boards
  <2>3. CASE PlugIn
    <3>1. dongle'.addr = dongle.addr + 1
      BY <2>3 DEF PlugIn, Blank
    <3> QED
      BY <1>1, <3>1, DongleFields DEF hostVars, Connected, Handles
  <2> QED
    BY <2>1, <2>2, <2>3
<1> QED
  BY <1>3, <1>4, <1>5

-----------------------------------------------------------------------------
(* The theorems                                                             *)

\* Types, handles and the middle of an open hold together in every reachable
\* state.
THEOREM Invariance == Spec => []IInv
<1>1. Init => IInv
  BY InitInv
<1>2. IInv /\ [Next]_vars => IInv'
  <2> SUFFICES ASSUME IInv, [Next]_vars PROVE IInv'
    OBVIOUS
  <2>1. CASE Next
    BY <2>1, OutsideSteps, OpenHandleInv, InitDeviceInv, UploadInv, OtherCallsInv, BoardInv
       DEF Next, DriverStep
  <2>2. CASE UNCHANGED vars
    BY <2>2 DEF vars, hostVars, IInv, Types, TypeOK, Handles, Opening, OpenMeansReady, Open,
            Connected
  <2> QED
    BY <2>1, <2>2
<1> QED
  BY <1>1, <1>2, PTL DEF Spec

\* The library's, the drivers' and the board's variables keep their types.
THEOREM TypeCorrect == Spec => []TypeOK
<1>1. IInv => TypeOK
  BY DEF IInv, Types
<1> QED
  BY <1>1, Invariance, PTL

\* After any history of opens, failures, uploads broken off, processes that
\* ended and boards pulled out, a successful open that was not closed means an
\* open handle with the interface, and the firmware behind it if anything is.
THEOREM OpenIsReady == Spec => []OpenMeansReady
<1>1. IInv => OpenMeansReady
  BY DEF IInv
<1> QED
  BY <1>1, Invariance, PTL
=============================================================================
