---------------------------- MODULE DeviceSession ----------------------------
(***************************************************************************)
(* Opening and closing a device: the library's dispatcher (lib/smbusb.c,   *)
(* the driver in use), the FX2LP driver's handle and its initialisation    *)
(* (lib/smbusb-fx2lp.c), the firmware upload (lib/fxloader.c), the i2c-dev *)
(* driver's descriptor (lib/smbusb-i2cdev.c), and the board itself, which  *)
(* keeps its firmware and its settings until it loses power, while the     *)
(* processes that use it come and go.                                      *)
(***************************************************************************)
EXTENDS Integers, FiniteSets

CONSTANTS
  Records,      \* data records of the firmware image
  MaxAddr,      \* bound: USB addresses handed out
  MaxHandles    \* bound: libusb handles opened by a process

ASSUME SessionAssumption ==
  /\ Records \in Nat \ {0} /\ MaxAddr \in Nat \ {0} /\ MaxHandles \in Nat \ {0}

VARIABLES
  pc,        \* the step of SMBOpenDevice to do, "idle" outside of it
  uri,       \* what is opened: by "vidpid", by "busaddr", "i2c"
  target,    \* the address asked for, with "busaddr"
  s_drv,     \* the driver in use: "none", "fx2lp", "i2cdev"
  device,    \* the FX2LP driver's handle, 0 is NULL
  handles,   \* libusb handles open in this process: their id and address
  claimed,   \* those that hold the interface
  opened,    \* handles opened by this process so far
  line,      \* records of the firmware image uploaded so far
  fd,        \* the i2c-dev driver's descriptor is open
  ret,       \* the last result of SMBOpenDevice
  crashed,   \* a library call was given a handle that is not open
  dongle     \* the board

hostVars == <<pc, uri, target, s_drv, device, handles, claimed, opened, line,
              fd, ret, crashed>>
vars == <<hostVars, dongle>>

Blank(a) == [present |-> TRUE, addr |-> a, held |-> FALSE, loaded |-> {},
             smbusb |-> FALSE, pec_enabled |-> FALSE]

Init ==
  /\ pc = "idle" /\ uri = "vidpid" /\ target = 1
  /\ s_drv = "none" /\ device = 0 /\ handles = {} /\ claimed = {} /\ opened = 0
  /\ line = 0 /\ fd = FALSE /\ ret = "none" /\ crashed = FALSE
  /\ dongle = Blank(1)

-----------------------------------------------------------------------------
\* The board answers on this handle at all, and as the SMBusb firmware.
Connected(h) ==
  dongle.present /\ \E g \in handles : g.id = h /\ g.addr = dongle.addr

Answers(h) == Connected(h) /\ dongle.smbusb

Open(h) == \E g \in handles : g.id = h

\* SMBOpenDevice is over; a failure forgets the driver.
OpenFails(why) == pc' = "idle" /\ ret' = why /\ s_drv' = "none"

-----------------------------------------------------------------------------
(* SMBOpenDevice                                                           *)

\* Refused before anything is touched: a driver is set already, or the URI
\* or its options are not understood.
OpenRefused ==
  /\ pc = "idle" /\ ~crashed
  /\ ret' = IF s_drv # "none" THEN "already opened" ELSE "bad uri"
  /\ UNCHANGED <<pc, uri, target, s_drv, device, handles, claimed, opened, line, fd,
                 crashed, dongle>>

\* FX2LP_Open, to the point where it looks for the board.
FX2LP_Open ==
  /\ pc = "idle" /\ ~crashed /\ s_drv = "none"
  /\ uri' \in {"vidpid", "busaddr"} /\ target' = dongle.addr
  /\ IF device # 0
       THEN OpenFails("ERR_ALREADY_OPEN")
       ELSE pc' = "open" /\ s_drv' = "fx2lp" /\ ret' = "none"
  /\ UNCHANGED <<device, handles, claimed, opened, line, fd, crashed, dongle>>

\* openvidpid_retry and openbusadd_retry. A board that cannot be opened by
\* its ids makes device NULL, one that is not found or not opened at its
\* address leaves it as it was.
OpenHandle ==
  /\ pc = "open" /\ opened < MaxHandles
  /\ dongle.present /\ (uri = "busaddr" => dongle.addr = target)
  /\ opened' = opened + 1 /\ device' = opened'
  /\ handles' = handles \cup {[id |-> opened', addr |-> dongle.addr]}
  /\ pc' = "claim"
  /\ UNCHANGED <<uri, target, s_drv, claimed, line, fd, ret, crashed, dongle>>

OpenHandleFails ==
  /\ pc = "open"
  /\ device' = IF uri = "vidpid" THEN 0 ELSE device
  /\ OpenFails("ERR_DEVICE_OPEN")
  /\ UNCHANGED <<uri, target, handles, claimed, opened, line, fd, crashed, dongle>>

ClaimFails_Unnoticed ==
  pc' = "identify" /\ UNCHANGED <<handles, claimed, s_drv, ret>>
ClaimFails ==
  /\ handles' = {g \in handles : g.id # device}
  /\ OpenFails("ERR_CLAIM_INTERFACE") /\ UNCHANGED claimed

\* InitDevice. The claim fails when the board is gone, and when a handle
\* left over by an earlier attempt holds the interface.
ClaimInterface ==
  /\ pc = "claim"
  /\ IF Connected(device)
        /\ ~\E g \in handles : g.id \in claimed /\ g.addr = dongle.addr
       THEN /\ claimed' = claimed \cup {device} /\ pc' = "identify"
            /\ UNCHANGED <<s_drv, ret, handles>>
       ELSE ClaimFails
  /\ UNCHANGED <<uri, target, device, opened, line, fd, crashed, dongle>>

\* SMBInterfaceID: anything but the magic number is a board to load. An
\* answer may be lost.
SMBInterfaceID ==
  /\ pc = "identify"
  /\ \E lost \in BOOLEAN :
       pc' = IF Answers(device) /\ ~lost THEN "version" ELSE "hold"
  /\ UNCHANGED <<uri, target, s_drv, device, handles, claimed, opened, line, fd, ret,
                 crashed, dongle>>

\* SMB_FIRMWARE_VERSION. Its failure keeps the handle.
FirmwareVersion ==
  /\ pc = "version"
  /\ \/ Answers(device) /\ pc' = "idle" /\ ret' = "ok" /\ UNCHANGED s_drv
     \/ OpenFails("ERR_FIRMWARE_DOWNLOAD")
  /\ UNCHANGED <<uri, target, device, handles, claimed, opened, line, fd, crashed,
                 dongle>>

-----------------------------------------------------------------------------
(* CypressUploadIhxFirmware                                                *)

\* A transfer of the upload fails: what it has done so far stays.
UploadFails ==
  /\ pc \in {"hold", "write", "release"}
  /\ OpenFails("ERR_FIRMWARE_DOWNLOAD")
  /\ UNCHANGED <<uri, target, device, handles, claimed, opened, line, fd, crashed,
                 dongle>>

\* CypressReset(1): what is in the board's memory stays there. `code' is
\* compared with 1 before it is first assigned: whatever it holds decides
\* whether any line is read.
HoldReset ==
  /\ pc = "hold" /\ Connected(device)
  /\ dongle' = [dongle EXCEPT !.held = TRUE, !.smbusb = FALSE]
  /\ line' = 0
  /\ pc' \in {"write", "release"}
  /\ UNCHANGED <<uri, target, s_drv, device, handles, claimed, opened, fd, ret,
                 crashed>>

MoreLines_EndToo == line <= Records
MoreLines == line < Records

\* CypressWriteRam, one record; the end record leaves the loop.
WriteRam ==
  /\ pc = "write" /\ Connected(device)
  /\ IF MoreLines
       THEN /\ line' = line + 1 /\ UNCHANGED pc
            /\ dongle' = [dongle EXCEPT !.loaded = @ \cup {line'}]
       ELSE pc' = "release" /\ UNCHANGED <<line, dongle>>
  /\ UNCHANGED <<uri, target, s_drv, device, handles, claimed, opened, fd, ret,
                 crashed>>

\* CypressReset(0), then the sleep of InitDevice begins.
ReleaseReset ==
  /\ pc = "release" /\ Connected(device)
  /\ dongle' = [dongle EXCEPT !.held = FALSE]
  /\ pc' = "settle"
  /\ UNCHANGED <<uri, target, s_drv, device, handles, claimed, opened, line, fd, ret,
                 crashed>>

\* The firmware has what it needs to start, and has not yet.
Booting == dongle.present /\ ~dongle.held /\ ~dongle.smbusb
           /\ dongle.loaded = 1..Records

\* sleep(2), long enough for the board to start; INIT_RETRY.
Settle ==
  /\ pc = "settle" /\ ~Booting
  /\ pc' = "open"
  /\ UNCHANGED <<uri, target, s_drv, device, handles, claimed, opened, line, fd, ret,
                 crashed, dongle>>

-----------------------------------------------------------------------------
(* The i2c-dev driver. An adapter that does not tell what it can do fails  *)
(* the open, with the descriptor kept.                                     *)

I2CDEV_Open ==
  /\ pc = "idle" /\ ~crashed /\ s_drv = "none"
  /\ uri' = "i2c"
  /\ \/ fd' = FALSE /\ ret' = "no file" /\ UNCHANGED s_drv
     \/ fd' = TRUE /\ ret' = "no functions" /\ UNCHANGED s_drv
     \/ fd' = TRUE /\ ret' = "ok" /\ s_drv' = "i2cdev"
  /\ UNCHANGED <<pc, target, device, handles, claimed, opened, line, crashed, dongle>>

-----------------------------------------------------------------------------
(* The rest of the API                                                     *)

\* SMBCloseDevice closes what the driver has. It does not forget the driver.
SMBCloseDevice ==
  /\ pc = "idle" /\ ~crashed /\ s_drv # "none"
  /\ ret' = "closed"
  /\ IF s_drv = "fx2lp" /\ device # 0
       THEN /\ handles' = {g \in handles : g.id # device}
            /\ claimed' = claimed \ {device} /\ device' = 0
            /\ UNCHANGED fd
       ELSE /\ fd' = IF s_drv = "i2cdev" THEN FALSE ELSE fd
            /\ UNCHANGED <<handles, claimed, device>>
  /\ UNCHANGED <<pc, uri, target, s_drv, opened, line, crashed, dongle>>

\* Any call that goes to the board; SMBEnablePEC is the one it remembers.
\* Without a driver the call returns -1, with a closed handle libusb fails.
LibraryCall ==
  /\ pc = "idle" /\ ~crashed
  /\ s_drv = "fx2lp"
  /\ crashed' = ~Open(device)
  /\ \/ UNCHANGED dongle
     \/ /\ Answers(device)
        /\ \E state \in BOOLEAN : dongle' = [dongle EXCEPT !.pec_enabled = state]
  /\ ret' = "called"
  /\ UNCHANGED <<pc, uri, target, s_drv, device, handles, claimed, opened, line, fd>>

\* The process ends, at any point; the system closes what it had open, and
\* another one starts.
ProcessEnds ==
  /\ pc' = "idle" /\ uri' = "vidpid" /\ target' = 1
  /\ s_drv' = "none" /\ device' = 0 /\ handles' = {} /\ claimed' = {}
  /\ opened' = 0 /\ line' = 0 /\ fd' = FALSE /\ ret' = "none" /\ crashed' = FALSE
  /\ UNCHANGED dongle

-----------------------------------------------------------------------------
(* The board                                                               *)

\* The uploaded firmware starts and enumerates again, as a rule under a new
\* address; its variables have their initial values.
Boot ==
  /\ Booting
  /\ \E a \in {dongle.addr, dongle.addr + 1} :
       /\ a <= MaxAddr
       /\ dongle' = [dongle EXCEPT !.smbusb = TRUE, !.pec_enabled = TRUE,
                                   !.addr = a]
  /\ UNCHANGED hostVars

Unplug ==
  /\ dongle.present
  /\ dongle' = [dongle EXCEPT !.present = FALSE, !.smbusb = FALSE]
  /\ UNCHANGED hostVars

PlugIn ==
  /\ ~dongle.present /\ dongle.addr < MaxAddr
  /\ dongle' = Blank(dongle.addr + 1)
  /\ UNCHANGED hostVars

-----------------------------------------------------------------------------
InitDevice == ClaimInterface \/ SMBInterfaceID \/ FirmwareVersion

CypressUploadIhxFirmware == UploadFails \/ HoldReset \/ WriteRam \/ ReleaseReset

DriverStep ==
  OpenHandle \/ OpenHandleFails \/ InitDevice \/ CypressUploadIhxFirmware \/ Settle

Next ==
  \/ OpenRefused \/ FX2LP_Open \/ I2CDEV_Open
  \/ DriverStep
  \/ SMBCloseDevice \/ LibraryCall \/ ProcessEnds
  \/ Boot \/ Unplug \/ PlugIn

Spec == Init /\ [][Next]_vars

-----------------------------------------------------------------------------
TypeOK ==
  /\ pc \in {"idle", "open", "claim", "identify", "version", "hold", "write",
             "release", "settle"}
  /\ s_drv \in {"none", "fx2lp", "i2cdev"}
  /\ device \in 0..MaxHandles /\ opened \in 0..MaxHandles
  /\ claimed \subseteq 1..MaxHandles
  /\ line \in 0..Records /\ dongle.loaded \subseteq 1..Records /\ dongle.addr \in 1..MaxAddr
  /\ fd \in BOOLEAN /\ crashed \in BOOLEAN

\* A program whose open succeeded, and has not closed, has an open handle
\* that holds the interface, and a board at the other end of it that runs
\* the firmware: whatever an earlier attempt or an earlier process left.
OpenMeansReady ==
  pc = "idle" /\ s_drv = "fx2lp" /\ device # 0 =>
    /\ Open(device) /\ device \in claimed
    /\ Connected(device) => dongle.smbusb

=============================================================================
