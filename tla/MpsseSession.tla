---------------------------- MODULE MpsseSession ----------------------------
(***************************************************************************)
(* The host as MPSSE.cpp makes it: for each channel a handle that is       *)
(* opened, set up by vendor requests and a first write (Init in            *)
(* MPSSE.cpp), used, and closed, again and again.  Every step is a step of *)
(* VirtualFTDI's host, or does not concern the device.                     *)
(***************************************************************************)
EXTENDS VirtualFTDI, FiniteSets

CONSTANTS
    DirMask,     \* msk, the pins that are outputs
    MaxSessions  \* bound: handles opened

VARIABLES
    session,     \* per channel, how far its handle is: see SessionSteps
    sessions     \* handles opened so far

sessionVars == <<vars, session, sessions>>

-----------------------------------------------------------------------------
\* The requests behind the calls of the constructor, as libftd2xx sends them to a port.
ControlOut(ch, request, value) ==
    [type |-> "vendor", dir |-> "out", recipient |-> "device", request |-> request,
     index |-> ch, value |-> value, length |-> 0]

BitMode(ch, mode) == ControlOut(ch, SetBitMode, 256 * mode + DirMask)

ModesSwapped(ch) == <<BitMode(ch, MpsseMode), BitMode(ch, 0)>>

\* FT_SetBitMode(FT_BITMODE_RESET), FT_SetBitMode(FT_BITMODE_MPSSE)
Modes(ch) == <<BitMode(ch, 0), BitMode(ch, MpsseMode)>>

\* FT_ResetDevice, FT_SetChars (event and error character), FT_SetLatencyTimer, the modes.
SetUpRequests(ch) ==
    <<ControlOut(ch, \h00, 0), ControlOut(ch, \h06, 0), ControlOut(ch, \h07, 0),
      ControlOut(ch, \h09, 1)>> \o Modes(ch)

\* config pin initial value and direction
PinConfig == <<PortLow, 0, DirMask>>

Closed == 0                \* no handle
Resetting == 1             \* FT_ResetDevice comes next, then the other requests
Configuring == 7           \* all requests answered, the first write comes next
Ready == 8                 \* the constructor has returned
SessionSteps == Closed .. Ready

ASSUME DirMaskAssumption == DirMask \in Byte
ASSUME SessionAssumption ==
    /\ MaxSessions \in Nat
    /\ PinConfig \in Commands
    /\ \A ch \in Channels :
         /\ \A i \in Resetting .. Configuring - 1 : SetUpRequests(ch)[i] \in Requests
         /\ \A side \in {1, 2} : ControlOut(ch, \h00, side) \in Requests

-----------------------------------------------------------------------------
\* FT_Open, FT_OpenEx
Open(ch) ==
    /\ session[ch] = Closed /\ sessions < MaxSessions
    /\ session' = [session EXCEPT ![ch] = Resetting]
    /\ sessions' = sessions + 1
    /\ UNCHANGED vars

\* The next request of the constructor; a call returns when its request is answered.
SetUp(ch) ==
    /\ session[ch] \in Resetting .. Configuring - 1
    /\ HandleEP0(SetUpRequests(ch)[session[ch]])
    /\ session' = [session EXCEPT ![ch] = @ + 1]
    /\ UNCHANGED sessions

Configure(ch) ==
    /\ session[ch] = Configuring
    /\ Issue(ch, PinConfig)
    /\ session' = [session EXCEPT ![ch] = Ready]
    /\ UNCHANGED sessions

\* Bound: a first write is kept for each constructor that is running or may run.
Unconfigured ==
    MaxSessions - sessions + Cardinality({ch \in Channels : session[ch] \in Resetting .. Configuring})

\* MPSSE::write, loopback
Write(ch) ==
    /\ session[ch] = Ready
    /\ issued + Unconfigured < MaxCmds
    /\ \E c \in Commands : Issue(ch, c)
    /\ UNCHANGED <<session, sessions>>

\* MPSSE::read
Read(ch) ==
    /\ session[ch] = Ready
    /\ HostRead(ch)
    /\ UNCHANGED <<session, sessions>>

\* MPSSE::purge: resets that ask for the receiver's and the sender's buffers.  That the
\* driver drops what it holds is a Read.
Purge(ch) ==
    /\ session[ch] = Ready
    /\ \E side \in {1, 2} : HandleEP0(ControlOut(ch, \h00, side))
    /\ UNCHANGED <<session, sessions>>

\* ~MPSSE.  If the constructor throws, ~Init does not close the handle, for own_ is
\* never true: it stays open until its process ends, which is then the Close.  FT_Write
\* has returned, so everything written has been taken.  Replies may be left.
Close(ch) ==
    /\ session[ch] # Closed
    /\ wire[ch] = <<>>
    /\ session' = [session EXCEPT ![ch] = Closed]
    /\ UNCHANGED <<vars, sessions>>

Device == (Handler \/ \E ch \in Channels : Deliver(ch)) /\ UNCHANGED <<session, sessions>>

SessionInit == Init /\ session = [ch \in Channels |-> Closed] /\ sessions = 0

Client(ch) == Open(ch) \/ SetUp(ch) \/ Configure(ch) \/ Write(ch) \/ Read(ch)
                  \/ Purge(ch) \/ Close(ch)

SessionNext == Device \/ \E ch \in Channels : Client(ch)

SessionSpec == SessionInit /\ [][SessionNext]_sessionVars

\* The device and the USB stack as in FairSpec; a request of the constructor is answered
\* however busy the other channel is, for requests and transfers wait in one queue.
FairSessionSpec ==
    /\ SessionSpec
    /\ WF_sessionVars(Handler /\ UNCHANGED <<session, sessions>>)
    /\ \A ch \in Channels :
         /\ WF_sessionVars(Deliver(ch) /\ UNCHANGED <<session, sessions>>)
         /\ SF_sessionVars(SetUp(ch))
         /\ WF_sessionVars(Configure(ch))

-----------------------------------------------------------------------------
SessionTypeOK == session \in [Channels -> SessionSteps] /\ sessions \in 0 .. MaxSessions

\* From its first write on a session has its channel in MPSSE mode, whatever sessions
\* come and go on the other one: mustbeMPSSE never throws.
ModeHeld == \A ch \in Channels : session[ch] >= Configuring => gMode[ch] = MpsseMode

\* Every constructor comes to an end, however busy the other channel keeps the thread
\* that answers the requests.
Opens == \A ch \in Channels : session[ch] = Resetting ~> session[ch] \in {Ready, Closed}
=============================================================================
