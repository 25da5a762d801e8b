------------------------- MODULE MpsseSessionProofs -------------------------
(***************************************************************************)
(* What holds of MpsseSession for every number of channels, every pin      *)
(* mask and every set of commands: sessions are a host of VirtualFTDI, so  *)
(* that what is proved of the device holds under them, and a session that  *)
(* is set up keeps its channel in MPSSE mode.                              *)
(***************************************************************************)
EXTENDS MpsseSession, VirtualFTDIProofs

-----------------------------------------------------------------------------
(* The requests of the constructor. *)

\* A channel's number comes back out of the index of a request to it: the conversion to
\* uint8_t does not fold two ports into one.
LEMMA PortOfIndex ==
    ASSUME NEW ch \in Channels, NEW request, NEW value
    PROVE  Port(ControlOut(ch, request, value)) = ch
<1>1. ch \in 1 .. 255
  BY NumChannelsAssumption DEF Channels, Byte
<1>2. ch % 256 = ch
  BY <1>1
<1>3. (ch + 255) % 256 = ch - 1
  BY <1>1
<1> QED
  BY <1>1, <1>2, <1>3 DEF Port, ControlOut

\* The mode in a bit-mode request is the one asked for.
LEMMA ModeOfBitMode ==
    ASSUME NEW ch \in Channels, NEW mode \in Byte
    PROVE  ModeOf(BitMode(ch, mode)) = mode
<1>1. DirMask \in 0 .. 255
  BY DirMaskAssumption DEF Byte
<1>2. mode \in 0 .. 255
  BY DEF Byte
<1>3. (256 * mode + DirMask) \div 256 = mode
  BY <1>1, <1>2
<1> QED
  BY <1>3 DEF ModeOf, BitMode, ControlOut

\* A request to a port, accepted or not, leaves the modes of the other channels alone; the
\* last one of the constructor puts its own channel in MPSSE mode.
LEMMA RequestMode ==
    ASSUME gMode \in [Channels -> Byte], NEW ch \in Channels, NEW other \in Channels,
           NEW request, NEW value, HandleEP0(ControlOut(ch, request, value))
    PROVE  other # ch => gMode'[other] = gMode[other]
BY PortOfIndex DEF HandleEP0

\* A request for MPSSE mode puts its channel into it.
LEMMA MpsseRequest ==
    ASSUME gMode \in [Channels -> Byte], NEW ch \in Channels,
           HandleEP0(BitMode(ch, MpsseMode))
    PROVE  gMode'[ch] = MpsseMode
<1> DEFINE r == BitMode(ch, MpsseMode)
<1>1. Port(r) = ch
  BY PortOfIndex DEF BitMode
<1>2. MpsseMode \in Byte
  BY DEF MpsseMode, Byte
<1>3. ModeOf(r) = MpsseMode
  BY <1>2, ModeOfBitMode
<1>4. r.dir = "out" /\ r.request = SetBitMode /\ Accepted(r)
  BY DEF BitMode, ControlOut, Accepted, OutRequests, SetBitMode
<1> HIDE DEF r
<1>5. gMode' = [gMode EXCEPT ![Port(r)] = ModeOf(r)]
  BY <1>1, <1>4 DEF HandleEP0, r
<1> QED
  BY <1>1, <1>3, <1>5

-----------------------------------------------------------------------------
(* Sessions are a host of the device. *)

\* The requests of a set-up are among those the device may be sent.
LEMMA SetUpIsRequest ==
    ASSUME NEW ch \in Channels, SetUp(ch)
    PROVE  \E r \in Requests : HandleEP0(r)
BY SessionAssumption DEF SetUp

\* What a handle does is something the host of VirtualFTDI may do.
LEMMA ClientIsHost ==
    ASSUME NEW ch \in Channels, Client(ch)
    PROVE  [Next]_vars
<1>1. CASE Open(ch) \/ Close(ch)
  BY <1>1 DEF Open, Close
<1>2. CASE SetUp(ch)
  BY <1>2, SetUpIsRequest DEF Next
<1>3. CASE Configure(ch)
  BY <1>3, SessionAssumption DEF Configure, Next, Host
<1>4. CASE Write(ch)
  BY <1>4 DEF Write, Next, Host
<1>5. CASE Read(ch)
  BY <1>5 DEF Read, Next, Host
<1>6. CASE Purge(ch)
  BY <1>6, SessionAssumption DEF Purge, Next
<1> QED
  BY <1>1, <1>2, <1>3, <1>4, <1>5, <1>6 DEF Client

\* Every step of a session is a step of the device or its host, or does not concern it.
LEMMA SessionStep == [SessionNext]_sessionVars => [Next]_vars
<1> SUFFICES ASSUME [SessionNext]_sessionVars PROVE [Next]_vars
  OBVIOUS
<1>1. CASE Device
  BY <1>1 DEF Device, Next
<1>2. CASE \E ch \in Channels : Client(ch)
  BY <1>2, ClientIsHost
<1>3. CASE UNCHANGED sessionVars
  BY <1>3 DEF sessionVars
<1> QED
  BY <1>1, <1>2, <1>3 DEF SessionNext

\* Sessions, whatever their constructors, writes and ends, are a behaviour of the device
\* with a host: all that is proved of VirtualFTDI holds under them.
THEOREM SessionImplementsDevice == SessionSpec => Spec
<1>1. SessionInit => Init
  BY DEF SessionInit
<1> QED
  BY <1>1, SessionStep, PTL DEF SessionSpec, Spec

-----------------------------------------------------------------------------
(* The mode of a session. *)

SessionType == session \in [Channels -> SessionSteps]

\* The inductive invariant: on top of the device's only the type of session is needed.
SessionInv == Inv /\ SessionType /\ ModeHeld

\* SessionInv holds at first.
LEMMA SessionInitInv == SessionInit => SessionInv
<1> SUFFICES ASSUME SessionInit PROVE SessionInv
  OBVIOUS
<1>1. Inv
  BY InitInv DEF SessionInit
<1>2. SessionType /\ ModeHeld
  BY DEF SessionInit, SessionType, ModeHeld, SessionSteps, Closed, Ready, Configuring
<1> QED
  BY <1>1, <1>2 DEF SessionInv

\* A request of a set-up takes the mode of no channel that is in use.
LEMMA SetUpMode ==
    ASSUME SessionInv, NEW ch \in Channels, SetUp(ch)
    PROVE  SessionType' /\ ModeHeld'
<1> USE DEF SessionInv, SessionType, SessionSteps, Closed, Resetting, Configuring, Ready
<1>1. /\ session' = [session EXCEPT ![ch] = session[ch] + 1]
      /\ session[ch] \in 1 .. 6
  BY DEF SetUp
<1>2. SessionType'
  BY <1>1
<1>3. gMode \in [Channels -> Byte]
  BY DEF Inv, TypeOK, ChannelType
<1>4. ASSUME NEW other \in Channels, session'[other] >= 7
      PROVE  gMode'[other] = MpsseMode
  <2>1. CASE other = ch
    <3>1. session[ch] = 6
      BY <1>1, <1>4, <2>1
    <3>2. SetUpRequests(ch)[6] = BitMode(ch, MpsseMode)
      BY DEF SetUpRequests, Modes
    <3>3. HandleEP0(BitMode(ch, MpsseMode))
      BY <3>1, <3>2 DEF SetUp
    <3> QED
      BY <1>3, <2>1, <3>3, MpsseRequest
  <2>2. CASE other # ch
    <3>1. gMode[other] = MpsseMode
      BY <1>1, <1>4, <2>2 DEF ModeHeld
    <3>2. \E request, value : SetUpRequests(ch)[session[ch]] = ControlOut(ch, request, value)
      BY <1>1 DEF SetUpRequests, Modes, BitMode
    <3>3. PICK request, value : HandleEP0(ControlOut(ch, request, value))
      BY <3>2 DEF SetUp
    <3>4. gMode'[other] = gMode[other]
      BY <1>3, <2>2, <3>3, RequestMode
    <3> QED
      BY <3>1, <3>4
  <2> QED
    BY <2>1, <2>2
<1> QED
  BY <1>2, <1>4 DEF ModeHeld

\* A reset or purge changes no mode.
LEMMA PurgeMode ==
    ASSUME NEW ch \in Channels, Purge(ch)
    PROVE  gMode' = gMode /\ session' = session
BY DEF Purge, HandleEP0, ControlOut, SetBitMode

\* No step of a handle takes the mode of a channel that is in use.
LEMMA ClientMode ==
    ASSUME SessionInv, NEW ch \in Channels, Client(ch)
    PROVE  SessionType' /\ ModeHeld'
<1> USE DEF SessionType, SessionSteps, Closed, Resetting, Configuring, Ready
<1>1. CASE Open(ch)
  BY <1>1 DEF SessionInv, Open, ModeHeld, vars, chanVars
<1>2. CASE SetUp(ch)
  BY <1>2, SetUpMode
<1>3. CASE Configure(ch)
  BY <1>3 DEF SessionInv, Configure, Issue, ModeHeld, chanVars
<1>4. CASE Write(ch) \/ Read(ch)
  BY <1>4 DEF SessionInv, Write, Read, Issue, HostRead, ModeHeld, chanVars
<1>5. CASE Purge(ch)
  BY <1>5, PurgeMode DEF SessionInv, ModeHeld
<1>6. CASE Close(ch)
  BY <1>6 DEF SessionInv, Close, ModeHeld, vars, chanVars
<1> QED
  BY <1>1, <1>2, <1>3, <1>4, <1>5, <1>6 DEF Client

\* The handler never touches a mode.
LEMMA DeviceMode ==
    ASSUME SessionInv, Device
    PROVE  SessionType' /\ ModeHeld'
<1>1. UNCHANGED <<session, gMode>>
  BY DEF Device, Handler, Deliver, ResumePartial, ResumeComplete, SkipCommand, SyncCommand,
         LoopbackCommand, SetPort, ShiftBits, ShiftBytes, BreakBytes, Finish, Throw, chanVars
<1> QED
  BY <1>1, SMTT(30) DEF SessionInv, SessionType, ModeHeld

\* SessionInv is kept by every step.
LEMMA SessionNextInv == SessionInv /\ [SessionNext]_sessionVars => SessionInv'
<1> SUFFICES ASSUME SessionInv, [SessionNext]_sessionVars PROVE SessionInv'
  OBVIOUS
<1>1. Inv'
  BY SessionStep, NextInv DEF SessionInv
<1>2. CASE Device
  BY <1>1, <1>2, DeviceMode DEF SessionInv
<1>3. CASE \E ch \in Channels : Client(ch)
  BY <1>1, <1>3, ClientMode DEF SessionInv
<1>4. CASE UNCHANGED sessionVars
  BY <1>1, <1>4 DEF SessionInv, SessionType, ModeHeld, sessionVars, vars, chanVars
<1> QED
  BY <1>2, <1>3, <1>4 DEF SessionNext

\* A session that is set up has its channel in MPSSE mode until it is closed, whatever the
\* constructors and commands of the other channels do.
THEOREM SessionsKeepMode == SessionSpec => []ModeHeld
<1>1. SessionInv => ModeHeld
  BY DEF SessionInv
<1> QED
  BY <1>1, SessionInitInv, SessionNextInv, PTL DEF SessionSpec

-----------------------------------------------------------------------------
(* Sessions never end the process. *)

\* The inductive invariant: nothing is on the wire of a handle that is not set up, and the
\* transfer being handled is one of a channel in MPSSE mode.
GoesOn ==
    /\ NeverHalts
    /\ lastCut \in Cuts \cup {"end"}
    /\ \A ch \in Channels : session[ch] < Ready => wire[ch] = <<>>
    /\ data # <<>> => InMpsseMode

GoesOnInv == SessionInv /\ SyncInv /\ GoesOn

\* At first the device runs and nothing is on its way.
LEMMA GoesOnInit == SessionInit => GoesOn
BY DEF SessionInit, Init, GoesOn, NeverHalts

\* What the constructor and purge send is accepted.
LEMMA RequestAccepted ==
    ASSUME NEW ch, NEW request \in OutRequests, NEW value,
           HandleEP0(ControlOut(ch, request, value))
    PROVE  pc = "idle" /\ UNCHANGED <<pc, cur, data, lastCut, wire>>
<1>1. Accepted(ControlOut(ch, request, value))
  BY DEF Accepted, ControlOut
<1> QED
  BY <1>1 DEF HandleEP0, hostVars

\* What the constructor and purge send does not make the device halt.
LEMMA RequestSent ==
    ASSUME NEW ch \in Channels, SessionType, SetUp(ch) \/ Purge(ch)
    PROVE  pc = "idle" /\ UNCHANGED <<pc, cur, data, lastCut, wire>>
<1>1. CASE SetUp(ch)
  <2>1. session[ch] \in 1 .. 6
    BY <1>1 DEF SetUp, Resetting, Configuring
  <2>2. \E request \in OutRequests : \E value :
          SetUpRequests(ch)[session[ch]] = ControlOut(ch, request, value)
    <3>1. {\h00, \h06, \h07, \h09, SetBitMode} \subseteq OutRequests
      BY DEF OutRequests, SetBitMode
    <3> QED
      BY <2>1, <3>1 DEF SetUpRequests, Modes, BitMode
  <2> QED
    BY <1>1, <2>2, RequestAccepted DEF SetUp
<1>2. CASE Purge(ch)
  <2>1. \h00 \in OutRequests
    BY DEF OutRequests
  <2> QED
    BY <1>2, <2>1, RequestAccepted DEF Purge
<1> QED
  BY <1>1, <1>2

\* No step of a handle sends what the device throws at.
LEMMA ClientGoesOn ==
    ASSUME GoesOnInv, NEW ch \in Channels, Client(ch)
    PROVE  GoesOn'
<1> USE DEF SessionSteps, Closed, Resetting, Configuring, Ready
<1>1. session \in [Channels -> 0 .. 8] /\ wire \in [Channels -> Seq(WireByte)]
  BY DEF GoesOnInv, SessionInv, SessionType, Inv, TypeOK, OutsideType
<1>2. CASE Open(ch)
  BY <1>1, <1>2 DEF GoesOnInv, GoesOn, NeverHalts, InMpsseMode, Open, vars, chanVars, xferVars,
                    hostVars
<1>3. CASE SetUp(ch) \/ Purge(ch)
  <2>1. pc = "idle" /\ UNCHANGED <<pc, cur, data, lastCut, wire>>
    BY <1>3, RequestSent DEF GoesOnInv, SessionInv
  <2>2. data' = <<>>
    BY <2>1 DEF GoesOnInv, SyncInv
  <2>3. \A other \in Channels : session'[other] < 8 => session[other] < 8
    <3>1. CASE SetUp(ch)
      <4>1. session' = [session EXCEPT ![ch] = @ + 1] /\ session[ch] \in 1 .. 6
        BY <3>1 DEF SetUp
      <4> QED
        BY <1>1, <4>1
    <3>2. CASE Purge(ch)
      BY <3>2 DEF Purge
    <3> QED
      BY <1>3, <3>1, <3>2
  <2> QED
    BY <2>1, <2>2, <2>3 DEF GoesOnInv, GoesOn, NeverHalts
<1>4. CASE Configure(ch)
  <2>1. /\ session' = [session EXCEPT ![ch] = 8]
        /\ UNCHANGED <<gMode, pc, cur, data, lastCut>>
        /\ \A other \in Channels \ {ch} : wire'[other] = wire[other]
    BY <1>1, <1>4 DEF Configure, Issue, chanVars, xferVars
  <2> QED
    BY <1>1, <2>1 DEF GoesOnInv, GoesOn, NeverHalts, InMpsseMode
<1>5. CASE Write(ch)
  <2>1. /\ session' = session /\ session[ch] = 8
        /\ UNCHANGED <<gMode, pc, cur, data, lastCut>>
        /\ \A other \in Channels \ {ch} : wire'[other] = wire[other]
    BY <1>1, <1>5 DEF Write, Issue, chanVars, xferVars
  <2> QED
    BY <1>1, <2>1 DEF GoesOnInv, GoesOn, NeverHalts, InMpsseMode
<1>6. CASE Read(ch)
  BY <1>6 DEF GoesOnInv, GoesOn, NeverHalts, InMpsseMode, Read, HostRead, chanVars, xferVars
<1>7. CASE Close(ch)
  <2>1. /\ session' = [session EXCEPT ![ch] = 0] /\ wire[ch] = <<>>
        /\ UNCHANGED <<gMode, pc, cur, data, lastCut, wire>>
    BY <1>7 DEF Close, vars, chanVars, xferVars, hostVars
  <2> QED
    BY <1>1, <2>1 DEF GoesOnInv, GoesOn, NeverHalts, InMpsseMode
<1> QED
  BY <1>2, <1>3, <1>4, <1>5, <1>6, <1>7 DEF Client

\* No step of the device on what handles send ends in an exception.
LEMMA DeviceGoesOn ==
    ASSUME CommandsWellFormed, CommandsSupported, Cuts \cap {"head", "gap"} = {},
           "AdapterError" \notin Faults, GoesOnInv, Device
    PROVE  GoesOn'
<1>1. /\ session' = session /\ gMode' = gMode /\ lastCut \notin {"head", "gap", "abandoned"}
      /\ \A ch \in Channels : InSync(ch)
  <2>1. lastCut \notin {"head", "gap", "abandoned"}
    BY FaultsAssumption, SMTT(60) DEF GoesOnInv, GoesOn, CutKinds
  <2>2. session' = session /\ gMode' = gMode
    BY DEF Device, Handler, Deliver, ResumePartial, ResumeComplete, SkipCommand, SyncCommand,
           LoopbackCommand, SetPort, ShiftBits, ShiftBytes, BreakBytes, Finish, Throw, chanVars
  <2> QED
    BY <2>1, <2>2 DEF GoesOnInv, GoesOn, NeverHalts, SyncInv
<1>2. CASE Handler
  <2>1. pc' # "halted"
    BY <1>1, <1>2, HandlerGoesOn DEF GoesOnInv, GoesOn, SessionInv
  <2>2. UNCHANGED <<cur, lastCut, wire>>
    BY <1>2 DEF Handler, ResumePartial, ResumeComplete, SkipCommand, SyncCommand,
           LoopbackCommand, SetPort, ShiftBits, ShiftBytes, BreakBytes, Finish, Throw,
           hostVars
  <2>3. data # <<>> \/ data' = <<>>
    <3>1. CASE Finish
      BY <3>1 DEF Finish
    <3>2. CASE pc = "resume"
      BY <3>2 DEF GoesOnInv, SessionInv, Inv, FragmentFirst
    <3> QED
      BY <1>2, <2>1, <3>1, <3>2
         DEF Handler, ResumePartial, ResumeComplete, SkipCommand, SyncCommand,
             LoopbackCommand, SetPort, ShiftBits, ShiftBytes, BreakBytes, Throw, AtCommand
  <2>4. data' # <<>> => gMode'[cur'] = MpsseMode
    BY <1>1, <2>2, <2>3 DEF GoesOnInv, GoesOn, InMpsseMode
  <2> QED
    BY <1>1, <2>1, <2>2, <2>4 DEF GoesOnInv, GoesOn, NeverHalts, InMpsseMode
<1>3. ASSUME NEW ch \in Channels, Deliver(ch) PROVE GoesOn'
  <2>1. wire \in [Channels -> Seq(WireByte)] /\ wire[ch] # <<>>
    BY <1>3, EmptySeq DEF Deliver, GoesOnInv, SessionInv, Inv, TypeOK, OutsideType
  <2>2. session[ch] = Ready
    BY <2>1 DEF GoesOnInv, GoesOn, SessionInv, SessionType, SessionSteps, Closed, Ready
  <2>3. gMode[ch] = MpsseMode
    BY <2>2 DEF GoesOnInv, SessionInv, ModeHeld, Configuring, Ready
  <2>4. pc' # "halted" /\ cur' = ch /\ lastCut' \in Cuts
        /\ \A other \in Channels \ {ch} : wire'[other] = wire[other]
    BY <1>1, <1>3, <2>1 DEF Deliver
  <2> QED
    BY <1>1, <2>1, <2>2, <2>3, <2>4 DEF GoesOnInv, GoesOn, NeverHalts, InMpsseMode
<1> QED
  BY <1>2, <1>3 DEF Device

\* No step of a session makes the device halt.
LEMMA GoesOnNext ==
    ASSUME CommandsWellFormed, CommandsSupported, Cuts \cap {"head", "gap"} = {},
           "AdapterError" \notin Faults
    PROVE  GoesOnInv /\ [SessionNext]_sessionVars => GoesOnInv'
<1> SUFFICES ASSUME GoesOnInv, [SessionNext]_sessionVars PROVE GoesOnInv'
  OBVIOUS
<1>1. SessionInv'
  BY SessionNextInv DEF GoesOnInv
<1>2. SyncInv'
  BY SessionStep, SyncNext DEF GoesOnInv, SessionInv
<1>3. GoesOn'
  <2>1. CASE Device
    BY <2>1, DeviceGoesOn
  <2>2. CASE \E ch \in Channels : Client(ch)
    BY <2>2, ClientGoesOn
  <2>3. CASE UNCHANGED sessionVars
    BY <2>3 DEF GoesOnInv, GoesOn, NeverHalts, InMpsseMode, sessionVars, vars, chanVars,
                xferVars, hostVars
  <2> QED
    BY <2>1, <2>2, <2>3 DEF SessionNext
<1> QED
  BY <1>1, <1>2, <1>3 DEF GoesOnInv

\* Handles that come and go as MPSSE.cpp makes them never make the device throw, as long as
\* they write whole, supported commands, no transfer ends in or right behind a header and
\* the adapter answers.
THEOREM SessionsNeverHalt ==
    ASSUME CommandsWellFormed, CommandsSupported, Cuts \cap {"head", "gap"} = {},
           "AdapterError" \notin Faults
    PROVE  SessionSpec => []NeverHalts
<1>1. SessionInit => GoesOnInv
  BY SessionInitInv, InitSync, GoesOnInit DEF SessionInit, GoesOnInv
<1>2. GoesOnInv => NeverHalts
  BY DEF GoesOnInv, GoesOn
<1> QED
  BY <1>1, <1>2, GoesOnNext, PTL DEF SessionSpec
=============================================================================
