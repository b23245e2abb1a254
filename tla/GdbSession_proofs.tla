-------------------------- MODULE GdbSession_proofs --------------------------
(***************************************************************************)
(* Proofs about the gdbstub session for every set of cores, address width  *)
(* and packet set: the core serving a session is online, and so is the   *)
(* core 'H' selected unless it is g_firstCoreId; the types; and the       *)
(* single-step flag names the serving core.  The one hypothesis of the    *)
(* first, MAX_CORE_NUM < 256, is what makes OsCpuOnlineCheckMask's U8     *)
(* argument name the core 'H' asked for.                                  *)
(***************************************************************************)
EXTENDS GdbSession, FiniteSetTheorems, TLAPS

USE SessionAssumption

(* The strengthening of SelectedCoreKnown: the die notifier is registered *)
(* only by the primary's OsGdbStubInit, which set g_firstCoreId, and a    *)
(* running session has been entered through it.                           *)
SInv ==
  /\ online \subseteq Core
  /\ state \in {"idle", "RECEIVING", "EXIT"}
  /\ ready => firstCoreId = Primary /\ Primary \in inited
  /\ state # "idle" => ready /\ SelectedCoreKnown

(* A session step leaves stub init alone, keeps the session running and   *)
(* changes g_coreId only to g_firstCoreId or to an id GdbCmdSetThread      *)
(* accepted.                                                               *)
RecvFrame ==
  /\ UNCHANGED <<online, firstCoreId, ready, prevCoreId>>
  /\ state' \in {"RECEIVING", "EXIT"}
  /\ \/ coreId' = coreId
     \/ coreId' = firstCoreId
     \/ coreId' \in Int /\ ThreadIdOK(coreId')

(* ToInt yields an integer for every parsed number.                        *)
LEMMA ToIntType == \A v \in Nat : ToInt(v) \in Int
  BY DEF ToInt, A

(* Every handler but 'H' leaves g_coreId as it is; 'H' sets it as        *)
(* RecvFrame allows.                                                       *)
LEMMA ReceiveFrame ==
  ASSUME NEW p \in Packets, Receive(p)
  PROVE  RecvFrame
<1>1. p.a \in Nat
  OBVIOUS
<1>2. state = "RECEIVING"
  BY DEF Receive
<1>3. CASE p.ch = "chk" /\ reply' = Rep("E01") /\ OnlyReply
  BY <1>3, <1>2 DEF OnlyReply, RecvFrame, initVars
<1>4. CASE p.ch = "" /\ reply' = None /\ OnlyReply
  BY <1>4, <1>2 DEF OnlyReply, RecvFrame, initVars
<1>5. CASE Dispatch(p)
  <2>. DEFINE h == Handler(p.ch)
  <2>1. CASE h = "MemRead" /\ CmdMemRead(p)
    BY <2>1, <1>2 DEF CmdMemRead, RecvFrame, initVars
  <2>2. CASE h = "MemWrite" /\ CmdMemWrite(p)
    BY <2>2, <1>2 DEF CmdMemWrite, RecvFrame, initVars
  <2>3. CASE h = "Break" /\ CmdBreak(p)
    BY <2>3, <1>2 DEF CmdBreak, RecvFrame, initVars
  <2>4. CASE h \in {"ReadReg", "WriteReg"} /\ CmdRegs(p)
    BY <2>4, <1>2 DEF CmdRegs, OnlyReply, RecvFrame, initVars
  <2>5. CASE h \in {"ReadAllRegs", "WriteAllRegs"} /\ CmdAllRegs(p)
    BY <2>5, <1>2 DEF CmdAllRegs, OnlyReply, RecvFrame, initVars
  <2>6. CASE h = "StopReply" /\ CmdStopReply
    BY <2>6, <1>2 DEF CmdStopReply, OnlyReply, RecvFrame, initVars
  <2>7. CASE h = "Query" /\ CmdQuery(p)
    BY <2>7, <1>2 DEF CmdQuery, OnlyReply, RecvFrame, initVars
  <2>8. CASE h = "ThreadSet" /\ CmdThreadSet(p)
    <3>1. ToInt(p.a) \in Int
      BY <1>1, ToIntType
    <3>. QED  BY <2>8, <1>2, <3>1 DEF CmdThreadSet, OnlyReply, RecvFrame, initVars
  <2>9. CASE h = "ThreadAlive" /\ CmdThreadAlive(p)
    BY <2>9, <1>2 DEF CmdThreadAlive, OnlyReply, RecvFrame, initVars
  <2>10. CASE h = "Continue" /\ CmdContinue
    BY <2>10, <1>2 DEF CmdContinue, OnlyReply, RecvFrame, initVars
  <2>11. CASE h = "Step" /\ CmdStep
    BY <2>11, <1>2 DEF CmdStep, OnlyReply, RecvFrame, initVars
  <2>12. CASE h = "Exit" /\ CmdExit
    BY <2>12, <1>2 DEF CmdExit, RecvFrame, initVars
  <2>13. CASE h = "Dfx" /\ reply' = Rep("OK") /\ OnlyReply
    BY <2>13, <1>2 DEF OnlyReply, RecvFrame, initVars
  <2>14. CASE h = "NoRsp" /\ reply' = None /\ OnlyReply
    BY <2>14, <1>2 DEF OnlyReply, RecvFrame, initVars
  <2>15. CASE h = "NotSupport" /\ reply' = Rep("empty") /\ OnlyReply
    BY <2>15, <1>2 DEF OnlyReply, RecvFrame, initVars
  <2>. QED
    BY <1>5, <2>1, <2>2, <2>3, <2>4, <2>5, <2>6, <2>7, <2>8, <2>9, <2>10,
       <2>11, <2>12, <2>13, <2>14, <2>15 DEF Dispatch
<1>. QED  BY <1>3, <1>4, <1>5 DEF Receive

(* The cores 'H' can choose: the U8 cast of OsCpuOnlineCheckMask is the    *)
(* identity on 0 .. MAX_CORE_NUM when MAX_CORE_NUM < 256.                  *)
LEMMA ThreadIdOnline ==
  ASSUME MaxCoreNum < 256, firstCoreId \in Nat,
         NEW id \in Int, ThreadIdOK(id)
  PROVE  id \in online
<1>1. id \in 0 .. 255
  BY DEF ThreadIdOK
<1>2. ToU8(id) = id
  BY <1>1 DEF ToU8
<1>. QED  BY <1>2 DEF ThreadIdOK

LEMMA InitSInv == Init => SInv
  BY DEF Init, SInv

LEMMA NextSInv ==
  ASSUME MaxCoreNum < 256, SInv, [Next]_vars
  PROVE  SInv'
<1>1. Primary \in Nat
  OBVIOUS
<1>2. ASSUME NEW c \in Core, StubInit(c)  PROVE SInv'
  <2>1. CASE c = Primary
    <3>1. ~ready /\ state = "idle"
      BY <1>2, <2>1 DEF StubInit, SInv
    <3>. QED  BY <1>2, <2>1, <3>1 DEF StubInit, SInv
  <2>2. CASE c # Primary
    BY <1>2, <2>2 DEF StubInit, SmpInit, SInv, SelectedCoreKnown
  <2>. QED  BY <2>1, <2>2
<1>3. ASSUME NEW c \in Core, Enter(c)  PROVE SInv'
  BY <1>3 DEF Enter, SInv, SelectedCoreKnown, initVars
<1>7. CASE PrimarySmpInit
  BY <1>7 DEF PrimarySmpInit, SmpInit, SInv, SelectedCoreKnown
<1>4. ASSUME NEW p \in Packets, Receive(p)  PROVE SInv'
  <2>1. RecvFrame
    BY <1>4, ReceiveFrame
  <2>2. state = "RECEIVING" /\ ready /\ firstCoreId = Primary
        /\ prevCoreId \in online /\ (coreId \in online \/ coreId = firstCoreId)
    BY <1>4 DEF Receive, SInv, SelectedCoreKnown
  <2>3. coreId' \in online \/ coreId' = firstCoreId'
    <3>1. CASE coreId' = coreId
      BY <2>1, <2>2, <3>1 DEF RecvFrame
    <3>2. CASE coreId' = firstCoreId
      BY <2>1, <2>2, <3>2 DEF RecvFrame
    <3>3. CASE coreId' \in Int /\ ThreadIdOK(coreId')
      <4>1. firstCoreId \in Nat
        BY <2>2, <1>1
      <4>. QED  BY <3>3, <4>1, ThreadIdOnline, <2>1, <2>2 DEF RecvFrame
    <3>. QED  BY <2>1, <3>1, <3>2, <3>3 DEF RecvFrame
  <2>4. inited' = inited
    BY <1>4 DEF Receive, OnlyReply, Dispatch, CmdMemRead, CmdMemWrite,
       CmdBreak, CmdRegs, CmdAllRegs, CmdStopReply, CmdQuery, CmdThreadSet,
       CmdThreadAlive, CmdContinue, CmdStep, CmdExit, initVars
  <2>. QED  BY <2>1, <2>2, <2>3, <2>4 DEF RecvFrame, SInv, SelectedCoreKnown
<1>5. CASE Leave
  BY <1>5 DEF Leave, SInv, initVars
<1>6. CASE UNCHANGED vars
  BY <1>6 DEF vars, SInv, SelectedCoreKnown
<1>. QED  BY <1>2, <1>3, <1>4, <1>5, <1>6, <1>7 DEF Next

(* However stub initialisation on the cores interleaves with sessions and  *)
(* whatever packets the host sends, the core serving a session is online, *)
(* and 'H' can select an offline core only through -1, which stands for   *)
(* g_firstCoreId (line 651): for every core count below 256 the mask test *)
(* of GdbCmdSetThread refuses every other offline core.                   *)
THEOREM SelectedCoreKnownThm ==
  MaxCoreNum < 256 => (Spec => []SelectedCoreKnown)
<1>. SUFFICES ASSUME MaxCoreNum < 256 PROVE Spec => []SelectedCoreKnown
  OBVIOUS
<1>1. SInv => SelectedCoreKnown
  BY DEF SInv, SelectedCoreKnown
<1>. QED  BY InitSInv, NextSInv, <1>1, PTL DEF Spec

-----------------------------------------------------------------------------
(* TypeOK with the one fact it needs about g_coreId: GdbCmdStep copies    *)
(* g_coreId into g_ssCoreId, so g_coreId must be an integer.               *)
TInv == TypeOK /\ coreId \in Int

(* The flags GdbSerialStub and OsGdbStubInit set are Booleans.             *)
Bools == ready \in BOOLEAN /\ notFirstStart \in BOOLEAN /\ exitDbg \in BOOLEAN

(* g_onlineCores counts at most the cores there are.                      *)
LEMMA OnlineCard ==
  ASSUME TypeOK
  PROVE  /\ IsFiniteSet(online)
         /\ Cardinality(online) <= Cardinality(Core)
         /\ Cardinality(Core) \in Nat
<1>1. online \subseteq Core
  BY DEF TypeOK
<1>. QED  BY <1>1, FS_Subset, FS_CardinalityType

LEMMA InitTInv == Init => TInv
<1>. SUFFICES ASSUME Init PROVE TInv
  OBVIOUS
<1>1. Bools
  BY Zenon DEF Init, Bools
<1>2. Cardinality({}) = 0 /\ Cardinality(Core) \in Nat
  BY FS_EmptySet, FS_CardinalityType
<1>. QED  BY <1>1, <1>2 DEF Init, Bools, TInv, TypeOK, NoCore

(* What a session step may do to the variables TypeOK constrains: stub    *)
(* init, the session count, the core the stub runs on and g_notFirstStart *)
(* stay, 'k' sets g_exitDbg, 'c' and 's' set the single-step pair, and     *)
(* 'q' moves g_thIdx to 0 or to at most g_onlineCores.                     *)
TFrame ==
  /\ UNCHANGED <<initVars, self, sessions, notFirstStart>>
  /\ state' \in {"RECEIVING", "EXIT"}
  /\ exitDbg' \in {exitDbg, TRUE}
  /\ ssFlg' \in {ssFlg, 0, 1} /\ ssCoreId' \in {ssCoreId, coreId, NoCore}
  /\ thIdx' \in {0, thIdx} \cup 1 .. onlineCnt

LEMMA ReceiveTFrame ==
  ASSUME thIdx \in Nat, onlineCnt \in Nat, NEW p \in Packets, Receive(p)
  PROVE  TFrame
<1>1. state = "RECEIVING"
  BY DEF Receive
<1>2. CASE OnlyReply
  BY <1>1, <1>2 DEF OnlyReply, TFrame, initVars
<1>3. CASE Dispatch(p)
  <2>. DEFINE h == Handler(p.ch)
  <2>1. CASE h = "MemRead" /\ CmdMemRead(p)
    BY <2>1, <1>1 DEF CmdMemRead, TFrame, initVars
  <2>2. CASE h = "MemWrite" /\ CmdMemWrite(p)
    BY <2>2, <1>1 DEF CmdMemWrite, TFrame, initVars
  <2>3. CASE h = "Break" /\ CmdBreak(p)
    BY <2>3, <1>1 DEF CmdBreak, TFrame, initVars
  <2>4. CASE h = "Query" /\ CmdQuery(p)
    <3>. DEFINE idx == IF p.sub = "fThreadInfo" THEN 0 ELSE thIdx
    <3>1. CASE p.sub \in {"fThreadInfo", "sThreadInfo"} /\ idx < onlineCnt
      <4>1. thIdx' = idx + 1 /\ UNCHANGED <<initVars, state, self,
              notFirstStart, exitDbg, ssFlg, ssCoreId, sessions>>
        BY <2>4, <3>1 DEF CmdQuery, OnlyReply
      <4>2. idx + 1 \in 1 .. onlineCnt
        BY <3>1
      <4>. QED  BY <4>1, <4>2, <1>1 DEF TFrame
    <3>2. CASE p.sub \in {"fThreadInfo", "sThreadInfo"} /\ ~(idx < onlineCnt)
      BY <2>4, <3>2, <1>1 DEF CmdQuery, OnlyReply, TFrame, initVars
    <3>3. CASE p.sub \notin {"fThreadInfo", "sThreadInfo"}
      BY <2>4, <3>3, <1>1 DEF CmdQuery, OnlyReply, TFrame, initVars
    <3>. QED  BY <3>1, <3>2, <3>3
  <2>5. CASE h = "ThreadSet" /\ CmdThreadSet(p)
    BY <2>5, <1>1 DEF CmdThreadSet, OnlyReply, TFrame, initVars
  <2>6. CASE h = "Continue" /\ CmdContinue
    BY <2>6, <1>1 DEF CmdContinue, OnlyReply, TFrame, initVars, NoCore
  <2>7. CASE h = "Step" /\ CmdStep
    BY <2>7, <1>1 DEF CmdStep, OnlyReply, TFrame, initVars
  <2>8. CASE h = "Exit" /\ CmdExit
    BY <2>8, <1>1 DEF CmdExit, TFrame, initVars
  <2>9. CASE OnlyReply
    BY <2>9, <1>2
  <2>. QED
    BY <1>3, <2>1, <2>2, <2>3, <2>4, <2>5, <2>6, <2>7, <2>8, <2>9
    DEF Dispatch, CmdRegs, CmdAllRegs, CmdStopReply, CmdThreadAlive
<1>. QED  BY <1>2, <1>3 DEF Receive

LEMMA ReceiveTInv ==
  ASSUME TInv, NEW p \in Packets, Receive(p)
  PROVE  TInv'
<1>0. /\ TypeOK /\ coreId \in Int
      /\ thIdx \in 0 .. Cardinality(Core) /\ onlineCnt = Cardinality(online)
      /\ ssCoreId \in Int /\ ssFlg \in {0, 1} /\ firstCoreId \in Core \cup {-1}
  BY Zenon DEF TInv, TypeOK
<1>1. Cardinality(online) <= Cardinality(Core) /\ Cardinality(Core) \in Nat
      /\ IsFiniteSet(online)
  BY <1>0, OnlineCard
<1>2. TFrame
  <2>1. thIdx \in Nat /\ onlineCnt \in Nat
    BY <1>0, <1>1, FS_CardinalityType
  <2>. QED  BY <2>1, ReceiveTFrame
<1>3. Bools'
  BY <1>2, Zenon DEF TFrame, initVars, TInv, TypeOK, Bools
<1>4. coreId' \in Int
  <2>1. RecvFrame
    BY ReceiveFrame
  <2>2. coreId' = coreId \/ coreId' = firstCoreId \/ coreId' \in Int
    BY <2>1, Zenon DEF RecvFrame
  <2>3. firstCoreId \in Int /\ coreId \in Int
    BY <1>0
  <2>. QED  BY <2>2, <2>3, Zenon
<1>5. thIdx' \in 0 .. Cardinality(Core)
  <2>1. thIdx' \in {0, thIdx} \cup 1 .. onlineCnt
    BY <1>2, Zenon DEF TFrame
  <2>2. thIdx \in 0 .. Cardinality(Core) /\ onlineCnt = Cardinality(online)
    BY <1>0
  <2>3. /\ onlineCnt <= Cardinality(Core) /\ Cardinality(Core) \in Nat
        /\ onlineCnt \in Nat
    BY <2>2, <1>1, FS_CardinalityType
  <2>4. CASE thIdx' \in 1 .. onlineCnt
    BY <2>4, <2>3
  <2>5. CASE thIdx' \in {0, thIdx}
    BY <2>5, <2>2, <2>3
  <2>. QED  BY <2>1, <2>4, <2>5
<1>6. /\ UNCHANGED <<inited, online, onlineCnt, firstCoreId, self, sessions>>
      /\ ssCoreId' \in {ssCoreId, coreId, NoCore} /\ ssFlg' \in {ssFlg, 0, 1}
      /\ state' \in {"idle", "RECEIVING", "EXIT"}
  BY <1>2, Zenon DEF TFrame, initVars
<1>7. ssCoreId' \in Int /\ ssFlg' \in {0, 1}
  BY <1>0, <1>6 DEF NoCore
<1>. QED  BY <1>0, <1>3, <1>4, <1>5, <1>6, <1>7, Zenon DEF TInv, TypeOK, Bools

LEMMA NextTInv ==
  ASSUME TInv, [Next]_vars
  PROVE  TInv'
<1>1. ASSUME NEW c \in Core, StubInit(c)  PROVE TInv'
  <2>1. Bools'
    BY <1>1, Zenon DEF StubInit, SmpInit, TInv, TypeOK, Bools
  <2>2. CASE c = Primary
    BY <1>1, <2>1, <2>2 DEF StubInit, TInv, TypeOK, Bools
  <2>3. CASE c # Primary
    <3>1. IsFiniteSet(online) /\ c \notin online
      BY <1>1, OnlineCard DEF StubInit, TInv, TypeOK
    <3>2. Cardinality(online \cup {c}) = Cardinality(online) + 1
      BY <3>1, FS_AddElement
    <3>. QED  BY <1>1, <2>1, <2>3, <3>2 DEF StubInit, SmpInit, TInv, TypeOK, Bools
  <2>. QED  BY <2>2, <2>3
<1>6. CASE PrimarySmpInit
  <2>1. Bools'
    BY <1>6, Zenon DEF PrimarySmpInit, TInv, TypeOK, Bools
  <2>2. IsFiniteSet(online) /\ Primary \notin online
    BY <1>6, OnlineCard DEF PrimarySmpInit, TInv
  <2>3. Cardinality(online \cup {Primary}) = Cardinality(online) + 1
    BY <2>2, FS_AddElement
  <2>. QED  BY <1>6, <2>1, <2>3 DEF PrimarySmpInit, SmpInit, TInv, TypeOK, Bools
<1>2. ASSUME NEW c \in Core, Enter(c)  PROVE TInv'
  <2>1. notFirstStart' = TRUE /\ exitDbg' = exitDbg /\ ready' = ready
    BY <1>2 DEF Enter, initVars
  <2>2. Bools'
    BY <2>1, Zenon DEF TInv, TypeOK, Bools
  <2>3. /\ UNCHANGED <<inited, online, onlineCnt, firstCoreId, thIdx, ssCoreId>>
        /\ ssFlg' = 0
        /\ self' = c /\ coreId' = c /\ state' = "RECEIVING"
        /\ sessions' = sessions + 1 /\ sessions < MaxSessions
    BY <1>2 DEF Enter, initVars
  <2>. QED  BY <2>2, <2>3 DEF TInv, TypeOK, Bools
<1>3. ASSUME NEW p \in Packets, Receive(p)  PROVE TInv'
  BY <1>3, ReceiveTInv
<1>4. CASE Leave
  <2>1. Bools'
    BY <1>4, Zenon DEF Leave, initVars, TInv, TypeOK, Bools
  <2>. QED  BY <1>4, <2>1 DEF Leave, initVars, TInv, TypeOK, Bools, NoCore
<1>5. CASE UNCHANGED vars
  BY <1>5 DEF vars, TInv, TypeOK
<1>. QED  BY <1>1, <1>2, <1>3, <1>4, <1>5, <1>6 DEF Next

(* However stub init on the cores interleaves with sessions and whatever   *)
(* packets the host sends, g_onlineCores is the number of cores in         *)
(* g_onlineBitmap, g_thIdx never passes the core count and the session    *)
(* state stays one of the loop's, for every finite set of cores.          *)
THEOREM SessionTypeCorrect == Spec => []TypeOK
<1>1. TInv => TypeOK
  BY DEF TInv
<1>. QED  BY InitTInv, NextTInv, <1>1, PTL DEF Spec

-----------------------------------------------------------------------------
(* The session facts the action property rests on.  A running session *)
(* is served by the core that entered it, which is g_prevCoreId and, if     *)
(* g_ssCoreId is set, g_ssCoreId too (the entry guard of GdbSerialStub);    *)
(* g_ssFlg is set only with a core in g_ssCoreId.                           *)
SsCore ==
  /\ state = "RECEIVING" => /\ self \in Core /\ prevCoreId = self
                            /\ ssCoreId \in {NoCore, self}
  /\ ssFlg = 1 => ssCoreId \in Core

(* A step of the running session that ends it with g_ssFlg set leaves      *)
(* g_ssCoreId naming the serving core.                                     *)
SsStep == state' = "EXIT" /\ ssFlg' = 1 => ssCoreId' = self'

LEMMA NoCoreNotCore == NoCore \notin Core
  BY DEF NoCore

(* Every handler keeps SsCore, and one that ends the session with          *)
(* g_ssFlg set has g_ssCoreId = g_prevCoreId = the serving core.           *)
LEMMA ReceiveSs ==
  ASSUME SsCore, NEW p \in Packets, Receive(p)
  PROVE  SsCore' /\ SsStep /\ UNCHANGED self
<1>1. state = "RECEIVING" /\ self \in Core /\ prevCoreId = self
      /\ ssCoreId \in {NoCore, self}
  BY DEF Receive, SsCore
<1>2. CASE OnlyReply
  BY <1>1, <1>2 DEF OnlyReply, SsCore, SsStep
<1>3. CASE Dispatch(p)
  <2>. DEFINE h == Handler(p.ch)
  <2>1. CASE h = "MemRead" /\ CmdMemRead(p)
    BY <2>1, <1>1 DEF CmdMemRead, SsCore, SsStep
  <2>2. CASE h = "MemWrite" /\ CmdMemWrite(p)
    BY <2>2, <1>1 DEF CmdMemWrite, SsCore, SsStep
  <2>3. CASE h = "Break" /\ CmdBreak(p)
    BY <2>3, <1>1 DEF CmdBreak, SsCore, SsStep
  <2>4. CASE h = "Query" /\ CmdQuery(p)
    BY <2>4, <1>1 DEF CmdQuery, OnlyReply, SsCore, SsStep
  <2>5. CASE h = "ThreadSet" /\ CmdThreadSet(p)
    BY <2>5, <1>1 DEF CmdThreadSet, OnlyReply, SsCore, SsStep
  <2>6. CASE h = "Continue" /\ CmdContinue
    BY <2>6, <1>1 DEF CmdContinue, OnlyReply, SsCore, SsStep
  <2>7. CASE h = "Step" /\ CmdStep
    <3>1. CASE reply' = None /\ OnlyReply
      BY <3>1, <1>1 DEF OnlyReply, SsCore, SsStep
    <3>2. CASE ssFlg' = (IF prevCoreId # coreId THEN 0 ELSE 1)
               /\ ssCoreId' = coreId /\ state' = "EXIT"
               /\ UNCHANGED <<self, prevCoreId, notFirstStart, sessions>>
      BY <3>2, <1>1 DEF SsCore, SsStep
    <3>. QED  BY <2>7, <3>1, <3>2 DEF CmdStep
  <2>8. CASE h = "Exit" /\ CmdExit
    <3>1. ssFlg = 1 => ssCoreId = self
      BY <1>1, NoCoreNotCore DEF SsCore
    <3>. QED  BY <2>8, <3>1 DEF CmdExit, SsCore, SsStep
  <2>9. CASE OnlyReply
    BY <2>9, <1>2
  <2>. QED
    BY <1>3, <2>1, <2>2, <2>3, <2>4, <2>5, <2>6, <2>7, <2>8, <2>9
    DEF Dispatch, CmdRegs, CmdAllRegs, CmdStopReply, CmdThreadAlive
<1>. QED  BY <1>2, <1>3 DEF Receive

LEMMA InitSs == Init => SsCore
  BY DEF Init, SsCore

LEMMA NextSs ==
  ASSUME SsCore, [Next]_vars
  PROVE  SsCore'
<1>1. ASSUME NEW c \in Core, StubInit(c)  PROVE SsCore'
  BY <1>1 DEF StubInit, SsCore
<1>2. ASSUME NEW c \in Core, Enter(c)  PROVE SsCore'
  BY <1>2 DEF Enter, SsCore
<1>3. ASSUME NEW p \in Packets, Receive(p)  PROVE SsCore'
  BY <1>3, ReceiveSs
<1>4. CASE Leave
  BY <1>4 DEF Leave, SsCore
<1>5. CASE PrimarySmpInit
  BY <1>5 DEF PrimarySmpInit, SsCore
<1>6. CASE UNCHANGED vars
  BY <1>6 DEF vars, SsCore
<1>. QED  BY <1>1, <1>2, <1>3, <1>4, <1>5, <1>6 DEF Next

(* SsCore holds in every reachable state.                                  *)
LEMMA SpecSs == Spec => []SsCore
  BY InitSs, NextSs, PTL DEF Spec

(* GdbCmdStep with 'H' pointing at another core clears g_ssFlg, and 'c'    *)
(* clears it: for every core set and packet sequence, whenever a packet    *)
(* ends the session with g_ssFlg set, g_ssCoreId is the core that served   *)
(* it, so the single step re-enters the stub on that core as master.       *)
THEOREM SsFlgOwnStepThm == Spec => SsFlgOwnStep
<1>1. SsCore /\ [Next]_vars =>
        [state = "RECEIVING" /\ state' = "EXIT" /\ ssFlg' = 1 => ssCoreId' = self]_vars
  <2>. SUFFICES ASSUME SsCore, [Next]_vars
                PROVE  state = "RECEIVING" /\ state' = "EXIT" /\ ssFlg' = 1
                         => ssCoreId' = self
    OBVIOUS
  <2>1. ASSUME NEW p \in Packets, Receive(p)
        PROVE  state' = "EXIT" /\ ssFlg' = 1 => ssCoreId' = self
    <3>1. SsStep /\ self' = self
      BY <2>1, ReceiveSs
    <3>. QED  BY <3>1 DEF SsStep
  <2>2. ASSUME NEW c \in Core, StubInit(c) \/ Enter(c) \/ PrimarySmpInit
        PROVE  ~(state = "RECEIVING" /\ state' = "EXIT")
    BY <2>2 DEF StubInit, Enter, PrimarySmpInit
  <2>3. CASE Leave \/ UNCHANGED vars
    BY <2>3 DEF Leave, vars
  <2>. QED  BY <2>1, <2>2, <2>3 DEF Next
<1>. QED  BY <1>1, SpecSs, PTL DEF SsFlgOwnStep, Spec

=============================================================================
