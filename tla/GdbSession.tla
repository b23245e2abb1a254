------------------------------ MODULE GdbSession ------------------------------
(***************************************************************************)
(* The gdbstub's serial session (gdbstub_common.c): stub initialisation on *)
(* every core (OsGdbStubInit, OsGdbStubEarlyInit, OsGdbStubSmpInit), the   *)
(* packet loop of GdbSerialStub, the dispatch table g_gdbCmdHandlers and   *)
(* every command handler, with the memory-region validator GdbAddrCheck.   *)
(* Which core serves the host is decided by the rendezvous (GdbRendezvous);*)
(* here any online core may enter a session while none is running.  Host   *)
(* packets are abstract records whose numeric fields are the U64 values    *)
(* OsGdbHex2U64 returns; the handler casts them to its own types as        *)
(* CHECK_HEX does.  Results of the architecture layer (not in the          *)
(* repository) are free choices.                                           *)
(***************************************************************************)
EXTENDS Integers, FiniteSets, TLC

CONSTANTS
  Core,          \* core ids
  Primary,       \* g_cfgPrimaryCore
  MaxCoreNum,    \* MAX_CORE_NUM
  AW,            \* bits of uintptr_t and int (32 on armv7-r)
  OsStart, OsEnd,        \* __os_section_start/end
  TextStart, TextEnd,    \* __os_stub_text_start/end
  DataStart, DataEnd,    \* __os_stub_data_start/end
  InstrSize,     \* BREAK_INSTR_SIZE
  Packets,       \* packets the host may send
  MaxSessions    \* sessions explored

ASSUME SessionAssumption ==
  /\ Core \subseteq Nat /\ IsFiniteSet(Core) /\ Primary \in Core
  /\ MaxCoreNum \in Nat /\ AW \in Nat \ {0} /\ InstrSize \in Nat \ {0}
  /\ 2 ^ AW \in Nat \ {0}      \* stated for the provers, which lack ^ axioms
  /\ \A p \in Packets : {p.a, p.b, p.t, p.pay} \subseteq Nat
  /\ \A a \in {OsStart, OsEnd, TextStart, TextEnd, DataStart, DataEnd} :
        a \in 0 .. 2 ^ AW - 1
  /\ MaxSessions \in Nat

A   == 2 ^ AW              \* values of a uintptr_t
U64 == 2 ^ (2 * AW)        \* values of the parsed U64 (twice the word)

(* OsGdbHex2U64 (lines 143-185): the digits' value, negated in U64 when    *)
(* the field starts with '-'.                                              *)
OsGdbHex2U64(neg, digits) == IF neg THEN (U64 - digits) % U64 ELSE digits % U64

(* The casts of CHECK_HEX (lines 187-199) to uintptr_t, int and U8.        *)
ToAddr(v) == v % A
ToInt(v)  == IF v % A >= A \div 2 THEN (v % A) - A ELSE v % A
ToU8(v)   == v % 256

(* g_regions as OsGdbConfigInitMemRegions (lines 208-224) fills them.  The *)
(* third region ends where it starts.                                     *)
Regions == <<[start |-> OsStart,   end |-> OsEnd,     attrs |-> {"R", "W"}],
             [start |-> TextStart, end |-> TextEnd,   attrs |-> {"NoBkpt"}],
             [start |-> DataStart, end |-> DataStart, attrs |-> {"NoBkpt"}]>>

(* GdbAddrCheck (lines 226-246): TRUE when it returns 0.  addr + len is    *)
(* computed in uintptr_t.                                                 *)
AddrOK(addr, len, attr) ==
  \E i \in 1 .. 3 : /\ addr >= Regions[i].start
                    /\ (addr + len) % A < Regions[i].end
                    /\ attr \subseteq Regions[i].attrs

(* GdbInvalidBkptAddr (lines 248-251).                                    *)
InvalidBkptAddr(addr) == AddrOK(addr, InstrSize, {"NoBkpt"})

(* GdbNotSupportBkptType (lines 367-371), with the Z-packet type numbers. *)
BP_BREAKPOINT == 0
SupportedBkptTypes == {BP_BREAKPOINT, 2, 4}

(* g_cmdRegTbl (lines 812-830) as GdbRegHandlers (lines 832-846) installs *)
(* it: every other code below MAX_HANDLER_NUM gets GdbCmdNotSupport.       *)
CmdRegTbl ==
  ("m" :> "MemRead") @@ ("M" :> "MemWrite") @@ ("c" :> "Continue") @@
  ("s" :> "Step") @@ ("g" :> "ReadAllRegs") @@ ("G" :> "WriteAllRegs") @@
  ("p" :> "ReadReg") @@ ("P" :> "WriteReg") @@ ("z" :> "Break") @@
  ("Z" :> "Break") @@ ("?" :> "StopReply") @@ ("H" :> "ThreadSet") @@
  ("T" :> "ThreadAlive") @@ ("q" :> "Query") @@ ("R" :> "NoRsp") @@
  ("k" :> "Exit") @@ ("j" :> "Dfx")
Handler(ch) == IF ch \in DOMAIN CmdRegTbl THEN CmdRegTbl[ch] ELSE "NotSupport"

NoCore == -1
None == [k |-> "none", v |-> NoCore]
Rep(k) == [k |-> k, v |-> NoCore]
StopReply(c) == [k |-> "T", v |-> c]     \* "T05thread:cc;"

VARIABLES
  inited,        \* cores that ran OsGdbStubInit
  online,        \* g_onlineBitmap
  onlineCnt,     \* g_onlineCores
  firstCoreId,   \* g_firstCoreId
  ready,         \* the die notifier is registered: exceptions reach the stub
  state,         \* "idle" (no session), or the loop's RECEIVING / EXIT
  self,          \* the core running GdbSerialStub
  notFirstStart, \* g_notFirstStart
  coreId,        \* g_coreId
  prevCoreId,    \* g_prevCoreId
  thIdx,         \* g_thIdx
  reply,         \* the packet this step sent to the host
  exitDbg,       \* g_exitDbg
  ssFlg,         \* g_ssFlg
  ssCoreId,      \* g_ssCoreId
  access,        \* memory bytes the last m/M touched, with the attribute
  bkpt,          \* the address of the last Z that passed the validator
  sessions       \* sessions started

initVars == <<inited, online, onlineCnt, firstCoreId, ready>>
vars == <<inited, online, onlineCnt, firstCoreId, ready, state, self,
          notFirstStart, coreId, prevCoreId, thIdx, reply, exitDbg, ssFlg,
          ssCoreId, access, bkpt, sessions>>

NoAccess == [bytes |-> {}, attr |-> "none"]

Init ==
  /\ inited = {} /\ online = {} /\ onlineCnt = 0
  /\ firstCoreId = -1 /\ ready = FALSE
  /\ state = "idle" /\ self = NoCore /\ notFirstStart = FALSE
  /\ coreId = 0 /\ prevCoreId = 0 /\ thIdx = 0 /\ reply = None
  /\ exitDbg = FALSE /\ ssFlg = 0 /\ ssCoreId = NoCore
  /\ access = NoAccess /\ bkpt = NoCore /\ sessions = 0

(* OsGdbStubSmpInit (lines 1014-1026).                                    *)
SmpInit(c) ==
  /\ online' = online \cup {c}
  /\ onlineCnt' = onlineCnt + 1

(* OsGdbStubInit (lines 1087-1102) on core c.  A secondary runs           *)
(* OsGdbStubSmpInit at once.  The primary sets g_firstCoreId and runs      *)
(* OsGdbStubEarlyInit (lines 1071-1083) up to the registration of the die *)
(* notifier (line 1078), after which exceptions reach the stub; the ring  *)
(* buffer may fail before it (line 1075).  Its own OsGdbStubSmpInit (line *)
(* 1080) is the later step PrimarySmpInit.                                 *)
StubInit(c) ==
  /\ c \notin inited
  /\ inited' = inited \cup {c}
  /\ IF c = Primary
       THEN /\ firstCoreId' = Primary
            /\ ready' \in BOOLEAN      \* FALSE: OsGdbRingBufferInit fails
            /\ UNCHANGED <<online, onlineCnt>>
       ELSE SmpInit(c) /\ UNCHANGED <<firstCoreId, ready>>
  /\ UNCHANGED <<state, self, notFirstStart, coreId, prevCoreId, thIdx, reply,
                 exitDbg, ssFlg, ssCoreId, access, bkpt, sessions>>

(* OsGdbStubEarlyInit, line 1080: the primary comes online after its die   *)
(* notifier was registered (line 1078).                                    *)
PrimarySmpInit ==
  /\ Primary \in inited /\ ready /\ Primary \notin online
  /\ SmpInit(Primary)
  /\ UNCHANGED <<inited, firstCoreId, ready, state, self, notFirstStart,
                 coreId, prevCoreId, thIdx, reply, exitDbg, ssFlg, ssCoreId,
                 access, bkpt, sessions>>

(* An exception reaches GdbSerialStub (lines 848-858) on core c while no   *)
(* session runs: the notifier is registered, g_exitDbg is clear            *)
(* (GdbNotifyDie, lines 1057-1063; OsGdbCpuEnter, lines 924-931) and, while *)
(* a core single-steps, only that core may serve (lines 960-967).  A stop  *)
(* reply opens every session but the first; g_prevCoreId = g_coreId = the *)
(* serving core; g_ssFlg is cleared before the loop (line 994).           *)
Enter(c) ==
  /\ state = "idle" /\ ready /\ ~exitDbg
  /\ c \in online /\ ssCoreId \in {NoCore, c}
  /\ sessions < MaxSessions
  /\ state' = "RECEIVING"
  /\ reply' = IF notFirstStart THEN StopReply(c) ELSE None
  /\ notFirstStart' = TRUE
  /\ self' = c /\ coreId' = c /\ prevCoreId' = c
  /\ sessions' = sessions + 1
  /\ ssFlg' = 0
  /\ UNCHANGED <<initVars, thIdx, exitDbg, ssCoreId, access, bkpt>>

(* The loop ends: GdbSerialStub returns to the exception handler.          *)
Leave ==
  /\ state = "EXIT"
  /\ state' = "idle" /\ self' = NoCore /\ reply' = None
  /\ UNCHANGED <<initVars, notFirstStart, coreId, prevCoreId, thIdx, exitDbg,
                 ssFlg, ssCoreId, access, bkpt, sessions>>

(* The bytes addr .. addr + n - 1 that GdbRawMemRead/Write touch.          *)
Span(addr, n) == {(addr + i) % A : i \in 0 .. n - 1}

(* Frame of a handler that only replies.                                   *)
OnlyReply == UNCHANGED <<initVars, state, self, notFirstStart, coreId,
                         prevCoreId, thIdx, exitDbg, ssFlg, ssCoreId, access,
                         bkpt, sessions>>

(* 'm' (GdbCmdMemRead, lines 441-469, GdbRawMemRead lines 402-415): a      *)
(* missing ',' or a span the validator refuses, else read len bytes; a     *)
(* count of 0 (len <= 0) is an error.                                      *)
CmdMemRead(p) ==
  LET addr == ToAddr(p.a)
      len  == ToInt(p.b)
  IN /\ reply' = CASE ~p.sep                      -> Rep("E01")
                   [] ~AddrOK(addr, len, {"R"})   -> Rep("E14")
                   [] len <= 0                    -> Rep("E01")
                   [] OTHER                       -> Rep("data")
     /\ access' = IF p.sep /\ AddrOK(addr, len, {"R"}) /\ len > 0
                    THEN [bytes |-> Span(addr, len), attr |-> "R"] ELSE access
     /\ UNCHANGED <<initVars, state, self, notFirstStart, coreId, prevCoreId,
                    thIdx, exitDbg, ssFlg, ssCoreId, bkpt, sessions>>

(* 'M' (GdbCmdMemWrite, lines 475-497, GdbRawMemWrite lines 418-435): the  *)
(* bytes are stored one by one while the payload lasts; a short payload    *)
(* stops with -1 after the bytes already written.                          *)
CmdMemWrite(p) ==
  LET addr == ToAddr(p.a)
      len  == ToInt(p.b)
      n    == IF len <= 0 THEN 0 ELSE IF p.pay < len THEN p.pay ELSE len
      pass == p.sep /\ AddrOK(addr, len, {"W"})
  IN /\ reply' = CASE ~p.sep        -> Rep("E01")
                   [] ~pass         -> Rep("E14")
                   [] p.pay < len   -> Rep("E01")
                   [] OTHER         -> Rep("OK")
     /\ access' = IF pass /\ n > 0
                    THEN [bytes |-> Span(addr, n), attr |-> "W"] ELSE access
     /\ UNCHANGED <<initVars, state, self, notFirstStart, coreId, prevCoreId,
                    thIdx, exitDbg, ssFlg, ssCoreId, bkpt, sessions>>

(* 'Z'/'z' (GdbCmdBreak, lines 501-531, GdbAddBkpt/GdbRemoveBkpt lines     *)
(* 373-399): unsupported type, refused address, then the slot table        *)
(* (GdbBreakpoints) or the arch layer decides.                             *)
CmdBreak(p) ==
  LET type == ToU8(p.t)
      addr == ToAddr(p.a)
      pass == p.sep /\ type \in SupportedBkptTypes /\ ~InvalidBkptAddr(addr)
  IN /\ \/ ~p.sep /\ reply' = Rep("E01")
        \/ p.sep /\ type \notin SupportedBkptTypes /\ reply' = Rep("empty")
        \/ p.sep /\ type \in SupportedBkptTypes /\ InvalidBkptAddr(addr)
           /\ reply' = Rep("E22")
        \/ pass /\ type = BP_BREAKPOINT /\ reply' \in {Rep("OK"), Rep("E22")}
        \/ pass /\ type # BP_BREAKPOINT
           /\ reply' \in {Rep("OK"), Rep("E22"), Rep("empty")}
     /\ bkpt' = IF pass /\ p.ch = "Z" THEN addr ELSE bkpt
     /\ UNCHANGED <<initVars, state, self, notFirstStart, coreId, prevCoreId,
                    thIdx, exitDbg, ssFlg, ssCoreId, access, sessions>>

(* 'p', 'P' (GdbCmdReadReg, GdbCmdWriteReg, lines 536-565): the arch layer *)
(* reads or writes one register of g_coreId; a failure is an error reply.   *)
CmdRegs(p) ==
  /\ reply' \in {IF p.ch = "p" THEN Rep("regs") ELSE Rep("OK"), Rep("E01")}
  /\ OnlyReply

(* 'g', 'G' (GdbCmdReadAllRegs, GdbCmdWriteAllRegs, lines 735-755): the    *)
(* same for all registers.                                                 *)
CmdAllRegs(p) ==
  /\ reply' \in {IF p.ch = "g" THEN Rep("regs") ELSE Rep("OK"), Rep("E01")}
  /\ OnlyReply

(* '?' (GdbSendStopReply, lines 567-596): the stop reply of this core.     *)
CmdStopReply ==
  /\ reply' = StopReply(self)
  /\ OnlyReply

(* Mutant: the listing goes on past the online count.                      *)
CmdQueryNoBound(p) ==
  LET idx == IF p.sub = "fThreadInfo" THEN 0 ELSE thIdx
  IN \/ /\ p.sub \in {"fThreadInfo", "sThreadInfo"}
        /\ reply' = [k |-> "m", v |-> firstCoreId + idx]
        /\ thIdx' = idx + 1
        /\ UNCHANGED <<initVars, state, self, notFirstStart, coreId,
                       prevCoreId, exitDbg, ssFlg, ssCoreId, access, bkpt,
                       sessions>>
     \/ p.sub = "fOther" /\ reply' = None /\ OnlyReply
     \/ p.sub = "C" /\ reply' = [k |-> "QC", v |-> self] /\ OnlyReply
     \/ p.sub = "other" /\ reply' = Rep("empty") /\ OnlyReply

(* 'q' (GdbCmdQuery, lines 598-637): qfThreadInfo restarts the listing at  *)
(* g_firstCoreId; each call lists g_firstCoreId + g_thIdx while g_thIdx is *)
(* below the online count.  Any other q[fs]... sends nothing.              *)
CmdQuery(p) ==
  LET idx == IF p.sub = "fThreadInfo" THEN 0 ELSE thIdx
  IN \/ /\ p.sub \in {"fThreadInfo", "sThreadInfo"}
        /\ reply' = IF idx < onlineCnt THEN [k |-> "m", v |-> firstCoreId + idx]
                                       ELSE Rep("l")
        /\ thIdx' = IF idx < onlineCnt THEN idx + 1 ELSE idx
        /\ UNCHANGED <<initVars, state, self, notFirstStart, coreId,
                       prevCoreId, exitDbg, ssFlg, ssCoreId, access, bkpt,
                       sessions>>
     \/ p.sub = "fOther" /\ reply' = None /\ OnlyReply
     \/ p.sub = "C" /\ reply' = [k |-> "QC", v |-> self] /\ OnlyReply
     \/ p.sub = "other" /\ reply' = Rep("empty") /\ OnlyReply

(* Mutant: the id is range-checked but not looked up in the online mask.  *)
ThreadIdOKNoMask(id) == id >= firstCoreId /\ id <= MaxCoreNum

(* GdbCmdSetThread (lines 639-664): TRUE when it accepts id and sets       *)
(* g_coreId.                                                               *)
ThreadIdOK(id) ==
  /\ id >= firstCoreId /\ id <= MaxCoreNum
  /\ ToU8(id) \in online                      \* OsCpuOnlineCheckMask

(* 'H' (GdbCmdThreadSet, lines 757-770).                                   *)
CmdThreadSet(p) ==
  LET id == ToInt(p.a) IN
  \/ p.sub = "s" /\ reply' = Rep("empty") /\ OnlyReply
  \/ /\ p.sub # "s"
     /\ IF p.sub \in {"g", "c"} /\ (id = -1 \/ ThreadIdOK(id))
          THEN /\ coreId' = IF id = -1 THEN firstCoreId ELSE id
               /\ reply' = Rep("OK")
          ELSE /\ reply' = Rep("E22")
               /\ UNCHANGED coreId
     /\ UNCHANGED <<initVars, state, self, notFirstStart, prevCoreId, thIdx,
                    exitDbg, ssFlg, ssCoreId, access, bkpt, sessions>>

(* 'T' (GdbCmdThreadAlive, lines 666-683).                                 *)
CmdThreadAlive(p) ==
  /\ reply' = IF ThreadIdOK(ToInt(p.a)) THEN Rep("OK") ELSE Rep("E22")
  /\ OnlyReply

(* 'c' (GdbCmdContinue, lines 688-709): on success the single-step marks   *)
(* are cleared, "OK" is sent and the loop ends.                            *)
CmdContinue ==
  \/ /\ reply' = Rep("E22")                   \* OsGdbArchContinue fails
     /\ OnlyReply
  \/ /\ ssFlg' = 0 /\ ssCoreId' = NoCore
     /\ reply' = Rep("OK") /\ state' = "EXIT"
     /\ UNCHANGED <<initVars, self, notFirstStart, coreId, prevCoreId, thIdx,
                    exitDbg, access, bkpt, sessions>>

(* Mutant: 's' on another core leaves g_ssFlg set.                         *)
CmdStepKeepFlag ==
  \/ reply' = None /\ OnlyReply
  \/ /\ ssFlg' = 1 /\ ssCoreId' = coreId
     /\ reply' = None /\ state' = "EXIT"
     /\ UNCHANGED <<initVars, self, notFirstStart, coreId, prevCoreId, thIdx,
                    exitDbg, access, bkpt, sessions>>

(* 's' (GdbCmdStep, lines 714-734): a failing OsGdbArchStep returns 0 with *)
(* no reply; otherwise g_coreId steps, g_ssFlg stays set only when it is   *)
(* the serving core, and the loop ends without a reply.                    *)
CmdStep ==
  \/ reply' = None /\ OnlyReply
  \/ /\ ssFlg' = IF prevCoreId # coreId THEN 0 ELSE 1
     /\ ssCoreId' = coreId
     /\ reply' = None /\ state' = "EXIT"
     /\ UNCHANGED <<initVars, self, notFirstStart, coreId, prevCoreId, thIdx,
                    exitDbg, access, bkpt, sessions>>

(* 'k' (GdbCmdExit, lines 771-782): breakpoints reset (GdbBreakpoints),    *)
(* g_coreId continued, the loop ends and g_exitDbg is set for good.        *)
CmdExit ==
  /\ state' = "EXIT" /\ exitDbg' = TRUE /\ reply' = None
  /\ UNCHANGED <<initVars, self, notFirstStart, coreId, prevCoreId, thIdx,
                 ssFlg, ssCoreId, access, bkpt, sessions>>

(* g_gdbCmdHandlers[ch] (line 878) and the handlers of the table; 'j'      *)
(* (GdbCmdDfx) answers "OK", 'R' (GdbCmdNoRsp) nothing, every other code   *)
(* GdbCmdNotSupport (lines 783-806) the empty packet.                      *)
Dispatch(p) ==
  LET h == Handler(p.ch) IN
  \/ h = "MemRead"     /\ CmdMemRead(p)
  \/ h = "MemWrite"    /\ CmdMemWrite(p)
  \/ h = "Break"       /\ CmdBreak(p)
  \/ h \in {"ReadReg", "WriteReg"}         /\ CmdRegs(p)
  \/ h \in {"ReadAllRegs", "WriteAllRegs"} /\ CmdAllRegs(p)
  \/ h = "StopReply"   /\ CmdStopReply
  \/ h = "Query"       /\ CmdQuery(p)
  \/ h = "ThreadSet"   /\ CmdThreadSet(p)
  \/ h = "ThreadAlive" /\ CmdThreadAlive(p)
  \/ h = "Continue"    /\ CmdContinue
  \/ h = "Step"        /\ CmdStep
  \/ h = "Exit"        /\ CmdExit
  \/ h = "Dfx"         /\ reply' = Rep("OK") /\ OnlyReply
  \/ h = "NoRsp"       /\ reply' = None /\ OnlyReply
  \/ h = "NotSupport"  /\ reply' = Rep("empty") /\ OnlyReply

(* One turn of the GdbSerialStub loop (lines 859-891): a checksum or size  *)
(* error from OsGdbGetPacket is answered E01, an empty packet skipped,     *)
(* anything else dispatched on its first byte.                             *)
Receive(p) ==
  /\ state = "RECEIVING"
  /\ \/ p.ch = "chk" /\ reply' = Rep("E01") /\ OnlyReply
     \/ p.ch = ""    /\ reply' = None /\ OnlyReply
     \/ p.ch \notin {"chk", ""} /\ Dispatch(p)

Next ==
  \/ \E c \in Core : StubInit(c) \/ Enter(c)
  \/ PrimarySmpInit
  \/ \E p \in Packets : Receive(p)
  \/ Leave

Spec == Init /\ [][Next]_vars

-----------------------------------------------------------------------------
(* Every variable holds a value of its kind; the thread listing index      *)
(* never passes the number of cores (GdbCmdQuery).                         *)
TypeOK ==
  /\ inited \subseteq Core /\ online \subseteq inited
  /\ onlineCnt = Cardinality(online)
  /\ firstCoreId \in Core \cup {-1} /\ ready \in BOOLEAN
  /\ state \in {"idle", "RECEIVING", "EXIT"} /\ self \in Core \cup {NoCore}
  /\ notFirstStart \in BOOLEAN /\ exitDbg \in BOOLEAN
  /\ thIdx \in 0 .. Cardinality(Core)
  /\ ssFlg \in {0, 1} /\ ssCoreId \in Int
  /\ sessions \in 0 .. MaxSessions

(* While a session runs, the core selected by 'H' (g_coreId) and the core  *)
(* that entered it (g_prevCoreId) are online: the 'c', 's' and register    *)
(* commands act on them, across the interleaving of stub initialisation on *)
(* the cores and any sequence of H packets.  Spec 4.3 step 6: every core   *)
(* the host works on is parked, which takes being online.                  *)
SelectedOnline ==
  state # "idle" => {coreId, prevCoreId} \subseteq online

(* What GdbCmdSetThread guarantees of its own: while a session runs, the   *)
(* core that entered it is online, and the core 'H' selected is online     *)
(* unless it is g_firstCoreId, which 'H -1' selects without the online     *)
(* check (line 651); every other id must pass OsCpuOnlineCheckMask through *)
(* its U8 argument, whatever the interleaving of stub initialisation.      *)
SelectedCoreKnown ==
  state # "idle" =>
     /\ prevCoreId \in online
     /\ coreId \in online \/ coreId = firstCoreId

(* A command that ends the session with g_ssFlg set leaves the serving    *)
(* core single-stepping, so that core re-enters as master; when 'H' chose  *)
(* another core, GdbCmdStep must clear g_ssFlg again.                      *)
SsFlgOwnStep ==
  [][state = "RECEIVING" /\ state' = "EXIT" /\ ssFlg' = 1 => ssCoreId' = self]_vars

(* The validator honours the regions (spec 4.1 and 8): every byte an 'm'  *)
(* or 'M' touched lies in one region that grants the access, and no Z      *)
(* passed with an address of the stub's own code or data.  Both verdicts   *)
(* come from GdbAddrCheck's test addr + len < end (line 230).              *)
ValidatorSound ==
  /\ access.bytes # {} =>
       \E i \in 1 .. 3 :
          /\ access.attr \in Regions[i].attrs
          /\ access.bytes \subseteq Regions[i].start .. Regions[i].end - 1
  /\ bkpt # NoCore =>
       bkpt \notin (TextStart .. TextEnd - 1) \cup (DataStart .. DataEnd - 1)

(* What the host touches is what it may touch: the bytes of an 'm' or 'M' *)
(* and the breakpoints of a Z pass the regions (ValidatorSound), and the   *)
(* register and resume commands act on online cores (SelectedOnline).      *)
HostAccessSafe == ValidatorSound /\ SelectedOnline
=============================================================================
