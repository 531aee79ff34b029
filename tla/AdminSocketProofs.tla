-------------------------- MODULE AdminSocketProofs --------------------------
(***************************************************************************)
(* Theorems about AdminSocket, for any number of processes and commands    *)
(* and any configuration files.                                            *)
(***************************************************************************)
EXTENDS AdminSocket, TLAPS

-----------------------------------------------------------------------------
(* The processes and their types.                                          *)

ProcType ==
    /\ proc \in [Procs -> Proc]
    /\ \A p \in Procs : proc[p].bound # {} => Up(p)
    /\ \A p, q \in Procs : p # q => PortsOf(p) \cap PortsOf(q) = {}

SockType == sock \in [Sockets -> Procs \cup {NoProc, Dead}]

CmdType == cmd \in [Cmds -> Cmd]

LEMMA TypeParts == TypeOK <=> SockType /\ ProcType /\ CmdType
  BY DEF TypeOK, SockType, ProcType, CmdType

\* One process has changed.
LEMMA UpdateProc ==
    ASSUME ProcType, NEW p \in Procs, NEW n \in Proc, proc' = [proc EXCEPT ![p] = n],
           n.bound # {} => n.state = "up",
           \A q \in Procs \ {p} : {n.config[role] : role \in n.bound} \cap PortsOf(q) = {}
    PROVE  ProcType'
<1>1. /\ proc' \in [Procs -> Proc] /\ proc'[p] = n
      /\ \A q \in Procs \ {p} : proc'[q] = proc[q]
  BY DEF ProcType
<1>2. \A q \in Procs : proc'[q].bound # {} => Up(q)'
  BY <1>1 DEF ProcType, Up
<1>3. \A q \in Procs : PortsOf(q)' = IF q = p THEN {n.config[role] : role \in n.bound}
                                               ELSE PortsOf(q)
  BY <1>1 DEF PortsOf
<1>4. \A q, x \in Procs : q # x => PortsOf(q)' \cap PortsOf(x)' = {}
  BY <1>3 DEF ProcType
<1>5. QED
  BY <1>1, <1>2, <1>4 DEF ProcType

LEMMA OffType == Off \in Proc /\ Off.bound = {} /\ Off.state = "off"
  BY DEF Off, Proc

\* What is left of a process that has failed.
Remains(p) == [Off EXCEPT !.state = "failed", !.alone = proc[p].alone,
                          !.config = proc[p].config]

LEMMA RemainsType ==
    ASSUME ProcType, NEW p \in Procs
    PROVE  /\ Remains(p) \in Proc /\ Remains(p).bound = {} /\ Remains(p).state = "failed"
           /\ Remains(p).alone = proc[p].alone /\ Remains(p).config = proc[p].config
  BY DEF Remains, Off, Proc, ProcType

LEMMA EndType ==
    ASSUME TypeOK, NEW p \in Procs, NEW n \in Proc, n.bound = {}, End(p, n)
    PROVE  TypeOK'
<1>1. ProcType'
  BY TypeParts, UpdateProc DEF End
<1>2. SockType'
  BY DEF TypeOK, SockType, End
<1>3. CmdType'
  <2>1. \A c \in Cmds : [cmd[c] EXCEPT !.server = Dead] \in Cmd
    BY DEF TypeOK, Cmd
  <2>2. QED
    BY <2>1 DEF TypeOK, CmdType, End
<1>4. QED
  BY <1>1, <1>2, <1>3 DEF TypeOK, SockType, ProcType, CmdType

\* What Start does to the processes, in its parts.
LEMMA StartEffect ==
    ASSUME TypeOK, NEW p \in Procs, NEW file \in Files, Start(p, file)
    PROVE  /\ ~Up(p) /\ proc' \in [Procs -> Proc]
           /\ proc'[p].state = IF Usable(ConfigOf(file)) THEN "up" ELSE "failed"
           /\ proc'[p].config = ConfigOf(file)
           /\ proc'[p].bound = {} /\ proc'[p].socket = "todo"
           /\ proc'[p].alone <=> \A q \in Procs : Up(q) => q = p
           /\ \A q \in Procs \ {p} :
                 /\ proc'[q].state = proc[q].state /\ proc'[q].config = proc[q].config
                 /\ proc'[q].bound = proc[q].bound /\ proc'[q].socket = proc[q].socket
                 /\ proc'[q].alone => proc[q].alone /\ ~Up(q)
<1> DEFINE others == {q \in Procs \ {p} : Up(q)}
           lone == others = {}
           state == IF Usable(ConfigOf(file)) THEN "up" ELSE "failed"
           new == [state |-> state, alone |-> lone, config |-> ConfigOf(file),
                   bound |-> {}, socket |-> "todo"]
           kept(q) == proc[q].alone /\ q \notin others
           rest(q) == [proc[q] EXCEPT !.alone = kept(q)]
<1>1. proc' = [q \in Procs |-> IF q = p THEN new ELSE rest(q)]
  BY DEF Start
<1>2. lone \in BOOLEAN /\ (lone <=> \A q \in Procs : Up(q) => q = p)
  BY DEF Start
<1>3. \A q \in Procs : kept(q) \in BOOLEAN /\ (kept(q) => proc[q].alone /\ (q # p => ~Up(q)))
  OBVIOUS
<1>4. state \in {"up", "failed"}
  OBVIOUS
<1> HIDE DEF lone, kept, state
<1>5. new \in Proc
  BY <1>2, <1>4 DEF Proc
<1>6. \A q \in Procs : rest(q) \in Proc
  BY <1>3 DEF TypeOK, Proc
<1>7. \A q \in Procs :
         /\ rest(q).state = proc[q].state /\ rest(q).config = proc[q].config
         /\ rest(q).bound = proc[q].bound /\ rest(q).socket = proc[q].socket
         /\ rest(q).alone = kept(q)
  BY DEF TypeOK, Proc
<1>8. /\ new.state = state /\ new.config = ConfigOf(file) /\ new.bound = {}
      /\ new.socket = "todo" /\ new.alone = lone
  OBVIOUS
<1> HIDE DEF new, rest
<1>9. proc'[p] = new /\ \A q \in Procs \ {p} : proc'[q] = rest(q)
  BY <1>1
<1>10. proc' \in [Procs -> Proc]
  BY <1>1, <1>5, <1>6
<1>11. \A q \in Procs \ {p} : proc'[q].alone => proc[q].alone /\ ~Up(q)
  BY <1>3, <1>7, <1>9
<1>12. /\ proc'[p].state = state /\ proc'[p].config = ConfigOf(file)
       /\ proc'[p].bound = {} /\ proc'[p].socket = "todo" /\ proc'[p].alone = lone
  BY <1>8, <1>9
<1>13. proc'[p].alone <=> \A q \in Procs : Up(q) => q = p
  BY <1>2, <1>12
<1>14. \A q \in Procs \ {p} :
         /\ proc'[q].state = proc[q].state /\ proc'[q].config = proc[q].config
         /\ proc'[q].bound = proc[q].bound /\ proc'[q].socket = proc[q].socket
  BY <1>7, <1>9
<1>15. ~Up(p)
  BY DEF Start
<1>16. proc'[p].state = IF Usable(ConfigOf(file)) THEN "up" ELSE "failed"
  BY <1>12 DEF state
<1> HIDE DEF others
<1>17. QED
  BY <1>10, <1>11, <1>12, <1>13, <1>14, <1>15, <1>16

LEMMA StartType ==
    ASSUME TypeOK, NEW p \in Procs, NEW file \in Files, Start(p, file)
    PROVE  TypeOK'
<1>1. ~Up(p) /\ proc' \in [Procs -> Proc] /\ proc'[p].bound = {}
  BY StartEffect
<1>2. \A q \in Procs : /\ q # p => PortsOf(q)' = PortsOf(q)
                       /\ q = p => PortsOf(q)' = {}
  BY <1>1, StartEffect DEF PortsOf
<1>3. \A q \in Procs : proc'[q].bound # {} => Up(q)'
  BY <1>1, StartEffect DEF TypeOK, Up
<1>4. \A q, x \in Procs : q # x => PortsOf(q)' \cap PortsOf(x)' = {}
  BY <1>2 DEF TypeOK
<1>5. SockType' /\ CmdType'
  BY DEF Start, TypeOK, SockType, CmdType
<1>6. QED
  BY <1>1, <1>3, <1>4, <1>5 DEF TypeOK, SockType, CmdType

\* A port that is not taken is bound.
LEMMA BoundType ==
    ASSUME TypeOK, NEW p \in Procs, NEW role \in Roles, Up(p),
           ~PortTaken(proc[p].config[role]),
           proc' = [proc EXCEPT ![p].bound = @ \cup {role}]
    PROVE  ProcType'
<1> DEFINE n == [proc[p] EXCEPT !.bound = proc[p].bound \cup {role}]
<1>1. ProcType
  BY DEF TypeOK, ProcType
<1>2. proc[p].bound \cup {role} \in SUBSET Roles
  BY <1>1 DEF ProcType, Proc
<1>3. /\ n \in Proc /\ n.bound = proc[p].bound \cup {role}
      /\ n.state = proc[p].state /\ n.config = proc[p].config
  BY <1>1, <1>2 DEF Proc, ProcType
<1>4. proc' = [proc EXCEPT ![p] = n]
  OBVIOUS
<1> HIDE DEF n
<1>5. ASSUME NEW q \in Procs \ {p}
      PROVE  {n.config[r] : r \in n.bound} \cap PortsOf(q) = {}
  <2>1. PortsOf(p) \cap PortsOf(q) = {} /\ proc[p].config[role] \notin PortsOf(q)
    BY <1>5, <1>1 DEF ProcType, PortTaken
  <2>2. {n.config[r] : r \in n.bound} = PortsOf(p) \cup {proc[p].config[role]}
    BY <1>3 DEF PortsOf
  <2>3. QED
    BY <2>1, <2>2
<1>6. QED
  BY <1>1, <1>3, <1>4, <1>5, UpdateProc DEF Up

LEMMA SocketStepType ==
    ASSUME TypeOK, NEW p \in Procs, NEW s \in {"todo", "exists", "absent", "listening"},
           proc' = [proc EXCEPT ![p].socket = s]
    PROVE  ProcType'
<1> DEFINE n == [proc[p] EXCEPT !.socket = s]
<1>1. ProcType
  BY DEF TypeOK, ProcType
<1>2. /\ n \in Proc /\ n.bound = proc[p].bound /\ n.state = proc[p].state
      /\ n.config = proc[p].config
  BY <1>1 DEF Proc, ProcType
<1>3. proc' = [proc EXCEPT ![p] = n]
  OBVIOUS
<1> HIDE DEF n
<1>4. \A q \in Procs \ {p} : {n.config[r] : r \in n.bound} \cap PortsOf(q) = {}
  BY <1>1, <1>2 DEF ProcType, PortsOf
<1>5. n.bound # {} => n.state = "up"
  BY <1>1, <1>2 DEF ProcType, Up
<1>6. QED
  BY <1>1, <1>2, <1>3, <1>4, <1>5, UpdateProc

LEMMA FailType ==
    ASSUME TypeOK, NEW p \in Procs, Fail(p)
    PROVE  TypeOK'
<1>1. End(p, Remains(p))
  BY DEF Fail, Remains
<1>2. QED
  BY <1>1, RemainsType, EndType, TypeParts

LEMMA ServerStepType ==
    ASSUME TypeOK, NEW p \in Procs, ServerStep(p)
    PROVE  TypeOK'
<1>1. CASE Fail(p)
  BY <1>1, FailType
<1>2. ASSUME NEW role \in Roles, BindPort(p, role), ~Fail(p)
      PROVE  TypeOK'
  <2>1. /\ Up(p) /\ ~PortTaken(proc[p].config[role])
        /\ proc' = [proc EXCEPT ![p].bound = @ \cup {role}]
        /\ UNCHANGED <<sock, cmd>>
    BY <1>2 DEF BindPort, MayBind
  <2>2. ProcType'
    BY <2>1, BoundType
  <2>3. QED
    BY <2>1, <2>2 DEF TypeOK, ProcType
<1>3. CASE CheckSocket(p)
  <2>1. /\ Found(p) \in {"todo", "exists", "absent", "listening"}
        /\ proc' = [proc EXCEPT ![p].socket = Found(p)] /\ UNCHANGED <<sock, cmd>>
    BY <1>3 DEF Found, CheckSocket
  <2>2. ProcType'
    BY <2>1, SocketStepType
  <2>3. QED
    BY <2>1, <2>2 DEF TypeOK, ProcType
<1>4. CASE RemoveSocket(p) /\ ~Fail(p)
  <2>1. ProcType' /\ CmdType'
    BY <1>4, SocketStepType, TypeParts DEF RemoveSocket, CmdType
  <2>2. SockType'
    BY <1>4 DEF RemoveSocket, TypeOK, SockType
  <2>3. QED
    BY <2>1, <2>2 DEF TypeOK, ProcType, SockType, CmdType
<1>5. CASE BindSocket(p) /\ ~Fail(p)
  <2>1. ProcType' /\ CmdType'
    BY <1>5, SocketStepType, TypeParts DEF BindSocket, CmdType
  <2>2. SockType'
    BY <1>5 DEF BindSocket, TypeOK, SockType
  <2>3. QED
    BY <2>1, <2>2 DEF TypeOK, ProcType, SockType, CmdType
<1>6. QED
  BY <1>1, <1>2, <1>3, <1>4, <1>5 DEF ServerStep

-----------------------------------------------------------------------------
(* The commands: their types, and what count, conn and result say of each  *)
(* other.                                                                  *)

CommandAt(c) ==
    /\ cmd[c].pc = "start" => cmd[c].conn = "none"
    /\ cmd[c].pc = "connected" => cmd[c].conn = "open"
    /\ cmd[c].conn \in {"none", "open", "request", "closed"} => cmd[c].count = 0
    /\ cmd[c].conn \in {"processed", "replied"} => cmd[c].count = 1
    /\ cmd[c].result = "printed" => cmd[c].conn = "replied"
    /\ cmd[c].result # "silent"

CommandInv == \A c \in Cmds : CommandAt(c)

\* One command has changed.
LEMMA UpdateCmd ==
    ASSUME CmdType, NEW c \in Cmds, NEW n \in Cmd, cmd' = [cmd EXCEPT ![c] = n]
    PROVE  CmdType' /\ cmd'[c] = n /\ \A x \in Cmds \ {c} : cmd'[x] = cmd[x]
  BY DEF CmdType

LEMMA OtherCommands ==
    ASSUME CommandInv, NEW c \in Cmds, CommandAt(c)',
           \A x \in Cmds \ {c} : cmd'[x] = cmd[x]
    PROVE  CommandInv'
  BY DEF CommandInv, CommandAt

\* main prints the kind of answer that the server gives to each command's request.
LEMMA AnswerExpected ==
    ASSUME NEW c \in Cmds
    PROVE  ResponseTo(RequestOf(Args[c].target)) = Expected(Args[c].target)
<1>1. Args[c].target \in {"path", "prefix", "all", "none", "stats"}
  BY SocketAssumption DEF Arg
<1>2. QED
  BY <1>1 DEF ResponseTo, RequestOf, Expected

LEMMA ConnectionStepInv ==
    ASSUME CmdType, CommandInv, NEW c \in Cmds, ConnectionStep(c)
    PROVE  CmdType' /\ CommandInv'
<1> USE DEF CommandInv, CommandAt
<1>0. cmd[c] \in Cmd
  BY DEF CmdType
<1>1. CASE Process(c)
  <2> DEFINE n == [cmd[c] EXCEPT !.conn = "processed", !.count = 1]
  <2>1. cmd' = [cmd EXCEPT ![c] = n]
    <3>1. cmd[c].count + 1 = 1
      BY <1>1 DEF Process
    <3>2. QED
      BY <3>1, <1>1 DEF Process
  <2>2. /\ n \in Cmd /\ n.pc = cmd[c].pc /\ n.result = cmd[c].result
        /\ n.conn = "processed" /\ n.count = 1
    BY <1>0 DEF Cmd
  <2> HIDE DEF n
  <2>3. CmdType' /\ cmd'[c] = n /\ \A x \in Cmds \ {c} : cmd'[x] = cmd[x]
    BY <2>1, <2>2, UpdateCmd
  <2>4. CommandAt(c)'
    BY <1>1, <2>2, <2>3 DEF Process
  <2>5. QED
    BY <2>3, <2>4, OtherCommands
<1>2. CASE SendResponse(c)
  <2> DEFINE n == [cmd[c] EXCEPT !.conn = "replied"]
  <2>1. cmd' = [cmd EXCEPT ![c] = n]
    BY <1>2 DEF SendResponse
  <2>2. /\ n \in Cmd /\ n.pc = cmd[c].pc /\ n.result = cmd[c].result
        /\ n.conn = "replied" /\ n.count = cmd[c].count
    BY <1>0 DEF Cmd
  <2> HIDE DEF n
  <2>3. CmdType' /\ cmd'[c] = n /\ \A x \in Cmds \ {c} : cmd'[x] = cmd[x]
    BY <2>1, <2>2, UpdateCmd
  <2>4. CommandAt(c)'
    BY <1>2, <2>2, <2>3 DEF SendResponse
  <2>5. QED
    BY <2>3, <2>4, OtherCommands
<1>3. CASE RejectLine(c)
  <2> DEFINE n == [cmd[c] EXCEPT !.conn = "closed"]
  <2>1. cmd' = [cmd EXCEPT ![c] = n]
    BY <1>3 DEF RejectLine
  <2>2. /\ n \in Cmd /\ n.pc = cmd[c].pc /\ n.result = cmd[c].result
        /\ n.conn = "closed" /\ n.count = cmd[c].count
    BY <1>0 DEF Cmd
  <2> HIDE DEF n
  <2>3. CmdType' /\ cmd'[c] = n /\ \A x \in Cmds \ {c} : cmd'[x] = cmd[x]
    BY <2>1, <2>2, UpdateCmd
  <2>4. CommandAt(c)'
    BY <1>3, <2>2, <2>3 DEF RejectLine
  <2>5. QED
    BY <2>3, <2>4, OtherCommands
<1>4. QED
  BY <1>1, <1>2, <1>3 DEF ConnectionStep

\* A command ends; only one whose answer has come has printed it.
LEMMA EndWithInv ==
    ASSUME CmdType, CommandInv, NEW c \in Cmds, NEW r \in {"none", "printed", "error"},
           r = "printed" => cmd[c].conn = "replied", EndWith(c, r)
    PROVE  CmdType' /\ CommandInv'
<1> DEFINE n == [cmd[c] EXCEPT !.pc = "done", !.result = r]
<1>1. cmd' = [cmd EXCEPT ![c] = n]
  BY DEF EndWith
<1>2. /\ n \in Cmd /\ n.pc = "done" /\ n.result = r
      /\ n.conn = cmd[c].conn /\ n.count = cmd[c].count
  BY DEF CmdType, Cmd
<1> HIDE DEF n
<1>3. CmdType' /\ cmd'[c] = n /\ \A x \in Cmds \ {c} : cmd'[x] = cmd[x]
  BY <1>1, <1>2, UpdateCmd
<1>4. CommandAt(c)'
  BY <1>2, <1>3 DEF CommandInv, CommandAt
<1>5. QED
  BY <1>3, <1>4, OtherCommands

LEMMA CommandStepInv ==
    ASSUME CmdType, CommandInv, NEW c \in Cmds, CommandStep(c) \/ Interrupt(c)
    PROVE  CmdType' /\ CommandInv'
<1>0. cmd[c] \in Cmd
  BY DEF CmdType
<1>1. CASE \E r \in {"none", "error"} : EndWith(c, r)
  BY <1>1, EndWithInv
<1>2. ASSUME NEW server \in Procs, cmd[c].pc = "start",
             cmd' = [cmd EXCEPT ![c].pc = "connected", ![c].server = server,
                                ![c].conn = "open"]
      PROVE  CmdType' /\ CommandInv'
  <2> DEFINE n == [cmd[c] EXCEPT !.pc = "connected", !.server = server, !.conn = "open"]
  <2>1. cmd' = [cmd EXCEPT ![c] = n]
    BY <1>2
  <2>2. /\ n \in Cmd /\ n.pc = "connected" /\ n.result = cmd[c].result
        /\ n.conn = "open" /\ n.count = cmd[c].count
    BY <1>0 DEF Cmd
  <2> HIDE DEF n
  <2>3. CmdType' /\ cmd'[c] = n /\ \A x \in Cmds \ {c} : cmd'[x] = cmd[x]
    BY <2>1, <2>2, UpdateCmd
  <2>4. CommandAt(c)'
    BY <1>2, <2>2, <2>3 DEF CommandInv, CommandAt
  <2>5. QED
    BY <2>3, <2>4, OtherCommands
<1>3. ASSUME cmd[c].pc = "connected",
             cmd' = [cmd EXCEPT ![c].pc = "sent", ![c].conn = "request"]
      PROVE  CmdType' /\ CommandInv'
  <2> DEFINE n == [cmd[c] EXCEPT !.pc = "sent", !.conn = "request"]
  <2>1. cmd' = [cmd EXCEPT ![c] = n]
    BY <1>3
  <2>2. /\ n \in Cmd /\ n.pc = "sent" /\ n.result = cmd[c].result
        /\ n.conn = "request" /\ n.count = cmd[c].count
    BY <1>0 DEF Cmd
  <2> HIDE DEF n
  <2>3. CmdType' /\ cmd'[c] = n /\ \A x \in Cmds \ {c} : cmd'[x] = cmd[x]
    BY <2>1, <2>2, UpdateCmd
  <2>4. CommandAt(c)'
    BY <1>3, <2>2, <2>3 DEF CommandInv, CommandAt
  <2>5. QED
    BY <2>3, <2>4, OtherCommands
<1>4. CASE Connect(c)
  BY <1>1, <1>2, <1>4 DEF Connect
<1>5. CASE SendRequest(c)
  BY <1>1, <1>3, <1>5 DEF SendRequest
<1>6. CASE ReadResponse(c)
  <2>1. CASE cmd[c].conn = "replied" /\ EndWith(c, "printed")
    BY <2>1, EndWithInv
  <2>2. QED
    BY <1>1, <1>6, <2>1, AnswerExpected DEF ReadResponse, EmptyLine
<1>7. CASE Interrupt(c)
  BY <1>1, <1>7 DEF Interrupt
<1>8. QED
  BY <1>4, <1>5, <1>6, <1>7 DEF CommandStep

\* The end of a server takes only its side of the connections away.
LEMMA EndCommands ==
    ASSUME CmdType, CommandInv, NEW p \in Procs, NEW n, End(p, n)
    PROVE  CommandInv'
<1>1. \A c \in Cmds :
         LET k == [cmd[c] EXCEPT !.server = Dead]
         IN /\ k.pc = cmd[c].pc /\ k.conn = cmd[c].conn
            /\ k.result = cmd[c].result /\ k.count = cmd[c].count
  BY DEF CmdType, Cmd
<1>2. \A c \in Cmds : /\ cmd'[c].pc = cmd[c].pc /\ cmd'[c].conn = cmd[c].conn
                      /\ cmd'[c].result = cmd[c].result /\ cmd'[c].count = cmd[c].count
  BY <1>1 DEF End
<1>3. QED
  BY <1>2 DEF CommandInv, CommandAt

-----------------------------------------------------------------------------
(* The servers that have been alone since they were started.               *)

\* A process that has been started runs with the configuration of some file.
ConfigInv ==
    \A p \in Procs : proc[p].state # "off" => proc[p].config \in {ConfigOf(f) : f \in Files}

\* What a server that nobody interferes with has seen of the socket file is true.
SeesSocket(p) ==
    /\ proc[p].socket = "exists" => sock[SocketOf(p)] # NoProc
    /\ proc[p].socket = "absent" => sock[SocketOf(p)] = NoProc
    /\ proc[p].socket = "listening" => sock[SocketOf(p)] = p

\* Nobody interferes with a server that has been alone: no other one is up.
AloneInv ==
    \A p \in Procs : Up(p) /\ proc[p].alone =>
        /\ \A q \in Procs : Up(q) => q = p
        /\ SeesSocket(p)

\* The reasons for which a server fails that has been alone.
OwnFault(p) ==
    \/ ~Usable(proc[p].config) \/ proc[p].config.tls = "unreadable"
    \/ proc[p].config.port = proc[p].config.admin_port

ServerInv == ConfigInv /\ AloneInv /\ RestartSucceeds

\* A process that is up has changed or ended.
LEMMA OtherServers ==
    ASSUME ServerInv, NEW p \in Procs, Up(p),
           \A q \in Procs \ {p} : proc'[q] = proc[q],
           proc'[p].alone => proc[p].alone, proc'[p].state # "off" => proc'[p].config = proc[p].config,
           Up(p)' /\ proc'[p].alone => SeesSocket(p)',
           proc'[p].state = "failed" /\ proc'[p].alone => OwnFault(p)
    PROVE  ServerInv'
<1>1. ConfigInv'
  BY DEF ServerInv, ConfigInv, Up
<1>2. AloneInv'
  BY DEF ServerInv, AloneInv, Up
<1>3. RestartSucceeds'
  BY DEF ServerInv, RestartSucceeds, OwnFault
<1>4. QED
  BY <1>1, <1>2, <1>3 DEF ServerInv

LEMMA StartInv ==
    ASSUME TypeOK, ServerInv, NEW p \in Procs, NEW file \in Files, Start(p, file)
    PROVE  ServerInv'
<1>1. /\ ~Up(p)
      /\ proc'[p].state = IF Usable(ConfigOf(file)) THEN "up" ELSE "failed"
      /\ proc'[p].config = ConfigOf(file) /\ proc'[p].socket = "todo"
      /\ proc'[p].alone <=> \A q \in Procs : Up(q) => q = p
      /\ \A q \in Procs \ {p} :
            /\ proc'[q].state = proc[q].state /\ proc'[q].config = proc[q].config
            /\ proc'[q].alone => proc[q].alone /\ ~Up(q)
  BY StartEffect
<1>2. ConfigInv'
  BY <1>1 DEF ServerInv, ConfigInv
<1>3. AloneInv'
  BY <1>1 DEF AloneInv, SeesSocket, Up
<1>4. RestartSucceeds'
  BY <1>1 DEF ServerInv, RestartSucceeds
<1>5. QED
  BY <1>2, <1>3, <1>4 DEF ServerInv

\* A server that has been alone fails for a fault of its own only.
LEMMA FailInv ==
    ASSUME TypeOK, ServerInv, NEW p \in Procs, Up(p), Fail(p),
           proc[p].alone => OwnFault(p)
    PROVE  ServerInv'
<1>1. proc' = [proc EXCEPT ![p] = Remains(p)]
  BY DEF Fail, End, Remains
<1>2. /\ Remains(p).state = "failed" /\ Remains(p).alone = proc[p].alone
      /\ Remains(p).config = proc[p].config
  BY RemainsType, TypeParts
<1>3. proc'[p] = Remains(p) /\ \A q \in Procs \ {p} : proc'[q] = proc[q]
  BY <1>1 DEF TypeOK
<1>4. QED
  BY <1>2, <1>3, OtherServers DEF Up

\* A port that is taken while a server is alone is taken by its own other server.
LEMMA PortOfOneself ==
    ASSUME TypeOK, ServerInv, NEW p \in Procs, NEW role \in Roles, MayBind(p, role),
           proc[p].alone, PortTaken(proc[p].config[role])
    PROVE  proc[p].config.port = proc[p].config.admin_port
<1>1. PICK q \in Procs : proc[p].config[role] \in PortsOf(q)
  BY DEF PortTaken
<1>2. Up(q)
  BY <1>1 DEF TypeOK, PortsOf
<1>3. q = p
  BY <1>2 DEF ServerInv, AloneInv, MayBind
<1>4. PICK other \in proc[p].bound : proc[p].config[role] = proc[p].config[other]
  BY <1>1, <1>3 DEF PortsOf
<1>5. other \in Roles /\ other # role
  BY DEF TypeOK, Proc, MayBind
<1>6. QED
  BY <1>4, <1>5 DEF Roles

LEMMA ServerStepInv ==
    ASSUME TypeOK, ServerInv, NEW p \in Procs, ServerStep(p)
    PROVE  ServerInv'
<1>0. proc \in [Procs -> Proc] /\ proc[p] \in Proc /\ sock \in [Sockets -> Procs \cup {NoProc, Dead}]
  BY DEF TypeOK
<1>1. Up(p)
  BY DEF ServerStep, BindPort, MayBind, CheckSocket, RemoveSocket, BindSocket
<1>2. SocketOf(p) \in Sockets
  BY <1>1 DEF ServerInv, ConfigInv, Up, SocketOf, Sockets
<1>3. ASSUME NEW role \in Roles, BindPort(p, role)
      PROVE  ServerInv'
  <2>1. CASE Fail(p)
    <3>1. CASE PortTaken(proc[p].config[role])
      BY <1>1, <1>3, <2>1, <3>1, FailInv, PortOfOneself DEF BindPort, OwnFault
    <3>2. CASE proc[p].config.tls = "unreadable"
      BY <1>1, <2>1, <3>2, FailInv DEF OwnFault
    <3>3. CASE ~PortTaken(proc[p].config[role]) /\ proc[p].config.tls # "unreadable"
      <4>1. proc'[p] = Remains(p)
        BY <1>0, <2>1 DEF Fail, End, Remains
      <4>2. proc'[p].state = "failed"
        BY <4>1, RemainsType, TypeParts
      <4>3. proc'[p] = [proc[p] EXCEPT !.bound = proc[p].bound \cup {role}]
        BY <1>0, <1>3, <3>3 DEF BindPort
      <4>4. proc'[p].state = proc[p].state
        BY <1>0, <4>3 DEF Proc
      <4>5. QED
        BY <1>1, <4>2, <4>4 DEF Up
    <3>4. QED
      BY <3>1, <3>2, <3>3
  <2>2. CASE ~Fail(p)
    <3> DEFINE n == [proc[p] EXCEPT !.bound = proc[p].bound \cup {role}]
    <3>1. proc' = [proc EXCEPT ![p] = n] /\ sock' = sock
      BY <1>3, <2>2 DEF BindPort
    <3>2. /\ n.state = proc[p].state /\ n.alone = proc[p].alone
          /\ n.config = proc[p].config /\ n.socket = proc[p].socket
      BY <1>0 DEF Proc
    <3> HIDE DEF n
    <3>3. proc'[p] = n /\ \A q \in Procs \ {p} : proc'[q] = proc[q]
      BY <1>0, <3>1
    <3>4. SeesSocket(p)' <=> SeesSocket(p)
      BY <3>1, <3>2, <3>3 DEF SeesSocket, SocketOf
    <3>5. QED
      BY <1>1, <3>2, <3>3, <3>4, OtherServers DEF ServerInv, AloneInv, Up
  <2>3. QED
    BY <2>1, <2>2
<1>4. ASSUME NEW s \in {"todo", "exists", "absent", "listening"},
             proc' = [proc EXCEPT ![p].socket = s],
             /\ s = "exists" => sock'[SocketOf(p)] # NoProc
             /\ s = "absent" => sock'[SocketOf(p)] = NoProc
             /\ s = "listening" => sock'[SocketOf(p)] = p
      PROVE  ServerInv'
  <2> DEFINE n == [proc[p] EXCEPT !.socket = s]
  <2>1. proc' = [proc EXCEPT ![p] = n]
    BY <1>4
  <2>2. /\ n.state = proc[p].state /\ n.alone = proc[p].alone
        /\ n.config = proc[p].config /\ n.socket = s
    BY <1>0 DEF Proc
  <2> HIDE DEF n
  <2>3. proc'[p] = n /\ \A q \in Procs \ {p} : proc'[q] = proc[q]
    BY <1>0, <2>1
  <2>4. SeesSocket(p)'
    BY <1>4, <2>2, <2>3 DEF SeesSocket, SocketOf
  <2>5. QED
    BY <1>1, <2>2, <2>3, <2>4, OtherServers DEF Up
<1>5. CASE CheckSocket(p)
  BY <1>4, <1>5 DEF CheckSocket, Found
<1>6. CASE RemoveSocket(p)
  <2>1. CASE sock[SocketOf(p)] = NoProc
    BY <1>1, <1>6, <2>1, FailInv DEF RemoveSocket, ServerInv, AloneInv, SeesSocket
  <2>2. CASE sock[SocketOf(p)] # NoProc
    BY <1>0, <1>2, <1>4, <1>6, <2>2 DEF RemoveSocket
  <2>3. QED
    BY <2>1, <2>2
<1>7. CASE BindSocket(p)
  <2>1. CASE sock[SocketOf(p)] # NoProc
    BY <1>1, <1>7, <2>1, FailInv DEF BindSocket, ServerInv, AloneInv, SeesSocket
  <2>2. CASE sock[SocketOf(p)] = NoProc
    BY <1>0, <1>2, <1>4, <1>7, <2>2 DEF BindSocket
  <2>3. QED
    BY <2>1, <2>2
<1>8. QED
  BY <1>3, <1>5, <1>6, <1>7 DEF ServerStep

LEMMA KillInv ==
    ASSUME TypeOK, ServerInv, NEW p \in Procs, Kill(p)
    PROVE  ServerInv'
<1>1. proc'[p] = Off /\ \A q \in Procs \ {p} : proc'[q] = proc[q]
  BY DEF Kill, End, TypeOK
<1>2. Off.state = "off" /\ ~Off.alone
  BY DEF Off
<1>3. QED
  BY <1>1, <1>2, OtherServers DEF Kill, Up

-----------------------------------------------------------------------------
(* The theorems.                                                           *)

IInv == TypeOK /\ ServerInv /\ CommandInv

LEMMA InitInv == Init => IInv
<1> SUFFICES ASSUME Init PROVE IInv
  OBVIOUS
<1>1. SockType /\ CmdType
  BY DEF Init, SockType, CmdType, Cmd
<1>2. \A p \in Procs : proc[p] = Off
  BY DEF Init
<1>3. ProcType
  BY <1>2, OffType DEF Init, ProcType, PortsOf
<1>4. ServerInv
  BY <1>2, OffType DEF ServerInv, ConfigInv, AloneInv, RestartSucceeds, Up
<1>5. CommandInv
  BY DEF Init, CommandInv, CommandAt
<1>6. QED
  BY <1>1, <1>3, <1>4, <1>5, TypeParts DEF IInv

\* A step of a command leaves the servers as they are.
LEMMA SameServers ==
    ASSUME TypeOK, ServerInv, UNCHANGED <<sock, proc>>
    PROVE  SockType' /\ ProcType' /\ ServerInv'
<1>1. \A p \in Procs : PortsOf(p)' = PortsOf(p) /\ (Up(p)' <=> Up(p))
  BY DEF PortsOf, Up
<1>2. SockType' /\ ProcType'
  BY <1>1 DEF TypeOK, SockType, ProcType
<1>3. ConfigInv' /\ RestartSucceeds'
  BY DEF ServerInv, ConfigInv, RestartSucceeds
<1>4. \A p \in Procs : SeesSocket(p)' <=> SeesSocket(p)
  BY DEF SeesSocket, SocketOf
<1>5. AloneInv'
  BY <1>1, <1>4 DEF ServerInv, AloneInv
<1>6. QED
  BY <1>2, <1>3, <1>5 DEF ServerInv

LEMMA StepInv == IInv /\ [Next]_vars => IInv'
<1> SUFFICES ASSUME IInv, [Next]_vars PROVE IInv'
  OBVIOUS
<1>0. TypeOK /\ ServerInv /\ CommandInv /\ CmdType
  BY DEF IInv, TypeOK, CmdType
<1>1. ASSUME NEW p \in Procs, NEW file \in Files, Start(p, file)
      PROVE  IInv'
  <2>1. CommandInv'
    BY <1>0, <1>1 DEF Start, CommandInv, CommandAt
  <2>2. QED
    BY <1>0, <1>1, <2>1, StartType, StartInv DEF IInv
<1>2. ASSUME NEW p \in Procs, ServerStep(p)
      PROVE  IInv'
  <2>1. Fail(p) \/ UNCHANGED cmd
    BY <1>2 DEF ServerStep, BindPort, CheckSocket, RemoveSocket, BindSocket
  <2>2. ASSUME Fail(p) PROVE CommandInv'
    BY <1>0, <2>2, EndCommands DEF Fail
  <2>3. ASSUME UNCHANGED cmd PROVE CommandInv'
    BY <1>0, <2>3 DEF CommandInv, CommandAt
  <2>4. QED
    BY <1>0, <1>2, <2>1, <2>2, <2>3, ServerStepType, ServerStepInv DEF IInv
<1>3. ASSUME NEW p \in Procs, Kill(p)
      PROVE  IInv'
  <2>1. TypeOK' /\ CommandInv'
    BY <1>0, <1>3, OffType, EndType, EndCommands DEF Kill
  <2>2. QED
    BY <1>0, <1>3, <2>1, KillInv DEF IInv
<1>4. ASSUME NEW c \in Cmds, ConnectionStep(c) \/ CommandStep(c) \/ Interrupt(c)
      PROVE  IInv'
  <2>1. CmdType' /\ CommandInv'
    BY <1>0, <1>4, ConnectionStepInv, CommandStepInv
  <2>2. UNCHANGED <<sock, proc>>
    BY <1>4 DEF ConnectionStep, CommandStep, Process, SendResponse, RejectLine, Connect,
                SendRequest, ReadResponse, Interrupt
  <2>3. QED
    BY <1>0, <2>1, <2>2, SameServers DEF IInv, TypeOK, SockType, ProcType, CmdType
<1>5. CASE UNCHANGED vars
  <2>1. CmdType' /\ CommandInv'
    BY <1>0, <1>5 DEF vars, CmdType, CommandInv, CommandAt
  <2>2. QED
    BY <1>0, <1>5, <2>1, SameServers DEF vars, IInv, TypeOK, SockType, ProcType, CmdType
<1>6. QED
  BY <1>1, <1>2, <1>3, <1>4, <1>5 DEF Next

LEMMA InvCorrect == Spec => []IInv
  BY InitInv, StepInv, PTL DEF Spec

\* Every variable has its type, and no port is held by two processes: run and the
\* commands of main, whichever processes start, fail and are killed beside each other.
THEOREM TypeCorrect == Spec => []TypeOK
  BY InvCorrect, PTL DEF IInv

\* A server that has come up alone is the one its socket path leads to, whatever
\* the files that its predecessors have left: run_socket_server's exists,
\* remove_file and bind.
THEOREM ReachableCorrect == Spec => []ServingIsReachable
<1>1. IInv => ServingIsReachable
  BY DEF IInv, ServerInv, AloneInv, SeesSocket, ServingIsReachable, Serving
<1>2. QED
  BY <1>1, InvCorrect, PTL

\* A server that is started alone fails for a fault of its own configuration only,
\* never for what its predecessors have left behind: run_servers.
THEOREM RestartCorrect == Spec => []RestartSucceeds
<1>1. IInv => RestartSucceeds
  BY DEF IInv, ServerInv
<1>2. QED
  BY <1>1, InvCorrect, PTL

\* A command prints an answer only after its request has been processed, once, and
\* never ends in silence: send_request, handle_connection and the arms of main.
THEOREM OkMeansDoneCorrect == Spec => []OkMeansDone
<1>1. IInv => OkMeansDone
  <2>1. SUFFICES ASSUME IInv, NEW c \in Cmds
                 PROVE  /\ cmd[c].count <= 1
                        /\ cmd[c].result = "printed" => cmd[c].count = 1
                        /\ cmd[c].conn \in {"none", "open", "closed"} => cmd[c].count = 0
                        /\ cmd[c].result # "silent"
    BY DEF OkMeansDone
  <2>2. cmd[c].conn \in {"none", "open", "request", "processed", "replied", "closed"}
    BY <2>1 DEF IInv, TypeOK, Cmd
  <2>3. CommandAt(c)
    BY <2>1 DEF IInv, CommandInv
  <2>4. QED
    BY <2>2, <2>3 DEF CommandAt
<1>2. QED
  BY <1>1, InvCorrect, PTL

=============================================================================
