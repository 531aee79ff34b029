---------------------------- MODULE AdminSocket ----------------------------
(***************************************************************************)
(* Server processes and the commands that reach them over the admin socket:*)
(* main.rs, run and run_servers in presentation/http/server.rs, the        *)
(* listening half of presentation/admin/socket_server.rs, socket_client.rs *)
(* and cli.rs.                                                             *)
(*                                                                         *)
(* A process reads its configuration file once, when it is started; the    *)
(* operator may have edited the file since the last time.                  *)
(* The three servers of a process are futures of one select!, which polls  *)
(* them in any order; the file operations of the socket server are system  *)
(* calls between which other processes may run.  A process that has ended  *)
(* may be followed by another one in its place.  The kernel closes the     *)
(* sockets of a dead process, but the file that UnixListener::bind has     *)
(* made stays where it is.                                                 *)
(***************************************************************************)
EXTENDS Config

CONSTANTS
    Procs,          \* the places of the server processes: fastcache serve
    Cmds,           \* the commands: fastcache purge, fastcache stats
    Args,           \* Args[c]: the arguments of a command
    Files,          \* what the configuration file may hold when a server reads it
    NoProc, Dead    \* stand for no process, and for one that has ended

Sockets == {ConfigOf(f).socket : f \in Files}

\* cli.rs: at most one of path, --prefix and --all, and --socket.
Arg == [target : {"path", "prefix", "all", "none", "stats"}, socket : Sockets]

ASSUME SocketAssumption ==
    /\ NoProc \notin Procs /\ Dead \notin Procs \cup {NoProc}
    /\ Args \in [Cmds -> Arg]

VARIABLES
    sock,           \* sock[s]: whose listener made the file at the path s, if it exists
    proc,           \* the processes
    cmd             \* the commands

vars == <<sock, proc, cmd>>

Roles == {"port", "admin_port"}

\* alone is auxiliary: no other process has been up since this one was started.
Proc ==
    [state : {"off", "up", "failed"}, alone : BOOLEAN,
     config : {ConfigOf(f) : f \in Files} \cup {DefaultConfig},
     bound : SUBSET Roles,              \* the ports it listens on
     socket : {"todo", "exists", "absent", "listening"}]

\* conn is the server's side of the connection of a command; count is
\* auxiliary: how often its request has been processed.
Cmd ==
    [pc : {"start", "connected", "sent", "done"},
     server : Procs \cup {NoProc, Dead},
     conn : {"none", "open", "request", "processed", "replied", "closed"},
     result : {"none", "printed", "silent", "error"},
     count : Nat]

Off == [state |-> "off", alone |-> FALSE, config |-> DefaultConfig,
        bound |-> {}, socket |-> "todo"]

Init ==
    /\ sock = [s \in Sockets |-> NoProc]
    /\ proc = [p \in Procs |-> Off]
    /\ cmd = [c \in Cmds |-> [pc |-> "start", server |-> NoProc, conn |-> "none",
                              result |-> "none", count |-> 0]]

Up(p) == proc[p].state = "up"

Serving(p) == Up(p) /\ proc[p].socket = "listening" /\ proc[p].bound = Roles

SocketOf(p) == proc[p].config.socket

\* The ports a process holds.
PortsOf(p) == {proc[p].config[role] : role \in proc[p].bound}

-----------------------------------------------------------------------------
(* A server process.                                                       *)

\* main: Command::Serve, and run up to run_servers.
Start(p, file) ==
    /\ ~Up(p)
    /\ LET config == ConfigOf(file)
           others == {q \in Procs \ {p} : Up(q)}
           new == [state |-> IF Usable(config) THEN "up" ELSE "failed",
                   alone |-> others = {}, config |-> config,
                   bound |-> {}, socket |-> "todo"]
       IN proc' = [q \in Procs |->
                     IF q = p THEN new
                     ELSE [proc[q] EXCEPT !.alone = @ /\ q \notin others]]
    /\ UNCHANGED <<sock, cmd>>

\* The process ends, with its listeners and its ends of the connections.
End(p, left) ==
    /\ proc' = [proc EXCEPT ![p] = left]
    /\ sock' = [s \in Sockets |-> IF sock[s] = p THEN Dead ELSE sock[s]]
    /\ cmd' = [c \in Cmds |-> IF cmd[c].server = p
                              THEN [cmd[c] EXCEPT !.server = Dead] ELSE cmd[c]]

\* One of the futures returns an error: select! drops the others and run ends.
Fail(p) == End(p, [Off EXCEPT !.state = "failed", !.alone = proc[p].alone,
                              !.config = proc[p].config])

\* Mutant: a port may be shared (SO_REUSEPORT).
PortTakenNever(port) == FALSE

PortTaken(port) == \E q \in Procs : port \in PortsOf(q)

\* Mutant: a port that is taken is waited for.
MayBindWaiting(p, role) ==
    /\ Up(p) /\ role \notin proc[p].bound
    /\ proc[p].socket \in {"todo", "listening"}
    /\ ~PortTaken(proc[p].config[role])

\* select! may poll this server: the socket server does not suspend in between.
MayBind(p, role) ==
    /\ Up(p) /\ role \notin proc[p].bound
    /\ proc[p].socket \in {"todo", "listening"}

\* start_cdn_server and start_admin_http_server: a certificate that does not
\* load and a port that is taken are errors.
BindPort(p, role) ==
    /\ MayBind(p, role)
    /\ IF \/ PortTaken(proc[p].config[role])
          \/ role = "port" /\ proc[p].config.tls = "unreadable"
       THEN Fail(p)
       ELSE proc' = [proc EXCEPT ![p].bound = @ \cup {role}] /\ UNCHANGED <<sock, cmd>>

\* Mutant: the file of a predecessor is not looked for.
FoundNothing(p) == "absent"

\* Mutant: the file of a predecessor is taken for one's own.
FoundMine(p) == IF sock[SocketOf(p)] # NoProc THEN "listening" ELSE "absent"

\* socket_path.exists()
Found(p) == IF sock[SocketOf(p)] # NoProc THEN "exists" ELSE "absent"

CheckSocket(p) ==
    /\ Up(p) /\ proc[p].socket = "todo"
    /\ proc' = [proc EXCEPT ![p].socket = Found(p)]
    /\ UNCHANGED <<sock, cmd>>

\* remove_file(socket_path)?, whoever the file belongs to
RemoveSocket(p) ==
    /\ Up(p) /\ proc[p].socket = "exists"
    /\ IF sock[SocketOf(p)] = NoProc
       THEN Fail(p)
       ELSE /\ proc' = [proc EXCEPT ![p].socket = "absent"]
            /\ sock' = [sock EXCEPT ![SocketOf(p)] = NoProc]
            /\ UNCHANGED cmd

\* UnixListener::bind(socket_path)?
BindSocket(p) ==
    /\ Up(p) /\ proc[p].socket = "absent"
    /\ IF sock[SocketOf(p)] # NoProc
       THEN Fail(p)
       ELSE /\ proc' = [proc EXCEPT ![p].socket = "listening"]
            /\ sock' = [sock EXCEPT ![SocketOf(p)] = p]
            /\ UNCHANGED cmd

\* A signal or a crash ends the process: it handles no signal.
Kill(p) == Up(p) /\ End(p, Off)

-----------------------------------------------------------------------------
(* A connection's task, and a command: send_request of socket_client.rs.   *)

\* main: a purge without a target is one of everything.
RequestOf(target) ==
    CASE target = "path" -> "Purge"
      [] target = "prefix" -> "PurgePrefix"
      [] target \in {"all", "none"} -> "PurgeAll"
      [] target = "stats" -> "Stats"

\* Mutant: the result of every request is answered as that of a purge.
ResponseOk(request) == "Ok"

\* process_request: the kind of AdminResponse.
ResponseTo(request) == IF request = "Stats" THEN "Stats" ELSE "Ok"

\* main: the kind of response each command prints; it drops any other one.
Expected(target) == IF target = "stats" THEN "Stats" ELSE "Ok"

\* The line has been read; the request is processed.
Process(c) ==
    /\ cmd[c].conn = "request" /\ cmd[c].server \in Procs
    /\ cmd' = [cmd EXCEPT ![c].conn = "processed", ![c].count = @ + 1]
    /\ UNCHANGED <<sock, proc>>

\* The response is written, even if the client is gone by now.
SendResponse(c) ==
    /\ cmd[c].conn = "processed" /\ cmd[c].server \in Procs
    /\ cmd' = [cmd EXCEPT ![c].conn = "replied"]
    /\ UNCHANGED <<sock, proc>>

\* A client that is gone before it has written anything leaves an empty line,
\* which is no request: the task ends without an answer.
RejectLine(c) ==
    /\ cmd[c].conn = "open" /\ cmd[c].pc = "done" /\ cmd[c].server \in Procs
    /\ cmd' = [cmd EXCEPT ![c].conn = "closed"]
    /\ UNCHANGED <<sock, proc>>

EndWith(c, result) ==
    cmd' = [cmd EXCEPT ![c].pc = "done", ![c].result = result]

Connect(c) ==
    /\ cmd[c].pc = "start"
    /\ LET server == sock[Args[c].socket] IN
       IF server \in Procs
       THEN cmd' = [cmd EXCEPT ![c].pc = "connected", ![c].server = server,
                               ![c].conn = "open"]
       ELSE EndWith(c, "error")
    /\ UNCHANGED <<sock, proc>>

SendRequest(c) ==
    /\ cmd[c].pc = "connected"
    /\ IF cmd[c].server \in Procs
       THEN cmd' = [cmd EXCEPT ![c].pc = "sent", ![c].conn = "request"]
       ELSE EndWith(c, "error")
    /\ UNCHANGED <<sock, proc>>

\* Mutant: the end of the stream is waited for like any other answer.
StreamEndedNever(c) == FALSE

\* The server has died without an answer.
StreamEnded(c) == cmd[c].conn # "replied" /\ cmd[c].server = Dead

\* Mutant: an empty line is taken for success.
EmptyLineOk == "printed"

\* serde_json finds no response in it.
EmptyLine == "error"

\* read_line, without a timeout.
ReadResponse(c) ==
    /\ cmd[c].pc = "sent"
    /\ \/ /\ cmd[c].conn = "replied"
          /\ LET target == Args[c].target IN
             EndWith(c, IF ResponseTo(RequestOf(target)) = Expected(target)
                        THEN "printed" ELSE "silent")
       \/ StreamEnded(c) /\ EndWith(c, EmptyLine)
    /\ UNCHANGED <<sock, proc>>

\* The user interrupts the command.
Interrupt(c) ==
    /\ cmd[c].pc \in {"connected", "sent"}
    /\ EndWith(c, "none")
    /\ UNCHANGED <<sock, proc>>

-----------------------------------------------------------------------------
ServerStep(p) ==
    \/ \E role \in Roles : BindPort(p, role)
    \/ CheckSocket(p) \/ RemoveSocket(p) \/ BindSocket(p)

ConnectionStep(c) == Process(c) \/ SendResponse(c) \/ RejectLine(c)

CommandStep(c) == Connect(c) \/ SendRequest(c) \/ ReadResponse(c)

Next ==
    \/ \E p \in Procs : (\E file \in Files : Start(p, file)) \/ ServerStep(p) \/ Kill(p)
    \/ \E c \in Cmds : ConnectionStep(c) \/ CommandStep(c) \/ Interrupt(c)

Spec == Init /\ [][Next]_vars

\* The runtimes of the processes go on while they live.  Nobody has to
\* start, kill or interrupt anything.
FairSpec ==
    /\ Spec
    /\ \A p \in Procs : WF_vars(ServerStep(p))
    /\ \A c \in Cmds : WF_vars(ConnectionStep(c)) /\ WF_vars(CommandStep(c))

-----------------------------------------------------------------------------
\* Every variable has its type, and a port is held by one live process at most.
TypeOK ==
    /\ sock \in [Sockets -> Procs \cup {NoProc, Dead}]
    /\ proc \in [Procs -> Proc]
    /\ cmd \in [Cmds -> Cmd]
    /\ \A p \in Procs : proc[p].bound # {} => Up(p)
    /\ \A p, q \in Procs : p # q => PortsOf(p) \cap PortsOf(q) = {}

\* A server that has come up without another one beside it is the one that its
\* socket path leads to, whatever became of the ones before it.
ServingIsReachable ==
    \A p \in Procs : Serving(p) /\ proc[p].alone => sock[SocketOf(p)] = p

\* A server that is started while no other one is up comes up, however and
\* wherever the ones before it have ended, also while they were fighting over the
\* socket file, unless its own configuration cannot be used.
RestartSucceeds ==
    \A p \in Procs :
        proc[p].state = "failed" /\ proc[p].alone =>
            \/ ~Usable(proc[p].config) \/ proc[p].config.tls = "unreadable"
            \/ proc[p].config.port = proc[p].config.admin_port

\* A command that prints an answer has been carried out, once; one that was turned
\* away or was interrupted before it had sent its request has not; and one that
\* comes to its end by itself prints an answer or an error.
OkMeansDone ==
    \A c \in Cmds :
        /\ cmd[c].count <= 1
        /\ cmd[c].result = "printed" => cmd[c].count = 1
        /\ cmd[c].conn \in {"none", "open", "closed"} => cmd[c].count = 0
        /\ cmd[c].result # "silent"

\* No command waits for ever, although neither side has a timeout.
CommandEnds ==
    \A c \in Cmds : cmd[c].pc # "start" ~> cmd[c].pc = "done"

\* A server that has been started serves, or it has come to its end.
StartEnds ==
    \A p \in Procs : Up(p) ~> (Serving(p) \/ ~Up(p))

-----------------------------------------------------------------------------
(* What the documentation says and the code does not do (see README.md).   *)

\* README: the commands reach the server while it runs; so while it serves, others
\* whose start has failed beside it have left it reachable.
FailedStartIsHarmless ==
    \A p \in Procs :
        Serving(p) /\ (\A q \in Procs \ {p} : proc[q].state = "failed") =>
            sock[SocketOf(p)] = p
=============================================================================
