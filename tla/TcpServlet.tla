----------------------------- MODULE TcpServlet -----------------------------
(***************************************************************************)
(* The TCP side of the complex server, example/complex/tcp_servlet.lua as     *)
(* main.lua's loop drives it, and its clients, testclt_tcp.lua.  One thread    *)
(* selects the readable sockets and serves them one after another; clients    *)
(* connect, type commands, are killed and quit between any two of its steps.  *)
(*                                                                          *)
(* A request is the session it was sent under; what is in it and in the       *)
(* answer does not matter.  sproto and the socket library are external:       *)
(* dispatch decodes the first request of what recv returned, recv returns     *)
(* all bytes there are, then at most one error, then the end of the stream.    *)
(***************************************************************************)
EXTENDS Naturals, Sequences, SequencesExt, FiniteSets

CONSTANTS
  Clients,      (* the connections, one for each run of testclt_tcp.lua     *)
  Listener,     (* the socket `server'                                      *)
  MaxCommands   (* bound: the commands a user types                         *)

VARIABLES
  sockets, socketinfo,    \* the tables of tcp_servlet.lua: a list, the keys of a map
  ready,                  \* the sockets of the last select still to be served
  count,                  \* M.count
  backlog,                \* connections the kernel has not handed to accept() yet
  up, down,               \* per connection: the requests not received by the server,
                          \* the answers not received by the client
  ended,                  \* what the server still has to see of its end, after the data:
                          \* "no", "error" (then "eof"), "eof"
  cpc, session, typed, quitting   \* per client: where it is, its last session, the
                          \* commands typed, whether the last was quit

serverVars == <<sockets, socketinfo, ready, count>>
clientVars == <<cpc, session, typed, quitting>>
vars == <<serverVars, backlog, up, down, ended, clientVars>>

Init ==
  /\ sockets = <<Listener>> /\ socketinfo = {} /\ ready = {} /\ count = 0
  /\ backlog = <<>>
  /\ up = [c \in Clients |-> <<>>] /\ down = [c \in Clients |-> <<>>]
  /\ ended = [c \in Clients |-> "no"]
  /\ cpc = [c \in Clients |-> "start"]
  /\ session = [c \in Clients |-> 0] /\ typed = [c \in Clients |-> 0]
  /\ quitting = [c \in Clients |-> FALSE]

-----------------------------------------------------------------------------
(* The server: M.process(), once for every turn of main()'s loop             *)
(* (ComplexServer).                                                          *)

Readable(s) == IF s = Listener THEN backlog # <<>> ELSE up[s] # <<>> \/ ended[s] # "no"

(* Mutant: select() without its timeout of 0 waits for a socket.              *)
SelectWaiting ==
  /\ ready = {}
  /\ ready' = {s \in ToSet(sockets) : Readable(s)} /\ ready' # {}
  /\ UNCHANGED <<sockets, socketinfo, count, backlog, up, down, ended, clientVars>>

(* The servlet's part of a turn begins with a select() that does not wait.     *)
Select ==
  /\ ready = {}
  /\ ready' = {s \in ToSet(sockets) : Readable(s)}
  /\ UNCHANGED <<sockets, socketinfo, count, backlog, up, down, ended, clientVars>>

Served(s) ==
  /\ s \in ready /\ ready' = ready \ {s}
  /\ count' = count + 1

(* add_socket()                                                              *)
Accept ==
  /\ Served(Listener)
  /\ backlog' = Tail(backlog)
  /\ sockets' = Append(sockets, Head(backlog))
  /\ socketinfo' = socketinfo \cup {Head(backlog)}
  /\ UNCHANGED <<up, down, ended, clientVars>>

(* Mutant: what was received is not taken from the stream.                    *)
Peek(c) == up
Drain(c) == [up EXCEPT ![c] = <<>>]

(* The first request received is dispatched and answered, by the handler in    *)
(* service/chat.lua; what came with it is given up.                           *)
Answer(c) ==
  /\ Served(c)
  /\ up[c] # <<>>
  /\ up' = Drain(c)
  /\ down' = [down EXCEPT ![c] = Append(@, Head(up[c]))]
  /\ UNCHANGED <<sockets, socketinfo, backlog, ended, clientVars>>

(* recv failed: the error is printed and nothing is done about the socket.    *)
ReceiveError(c) ==
  /\ Served(c)
  /\ up[c] = <<>> /\ ended[c] = "error"
  /\ ended' = [ended EXCEPT ![c] = "eof"]
  /\ UNCHANGED <<sockets, socketinfo, backlog, up, down, clientVars>>

(* Mutants: the list, or the map, keeps the socket.                           *)
KeepListed(c) == socketinfo' = socketinfo \ {c} /\ UNCHANGED sockets
KeepInfo(c) == sockets' = Remove(sockets, c) /\ UNCHANGED socketinfo

(* The socket is searched in the list, and removed from both tables.          *)
remove_socket(c) ==
  \E i \in DOMAIN sockets :
    /\ sockets[i] = c /\ \A j \in 1..(i - 1) : sockets[j] # c
    /\ sockets' = RemoveAt(sockets, i)
    /\ socketinfo' = socketinfo \ {c}

Disconnected(c) ==
  /\ Served(c)
  /\ up[c] = <<>> /\ ended[c] = "eof"
  /\ remove_socket(c)
  /\ ended' = [ended EXCEPT ![c] = "no"]
  /\ UNCHANGED <<backlog, up, down, clientVars>>

-----------------------------------------------------------------------------
(* The client.                                                               *)

Connect(c) ==
  /\ cpc[c] = "start"
  /\ cpc' = [cpc EXCEPT ![c] = "prompt"]
  /\ backlog' = Append(backlog, c)
  /\ UNCHANGED <<serverVars, up, down, ended, session, typed, quitting>>

(* Something is typed; whatever it was, the client goes on to wait for an     *)
(* answer.                                                                   *)
Type(c) ==
  /\ cpc[c] = "prompt" /\ typed[c] < MaxCommands
  /\ typed' = [typed EXCEPT ![c] = @ + 1]
  /\ cpc' = [cpc EXCEPT ![c] = "waiting"]

(* A command of the protocol: check_cmd() sends it.                           *)
Request(c) ==
  /\ Type(c)
  /\ session' = [session EXCEPT ![c] = @ + 1]
  /\ up' = [up EXCEPT ![c] = Append(@, session'[c])]
  /\ UNCHANGED <<serverVars, backlog, down, ended, quitting>>

(* An empty line, illegal arguments, or a command that the protocol has not   *)
(* and send_request() counts before it fails: nothing is sent.                *)
Mistype(c) ==
  /\ Type(c)
  /\ session' \in {session, [session EXCEPT ![c] = @ + 1]}
  /\ UNCHANGED <<serverVars, backlog, up, down, ended, quitting>>

(* quit is a command like any other: send_request() counts a session, then     *)
(* raises, as the protocol has no such request, and pcall catches it.         *)
Quit(c) ==
  /\ Type(c)
  /\ session' = [session EXCEPT ![c] = @ + 1]
  /\ quitting' = [quitting EXCEPT ![c] = TRUE]
  /\ UNCHANGED <<serverVars, backlog, up, down, ended>>

Closing(c, how) ==
  /\ cpc' = [cpc EXCEPT ![c] = "closed"]
  /\ ended' = [ended EXCEPT ![c] = how]

(* select() returns once there is an answer; the loop ends if quit was typed. *)
Receive(c) ==
  /\ cpc[c] = "waiting" /\ down[c] # <<>>
  /\ down' = [down EXCEPT ![c] = <<>>]
  /\ IF quitting[c] THEN Closing(c, "eof")
                    ELSE cpc' = [cpc EXCEPT ![c] = "prompt"] /\ UNCHANGED ended
  /\ UNCHANGED <<serverVars, backlog, up, session, typed, quitting>>

(* The client is killed: the server reads an error or the end.                *)
Kill(c) ==
  /\ cpc[c] \in {"prompt", "waiting"}
  /\ \E how \in {"error", "eof"} : Closing(c, how)
  /\ UNCHANGED <<serverVars, backlog, up, down, session, typed, quitting>>

-----------------------------------------------------------------------------
Serve == Accept \/ \E c \in Clients : Answer(c) \/ ReceiveError(c) \/ Disconnected(c)

Client(c) == Request(c) \/ Mistype(c) \/ Quit(c) \/ Receive(c) \/ Kill(c)

-----------------------------------------------------------------------------
(* Properties.                                                               *)

(* Every variable holds a value of what it stands for.                       *)
TypeOK ==
  /\ sockets \in Seq(Clients \cup {Listener}) /\ socketinfo \subseteq Clients
  /\ ready \subseteq Clients \cup {Listener} /\ backlog \in Seq(Clients)
  /\ count \in Nat
  /\ up \in [Clients -> Seq(Nat)] /\ down \in [Clients -> Seq(Nat)]
  /\ ended \in [Clients -> {"no", "error", "eof"}]
  /\ cpc \in [Clients -> {"start", "prompt", "waiting", "closed"}]
  /\ session \in [Clients -> Nat] /\ typed \in [Clients -> Nat]
  /\ quitting \in [Clients -> BOOLEAN]

(* The two tables tell the same: every connection accepted and not removed is  *)
(* once on the list select() gets and has its entry in socketinfo (whose       *)
(* absence would stop the server at the ".." of the disconnect message); the   *)
(* listener stays; what is still to be served has not been removed meanwhile.  *)
TablesAgree ==
  /\ IsInjective(sockets)
  /\ ToSet(sockets) = socketinfo \cup {Listener}
  /\ ready \subseteq ToSet(sockets)
  /\ ToSet(backlog) \cap socketinfo = {}

(* An answer belongs to the request its client waits for: none is answered     *)
(* twice, none late, and no answer is there when the client has not asked.     *)
AnswerMatches ==
  \A c \in Clients : cpc[c] # "closed" =>
    /\ Len(up[c]) + Len(down[c]) <= 1
    /\ down[c] # <<>> => cpc[c] = "waiting" /\ down[c] = <<session[c]>>

(* The inductive invariant the proofs use: besides the above, what a listener   *)
(* to be served has waiting, that a connection waits once, and what each client *)
(* has under way at each place of its loop.                                    *)
ClientAt(c) ==
  /\ cpc[c] = "start" => c \notin socketinfo /\ c \notin ToSet(backlog)
  /\ cpc[c] \in {"start", "prompt"} => up[c] = <<>> /\ down[c] = <<>>
  /\ cpc[c] = "waiting" => \/ up[c] = <<>> /\ down[c] = <<>>
                           \/ up[c] = <<session[c]>> /\ down[c] = <<>>
                           \/ up[c] = <<>> /\ down[c] = <<session[c]>>

TcpInv ==
  /\ TypeOK /\ TablesAgree
  /\ IsInjective(backlog)
  /\ Listener \in ready => backlog # <<>>
  /\ \A c \in Clients : ClientAt(c)

(* A request is answered, or its client gone, while other clients ask, come    *)
(* and are killed.                                                            *)
RequestsAnswered == \A c \in Clients : up[c] # <<>> ~> cpc[c] \in {"prompt", "closed"}

(* The server lets go of every connection whose client is gone, though it does *)
(* nothing on an error of recv.                                               *)
ConnectionsReleased ==
  \A c \in Clients : cpc[c] = "closed" ~> c \notin socketinfo /\ c \notin ToSet(backlog)

=============================================================================
