--------------------------- MODULE HomekitServer ---------------------------
(***************************************************************************)
(* The connections of arduino_homekit_server.cpp and the protocol each one *)
(* runs: pair setup (M1, M3, M5), pair verify (V1, V3) and the pairings    *)
(* requests of a secured session, over one pairing table.                  *)
(*                                                                         *)
(* arduino_homekit_loop serves one connection at a time, and a handler     *)
(* runs to its end, so an action is one call of a handler.  The loop's     *)
(* order within a pass is not kept: a request may arrive at any time, so   *)
(* connections are served in any order whatever the order of the list.     *)
(*                                                                         *)
(* The controllers are the environment.  They follow the protocol: one     *)
(* request at a time, M3 after M2, M5 after M4, V3 after V2, pairings      *)
(* requests in a secured session; they may start over, give a wrong setup  *)
(* code, or go away at any point.  A controller keeps its long-term key,   *)
(* so a record found for its id carries the right key.                     *)
(***************************************************************************)
EXTENDS PairingBlocks, FiniteSets

CONSTANTS
  Conn,         \* TCP connections (client_context_t and its socket)
  NoConn,       \* the null client_context_t pointer
  MaxClients    \* HOMEKIT_MAX_CLIENTS (8 in the code)

ASSUME MaxClientsAssumption == MaxClients \in Nat \ {0}
ASSUME NoConnAssumption == NoConn \notin Conn
ASSUME ConnAssumption == IsFiniteSet(Conn)

VARIABLES
  server,       \* homekit_server_t and saved_preinit_pairing_context
  ctx,          \* the client contexts
  block, hasId, \* the pairing table; the sector holds an accessory id
  net,          \* the sockets, as the network has them
  peer,         \* the controller behind each connection
  req, sess     \* the request received and not served, the last answer

store   == <<block, hasId>>
network == <<net, peer, req, sess>>
vars    == <<server, ctx, block, hasId, net, peer, req, sess>>

(* server.saved: saved_preinit_pairing_context is not null; server.key:    *)
(* that context holds the SRP public key; server.owner: the client of      *)
(* server->pairing_context, NoConn when that pointer is null.              *)
Server == [paired : BOOLEAN, saved : BOOLEAN, key : BOOLEAN,
           owner : Conn \cup {NoConn}, nfds : 0 .. MaxClients]

Steps == {"none", "setup1", "setup2", "setup3", "verify1", "verify2"}
NoPairingId == -1

\* A context in server->clients.  pid, admin: the pairing_id and the
\* permissions that pair verify copied from the pairing.
Context == [live : BOOLEAN, step : Steps, encrypted : BOOLEAN,
            verify : BOOLEAN, pid : Slot \cup {NoPairingId},
            admin : BOOLEAN, disconnect : BOOLEAN]

NewContext == [live |-> TRUE, step |-> "none", encrypted |-> FALSE,
               verify |-> FALSE, pid |-> NoPairingId, admin |-> FALSE,
               disconnect |-> FALSE]
NoContext == [NewContext EXCEPT !.live = FALSE]

Clients == {c \in Conn : ctx[c].live}

Ops == {"none", "M1", "M3", "M3bad", "M5", "V1", "V3", "add", "remove", "list"}
Request == [op : Ops, dev : Device \cup {NoDevice}, admin : BOOLEAN]
Simple(o) == [op |-> o, dev |-> NoDevice, admin |-> FALSE]
NoRequest == Simple("none")

\* What a controller can go on from; "none" after an error or on a new socket.
Answers == {"none", "M2", "nokey", "M4", "M6", "V2", "secure"}

TypeOK ==
  /\ server \in Server
  /\ ctx \in [Conn -> Context]
  /\ block \in [Slot -> Block] /\ hasId \in BOOLEAN
  /\ net \in [Conn -> {"none", "waiting", "open", "closed"}]
  /\ peer \in [Conn -> Device \cup {NoDevice}]
  /\ req \in [Conn -> Request]
  /\ sess \in [Conn -> Answers]

-----------------------------------------------------------------------------
(* The pairing contexts.                                                   *)

\* A slip: only the pointer of the server is cleared.
FreeSetupPointer(s) == [s EXCEPT !.owner = NoConn]

\* pairing_context_free, and server->pairing_context = NULL.
FreeSetup(s) == [s EXCEPT !.saved = FALSE, !.key = FALSE, !.owner = NoConn]

\* arduino_homekit_preinit.
Preinit(s) == IF s.saved THEN s ELSE [s EXCEPT !.saved = TRUE, !.key = TRUE]

\* Slips: the pairing context is not freed; the client is not counted out.
ClosedKeepsSetup(s, c) == [s EXCEPT !.nfds = @ - 1]
ClosedUncounted(s, c) == IF s.owner = c THEN FreeSetup(s) ELSE s

\* homekit_server_close_client: what it does to the server.
Closed(s, c) ==
  LET t == [s EXCEPT !.nfds = @ - 1]
  IN  IF s.owner = c THEN FreeSetup(t) ELSE t

\* homekit_server_init: paired if some record is an admin's, else preinit.
Booted(b) ==
  LET s == [paired |-> HasAdmin(b), saved |-> FALSE, key |-> FALSE,
            owner |-> NoConn, nfds |-> 0]
  IN  IF s.paired THEN s ELSE Preinit(s)

ErasedTable == [i \in Slot |-> ErasedBlock]

Init ==
  /\ block = ErasedTable /\ hasId = TRUE
  /\ server = Booted(ErasedTable)
  /\ ctx = [c \in Conn |-> NoContext]
  /\ net = [c \in Conn |-> "none"]
  /\ peer = [c \in Conn |-> NoDevice]
  /\ req = [c \in Conn |-> NoRequest]
  /\ sess = [c \in Conn |-> "none"]

-----------------------------------------------------------------------------
(* The storage functions, run to their end (PairingStore has their steps). *)
(* With no erased block left, compact_data erases the sector and the new   *)
(* record is the only one.                                                 *)

\* A slip: a zeroed block is written again.
FirstUnused(b) == CHOOSE i \in Slot : FirstOf({j \in Slot : ~Valid(b, j)}, i)
FirstErased(b) == CHOOSE i \in Slot : FirstEmpty(b, i)
Compacts(b) == EmptyBlocks(b) = {}
Room(b) == IF Compacts(b) THEN ErasedTable ELSE b

\* homekit_storage_add_pairing, CanAddPairing(b) being true.
Added(b, d, a) == [Room(b) EXCEPT ![FirstErased(Room(b))] = Record(d, a)]

\* homekit_storage_update_pairing: the block zeroed is the one the record
\* was in before the search for an empty block.
Updated(b, d, a) == [Added(b, d, a) EXCEPT ![Index(b, d)] = ZeroedBlock]

Removed(b, d) == [b EXCEPT ![Index(b, d)] = ZeroedBlock]

-----------------------------------------------------------------------------
(* Controllers.                                                            *)

\* A connection waits in WiFiServer until it is accepted.
Connect(c) ==
  /\ net[c] = "none"
  /\ net' = [net EXCEPT ![c] = "waiting"]
  /\ UNCHANGED <<server, ctx, store, peer, req, sess>>

MayFollow(answer) ==
  IF answer = "secure"
    THEN [op : {"add"}, dev : Device, admin : BOOLEAN]
         \cup [op : {"remove"}, dev : Device, admin : {FALSE}]
         \cup {Simple("list")}
    ELSE {Simple("M1"), Simple("V1")}
         \cup (IF answer = "M2" THEN {Simple("M3"), Simple("M3bad")} ELSE {})
         \cup (IF answer = "M4" THEN {Simple("M5")} ELSE {})
         \cup (IF answer = "V2" THEN {Simple("V3")} ELSE {})

Send(c, r) ==
  /\ net[c] = "open" /\ req[c] = NoRequest /\ r \in MayFollow(sess[c])
  /\ req' = [req EXCEPT ![c] = r]
  /\ UNCHANGED <<server, ctx, store, net, peer, sess>>

\* The controller closes the connection, or TCP keep-alive gives it up.
PeerCloses(c) ==
  /\ net[c] = "open"
  /\ net' = [net EXCEPT ![c] = "closed"]
  /\ UNCHANGED <<server, ctx, store, peer, req, sess>>

-----------------------------------------------------------------------------
(* The loop: accepting, noticing a closed socket, answering.               *)

Forget(c) ==
  /\ net' = [net EXCEPT ![c] = "none"]
  /\ peer' = [peer EXCEPT ![c] = NoDevice]
  /\ req' = [req EXCEPT ![c] = NoRequest]
  /\ sess' = [sess EXCEPT ![c] = "none"]

\* homekit_server_accept_client.  Which controller it is shows only now.
Accept(c) ==
  /\ net[c] = "waiting" /\ server.nfds < MaxClients
  /\ server' = [server EXCEPT !.nfds = @ + 1]
  /\ ctx' = [ctx EXCEPT ![c] = NewContext]
  /\ net' = [net EXCEPT ![c] = "open"]
  /\ \E d \in Device : peer' = [peer EXCEPT ![c] = d]
  /\ UNCHANGED <<store, req, sess>>

Reject(c) ==
  /\ net[c] = "waiting" /\ server.nfds >= MaxClients
  /\ Forget(c)
  /\ UNCHANGED <<server, ctx, store>>

\* homekit_server_close_client.
Close(c, s) ==
  /\ server' = Closed(s, c)
  /\ ctx' = [ctx EXCEPT ![c] = NoContext]
  /\ Forget(c)

\* homekit_client_process finds nothing to read and the socket closed.
Disconnected(c) ==
  /\ ctx[c].live /\ net[c] = "closed" /\ req[c] = NoRequest
  /\ Close(c, server)
  /\ UNCHANGED store

\* The answer reaches the controller, or write() drops it, the socket being
\* closed already.  s is the server and x the context when the handler ends.
Answer(c, s, x, answer) ==
  /\ server' = s
  /\ ctx' = [ctx EXCEPT ![c] = x]
  /\ req' = [req EXCEPT ![c] = NoRequest]
  /\ sess' = IF net[c] = "open" THEN [sess EXCEPT ![c] = answer] ELSE sess
  /\ UNCHANGED <<net, peer>>

(* write() sends less than it was given and closes the client under the    *)
(* handler, whose remaining assignments go to freed memory.  The handler   *)
(* survives this, or the chip resets (Reboot can follow at once).          *)
Reply(c, s, x, answer) ==
  \/ Answer(c, s, x, answer)
  \/ Close(c, s)

(* on_message_complete passes a request on by the encrypted flag: only the *)
(* pairing handlers run without it and only the others with it.            *)
Plain(c, o)   == ctx[c].live /\ ~ctx[c].encrypted /\ req[c].op = o
Secured(c, o) == ctx[c].live /\ ctx[c].encrypted /\ req[c].op = o

\* step = NONE, the first assignment of both pairing handlers.
Started(c) == [ctx[c] EXCEPT !.step = "none"]
At(c, step) == [ctx[c] EXCEPT !.step = step]

-----------------------------------------------------------------------------
(* homekit_server_on_pair_setup.                                           *)

SetupM1Unavailable(c) ==
  /\ Plain(c, "M1") /\ server.paired
  /\ Reply(c, server, Started(c), "none")
  /\ UNCHANGED store

\* A slip: a busy pairing context is given up for the next try.
SetupM1BusyFrees(c) ==
  /\ Plain(c, "M1") /\ ~server.paired /\ server.owner \notin {NoConn, c}
  /\ Reply(c, FreeSetup(server), Started(c), "none")
  /\ UNCHANGED store

SetupM1Busy(c) ==
  /\ Plain(c, "M1") /\ ~server.paired /\ server.owner \notin {NoConn, c}
  /\ Reply(c, server, Started(c), "none")
  /\ UNCHANGED store

\* A slip: the test for a busy pairing context is missing.
SetupM1TakesOver(c) ==
  /\ Plain(c, "M1") /\ ~server.paired
  /\ Reply(c, [Preinit(server) EXCEPT !.owner = c], At(c, "setup1"), "M2")
  /\ UNCHANGED store

\* The context that preinit saved becomes this client's; a client that owns
\* it already gets it as it is.
SetupM1(c) ==
  /\ Plain(c, "M1") /\ ~server.paired /\ server.owner \in {NoConn, c}
  /\ LET s == IF server.owner = c THEN server
                                  ELSE [Preinit(server) EXCEPT !.owner = c]
     IN  Reply(c, s, At(c, "setup1"), IF s.key THEN "M2" ELSE "nokey")
  /\ UNCHANGED store

\* The public key is freed before the proof is verified.
SetupM3(c) ==
  /\ Plain(c, "M3")
  /\ Reply(c, [server EXCEPT !.key = FALSE], At(c, "setup2"), "M4")
  /\ UNCHANGED store

SetupM3WrongCode(c) ==
  /\ Plain(c, "M3bad")
  /\ Reply(c, [server EXCEPT !.key = FALSE], Started(c), "none")
  /\ UNCHANGED store

\* A reset of the chip, then homekit_server_init on table b; without an
\* accessory id in the sector (id), it resets the storage.
RebootWith(b, id) ==
  /\ block' = IF id THEN b ELSE ErasedTable
  /\ hasId' = TRUE
  /\ server' = Booted(block')
  /\ ctx' = [c \in Conn |-> NoContext]
  /\ net' = [c \in Conn |-> "none"]
  /\ peer' = [c \in Conn |-> NoDevice]
  /\ req' = [c \in Conn |-> NoRequest]
  /\ sess' = [c \in Conn |-> "none"]

\* The controller becomes an admin.  It is not looked for in the table.
SetupM5(c) ==
  /\ Plain(c, "M5") /\ CanAddPairing(block)
  /\ block' = Added(block, peer[c], TRUE)
  /\ hasId' = (hasId /\ ~Compacts(block))
  /\ Answer(c, [FreeSetup(server) EXCEPT !.paired = TRUE],
            At(c, "setup3"), "M6")

\* The answer's write closes the client and with it the pairing context;
\* pairing_context_free is then called with a null pointer.
SetupM5WriteError(c) ==
  /\ Plain(c, "M5") /\ CanAddPairing(block)
  /\ RebootWith(Added(block, peer[c], TRUE), hasId /\ ~Compacts(block))

\* homekit_storage_add_pairing returns -2.
SetupM5Full(c) ==
  /\ Plain(c, "M5") /\ ~CanAddPairing(block)
  /\ Reply(c, server, Started(c), "none")
  /\ UNCHANGED store

-----------------------------------------------------------------------------
(* homekit_server_on_pair_verify.                                          *)

VerifyV1(c) ==
  /\ Plain(c, "V1")
  /\ Reply(c, server, [At(c, "verify1") EXCEPT !.verify = TRUE], "V2")
  /\ UNCHANGED store

\* Slips: the id counts from one; the encrypted flag is not set.
VerifyV3FromOne(c) ==
  /\ Plain(c, "V3") /\ ctx[c].verify /\ Found(block, peer[c])
  /\ LET i == Index(block, peer[c])
     IN  Reply(c, server,
               [At(c, "verify2") EXCEPT !.verify = FALSE, !.encrypted = TRUE,
                                        !.pid = i + 1, !.admin = block[i].admin],
               "secure")
  /\ UNCHANGED store

VerifyV3Plain(c) ==
  /\ Plain(c, "V3") /\ ctx[c].verify /\ Found(block, peer[c])
  /\ LET i == Index(block, peer[c])
     IN  Reply(c, server,
               [At(c, "verify2") EXCEPT !.verify = FALSE,
                                        !.pid = i, !.admin = block[i].admin],
               "secure")
  /\ UNCHANGED store

VerifyV3(c) ==
  /\ Plain(c, "V3") /\ ctx[c].verify /\ Found(block, peer[c])
  /\ LET i == Index(block, peer[c])
     IN  Reply(c, server,
               [At(c, "verify2") EXCEPT !.verify = FALSE, !.encrypted = TRUE,
                                        !.pid = i, !.admin = block[i].admin],
               "secure")
  /\ UNCHANGED store

VerifyV3Unknown(c) ==
  /\ Plain(c, "V3") /\ ctx[c].verify /\ ~Found(block, peer[c])
  /\ Reply(c, server, [Started(c) EXCEPT !.verify = FALSE], "none")
  /\ UNCHANGED store

-----------------------------------------------------------------------------
(* homekit_server_on_pairings.                                             *)

NotAdmin(c) ==
  /\ \E o \in {"add", "remove", "list"} : Secured(c, o)
  /\ ~ctx[c].admin
  /\ Reply(c, server, ctx[c], sess[c])
  /\ UNCHANGED store

ByAdmin(c, o) == Secured(c, o) /\ ctx[c].admin

AddPairingNew(c) ==
  /\ ByAdmin(c, "add") /\ ~Found(block, req[c].dev) /\ CanAddPairing(block)
  /\ block' = Added(block, req[c].dev, req[c].admin)
  /\ hasId' = (hasId /\ ~Compacts(block))
  /\ Reply(c, server, ctx[c], sess[c])

AddPairingMaxPeers(c) ==
  /\ ByAdmin(c, "add") /\ ~Found(block, req[c].dev) /\ ~CanAddPairing(block)
  /\ Reply(c, server, ctx[c], sess[c])
  /\ UNCHANGED store

AddPairingUpdate(c) ==
  /\ ByAdmin(c, "add") /\ Found(block, req[c].dev) /\ CanAddPairing(block)
  /\ block' = Updated(block, req[c].dev, req[c].admin)
  /\ hasId' = (hasId /\ ~Compacts(block))
  /\ Reply(c, server, ctx[c], sess[c])

\* homekit_storage_update_pairing returns -2.
AddPairingUpdateFails(c) ==
  /\ ByAdmin(c, "add") /\ Found(block, req[c].dev) /\ ~CanAddPairing(block)
  /\ Reply(c, server, ctx[c], sess[c])
  /\ UNCHANGED store

\* A slip: pair setup is enabled again when the last pairing is gone.
LastPairing(dev) ==
  \A i \in Slot : ~Valid(Removed(block, dev), i)

LastAdmin(dev) ==
  block[Index(block, dev)].admin /\ ~HasAdmin(Removed(block, dev))

\* The sessions verified with the record removed are marked; pair setup is
\* enabled again when the last admin is gone.
RemovePairing(c) ==
  /\ ByAdmin(c, "remove") /\ Found(block, req[c].dev)
  /\ LET i == Index(block, req[c].dev)
         s == IF LastAdmin(req[c].dev) THEN [server EXCEPT !.paired = FALSE] ELSE server
         Marked(x) == IF x.live /\ x.pid = i
                        THEN [x EXCEPT !.disconnect = TRUE] ELSE x
         marked == [k \in Conn |-> Marked(ctx[k])]
     IN  /\ block' = Removed(block, req[c].dev)
         /\ \/ /\ server' = s /\ ctx' = marked
               /\ req' = [req EXCEPT ![c] = NoRequest]
               /\ UNCHANGED <<net, peer, sess>>
            \/ /\ server' = Closed(s, c)
               /\ ctx' = [marked EXCEPT ![c] = NoContext]
               /\ Forget(c)
  /\ UNCHANGED hasId

RemovePairingUnknown(c) ==
  /\ ByAdmin(c, "remove") /\ ~Found(block, req[c].dev)
  /\ Reply(c, server, ctx[c], sess[c])
  /\ UNCHANGED store

ListPairings(c) ==
  /\ ByAdmin(c, "list")
  /\ Reply(c, server, ctx[c], sess[c])
  /\ UNCHANGED store

-----------------------------------------------------------------------------

Serve(c) ==
  \/ Disconnected(c)
  \/ SetupM1Unavailable(c) \/ SetupM1Busy(c) \/ SetupM1(c)
  \/ SetupM3(c) \/ SetupM3WrongCode(c)
  \/ SetupM5(c) \/ SetupM5WriteError(c) \/ SetupM5Full(c)
  \/ VerifyV1(c) \/ VerifyV3(c) \/ VerifyV3Unknown(c)
  \/ NotAdmin(c)
  \/ AddPairingNew(c) \/ AddPairingMaxPeers(c)
  \/ AddPairingUpdate(c) \/ AddPairingUpdateFails(c)
  \/ RemovePairing(c) \/ RemovePairingUnknown(c) \/ ListPairings(c)

\* A slip: preinit only while no client is connected.
LoopPreinitAlone ==
  /\ ~server.paired /\ ~server.saved /\ server.nfds = 0
  /\ server' = Preinit(server)
  /\ UNCHANGED <<ctx, store, network>>

\* arduino_homekit_loop, before it serves the clients.
LoopPreinit ==
  /\ ~server.paired /\ ~server.saved
  /\ server' = Preinit(server)
  /\ UNCHANGED <<ctx, store, network>>

\* homekit_server_reset, called by the sketch: the storage only.
ServerReset ==
  /\ block' = ErasedTable /\ hasId' = FALSE
  /\ UNCHANGED <<server, ctx, network>>

Reboot == RebootWith(block, hasId)

Next ==
  \/ \E c \in Conn : \/ Connect(c)
                     \/ \E r \in MayFollow(sess[c]) : Send(c, r)
                     \/ PeerCloses(c)
                     \/ Accept(c) \/ Reject(c) \/ Serve(c)
  \/ LoopPreinit \/ ServerReset \/ Reboot

Spec == Init /\ [][Next]_vars

(* arduino_homekit_loop is called again and again, and each call runs      *)
(* preinit if it is due, accepts one waiting connection and serves every   *)
(* client.  Nothing is assumed of the controllers.                         *)
Fairness ==
  /\ WF_vars(LoopPreinit)
  /\ \A c \in Conn : WF_vars(Accept(c) \/ Reject(c)) /\ WF_vars(Serve(c))

FairSpec == Spec /\ Fairness

-----------------------------------------------------------------------------
(* Properties.                                                             *)

(* arduino_homekit_connected_clients_count, by which accept_client refuses *)
(* connections, is the number of clients in the list, through every way a  *)
(* connection ends: noticed by the loop or by a write inside a handler.    *)
ClientCount == server.nfds = Cardinality(Clients)

(* server->pairing_context never dangles: its client is connected, and it  *)
(* is the context that preinit saved (both pointers are cleared together). *)
SetupContextOwned ==
  server.owner # NoConn => server.owner \in Clients /\ server.saved

(* Once the accessory is paired no SRP session is left: the verifier of    *)
(* the setup code is freed when pairing completes and is not made again    *)
(* before the last admin is removed.                                       *)
PairedWithoutSetup == server.paired => ~server.saved /\ server.owner = NoConn

(* A handler finds the state its message needs: the pairing context        *)
(* belongs to the client that is between M2 and M6, and the verify context *)
(* is there for V3.  The handlers of M3 and M5 do not test the pointer.    *)
SetupStepOwner ==
  \A c \in Clients :
    /\ ctx[c].step \in {"setup1", "setup2"} \/ req[c].op \in {"M3", "M3bad", "M5"}
         => server.owner = c
    /\ req[c].op = "V3" => ctx[c].verify

(* Events go to clients at step PAIR_VERIFY_2OF2 and frames are encrypted  *)
(* for clients with the encrypted flag: they are the same clients.         *)
SecureSession ==
  \A c \in Clients : ctx[c].encrypted <=> ctx[c].step = "verify2"

(* The pairing_id of a session is never the index of another controller's  *)
(* record, so that remove_pairing marks no session of a controller that    *)
(* stays paired; it holds until a compaction or a storage reset has erased *)
(* the sector, after which indices are given out again (and the id is      *)
(* gone, which hasId tells).                                               *)
SessionPairingId ==
  hasId => \A c \in Clients :
             ctx[c].encrypted /\ Valid(block, ctx[c].pid)
               => block[ctx[c].pid].dev = peer[c]

(* A pair setup under way is not taken over: the pairing context passes    *)
(* from one client to another only by being freed.                         *)
SetupNotTakenOver ==
  [][server.owner # NoConn => server'.owner \in {server.owner, NoConn}]_vars

(* A pairing context held by a controller that has gone away is released,  *)
(* so that the next controller is not refused as busy for ever.            *)
SetupReleased ==
  \A c \in Conn : (server.owner = c /\ net[c] = "closed") ~> server.owner # c

\* The pair setup that has been begun can go on.
UnderWay == server.owner # NoConn /\ net[server.owner] = "open"

(* An accessory that is not paired does not stay without a public key to   *)
(* answer the next M1 with: M3 uses the key up, and wherever a pair setup  *)
(* is given up after that, its context is freed and the loop or the next   *)
(* M1 makes a new one with a new key, unless its controller is still       *)
(* connected.                                                              *)
SetupReopens == []<>(server.paired \/ server.key \/ UnderWay)

(* A pairings request after which no admin is left ends with the accessory *)
(* unpaired, so that it can be set up again: whichever of several records  *)
(* was taken, and unless the last admin was made a member (which leaves    *)
(* the accessory paired with nobody to manage it) or the table was erased. *)
Demoted == \E d \in Device : View(block, d) = "admin" /\ View(block', d) = "member"
NoAdminEnablesPairing ==
  [][HasAdmin(block) /\ ~HasAdmin(block') /\ hasId' /\ ~Demoted
       => ~server'.paired]_vars

(* homekit_client_process includes "stop disconnected client": a client    *)
(* marked for disconnection is closed.                                     *)
RemovedSessionsClose ==
  \A c \in Conn : ctx[c].disconnect ~> ~ctx[c].disconnect

=============================================================================
