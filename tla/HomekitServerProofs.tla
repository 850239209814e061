------------------------ MODULE HomekitServerProofs ------------------------
(***************************************************************************)
(* Proofs about HomekitServer, for every number of connections, clients,   *)
(* controllers and blocks.                                                 *)
(***************************************************************************)
EXTENDS HomekitServer, PairingBlocksProofs, FiniteSetTheorems

(* The parts of the invariant that speak of one connection: what it is to  *)
(* the network and to the server agree, and a controller that can go on    *)
(* with M3 or M5 owns the pairing context, with V3 has a verify context.   *)
Linked(c) ==
  /\ ctx[c].live <=> net[c] \in {"open", "closed"}
  /\ ~ctx[c].live => req[c] = NoRequest /\ sess[c] = "none"
  /\ net[c] = "open" /\ sess[c] \in {"M2", "M4"} => server.owner = c
  /\ net[c] = "open" /\ sess[c] = "V2" => ctx[c].verify

Owners == SetupContextOwned /\ PairedWithoutSetup

Sessions == SetupStepOwner /\ SecureSession /\ \A c \in Conn : Linked(c)

StoreTyped == block \in [Slot -> Block] /\ hasId \in BOOLEAN

Typed ==
  /\ server \in Server
  /\ ctx \in [Conn -> Context]
  /\ net \in [Conn -> {"none", "waiting", "open", "closed"}]
  /\ peer \in [Conn -> Device \cup {NoDevice}]
  /\ req \in [Conn -> Request]
  /\ sess \in [Conn -> Answers]

Inv == Typed /\ ClientCount /\ Owners /\ Sessions

(* What a handler serving c may make of the server (s): it keeps count and *)
(* takes the pairing context only when it is free, frees only its own.     *)
ServerStep(c, s) ==
  /\ s \in Server /\ s.nfds = server.nfds
  /\ \/ s.owner = server.owner
     \/ server.owner = NoConn /\ s.owner = c
     \/ server.owner = c /\ s.owner = NoConn
  /\ s.owner # NoConn => s.saved
  /\ s.paired => ~s.saved /\ s.owner = NoConn

(* ... and of its own context (x) and the answer.                          *)
ContextStep(c, s, x, answer) ==
  /\ x \in Context /\ x.live /\ answer \in Answers
  /\ x.step \in {"setup1", "setup2"} => s.owner = c
  /\ x.encrypted <=> x.step = "verify2"
  /\ net[c] = "open" /\ answer \in {"M2", "M4"} => s.owner = c
  /\ net[c] = "open" /\ answer = "V2" => x.verify

LEMMA NoValues ==
  /\ NoContext \in Context /\ NewContext \in Context /\ NoRequest \in Request
  /\ "none" \in Answers /\ NoContext.live = FALSE /\ NewContext.live = TRUE
  /\ NoRequest.op = "none" /\ NewContext.step = "none" /\ NewContext.encrypted = FALSE
BY DEF NoContext, NewContext, Context, Steps, NoRequest, Simple, Request, Ops,
       Answers, NoPairingId

-----------------------------------------------------------------------------
(* The counter of clients.                                                 *)

LEMMA ClientsFinite == IsFiniteSet(Clients) /\ Clients \subseteq Conn
BY ConnAssumption, FS_Subset DEF Clients

LEMMA ClientServed ==
  ASSUME Typed, ClientCount, NEW c \in Conn, ctx[c].live
  PROVE  server.nfds - 1 \in 0 .. MaxClients
<1>1. c \in Clients
  BY DEF Clients
<1>2. Cardinality(Clients) # 0
  BY <1>1, ClientsFinite, FS_EmptySet
<1> QED BY <1>2, MaxClientsAssumption DEF Typed, Server, ClientCount

LEMMA CountClose ==
  ASSUME Typed, ClientCount, NEW c \in Conn, ctx[c].live,
         server'.nfds = server.nfds - 1,
         \A k \in Conn : ctx'[k].live <=> (k # c /\ ctx[k].live)
  PROVE  ClientCount'
<1>1. c \in Clients /\ Clients' = Clients \ {c}
  BY DEF Clients
<1>2. Cardinality(Clients \ {c}) = Cardinality(Clients) - 1
  BY <1>1, ClientsFinite, FS_RemoveElement
<1> QED BY <1>1, <1>2 DEF ClientCount

LEMMA CountSame ==
  ASSUME ClientCount, server'.nfds = server.nfds,
         \A k \in Conn : ctx'[k].live = ctx[k].live
  PROVE  ClientCount'
<1>1. Clients' = Clients
  BY DEF Clients
<1> QED BY <1>1 DEF ClientCount

-----------------------------------------------------------------------------
(* How a handler ends.  Both ways are stated for contexts that are the     *)
(* same but for fields the invariant does not read, as remove_pairing      *)
(* marks the contexts of other clients.                                    *)

Same(x, y) == /\ x.live = y.live /\ x.step = y.step
              /\ x.encrypted = y.encrypted /\ x.verify = y.verify

LEMMA OwnersStep ==
  ASSUME Typed, Owners, NEW c \in Conn, NEW s, ServerStep(c, s),
         s.owner # NoConn
  PROVE  s.saved /\ ~s.paired /\ s.owner \in Conn
         /\ (s.owner = c \/ s.owner \in Clients)
BY DEF ServerStep, Owners, SetupContextOwned, Server, Clients, Typed

LEMMA AnswerStep ==
  ASSUME Inv, NEW c \in Conn, ctx[c].live,
         NEW s, ServerStep(c, s),
         NEW x, NEW answer, ContextStep(c, s, x, answer),
         server' = s, ctx' \in [Conn -> Context], Same(ctx'[c], x),
         \A k \in Conn \ {c} : Same(ctx'[k], ctx[k]),
         req' = [req EXCEPT ![c] = NoRequest],
         sess' = IF net[c] = "open" THEN [sess EXCEPT ![c] = answer] ELSE sess,
         net' = net, peer' = peer
  PROVE  Inv'
<1> USE DEF Inv, Typed
<1>1. Typed'
  BY NoValues DEF ServerStep, ContextStep
<1>2. \A k \in Conn : ctx'[k].live = ctx[k].live
  BY DEF Same, ContextStep
<1>3. ClientCount'
  BY <1>2, CountSame DEF ServerStep
<1>4. Clients' = Clients /\ c \in Clients /\ Clients \subseteq Conn
  BY <1>2 DEF Clients
<1>5. Owners'
  BY <1>4, OwnersStep DEF Owners, SetupContextOwned, PairedWithoutSetup, ServerStep
<1>6. \A k \in Conn \ {c} : server.owner = k => s.owner = k
  BY NoConnAssumption DEF ServerStep
<1>7. SetupStepOwner'
  <2>1. ASSUME NEW k \in Clients, k # c
        PROVE  /\ ctx'[k].step \in {"setup1", "setup2"} \/ req'[k].op \in {"M3", "M3bad", "M5"}
                    => server'.owner = k
               /\ req'[k].op = "V3" => ctx'[k].verify
    BY <1>4, <1>6, <2>1 DEF Sessions, SetupStepOwner, Same
  <2>2. req'[c].op = "none"
    BY NoValues
  <2>3. ctx'[c].step \in {"setup1", "setup2"} => server'.owner = c
    BY DEF ContextStep, Same
  <2> QED BY <1>4, <2>1, <2>2, <2>3 DEF SetupStepOwner
<1>8. SecureSession'
  BY <1>4 DEF Sessions, SecureSession, ContextStep, Same
<1>9. ASSUME NEW k \in Conn \ {c}
      PROVE  Linked(k)'
  <2>1. req'[k] = req[k] /\ sess'[k] = sess[k] /\ net'[k] = net[k]
    OBVIOUS
  <2> QED BY <1>6, <2>1 DEF Sessions, Linked, Same
<1>10. Linked(c)'
  <2>1. Linked(c)
    BY DEF Sessions
  <2>2. ctx'[c].live /\ net[c] \in {"open", "closed"}
    BY <2>1, <1>2 DEF Linked
  <2>3. net[c] = "open" => sess'[c] = answer
    OBVIOUS
  <2> QED BY <2>2, <2>3 DEF Linked, ContextStep, Same
<1> QED BY <1>1, <1>3, <1>5, <1>7, <1>8, <1>9, <1>10 DEF Sessions

LEMMA CloseStep ==
  ASSUME Inv, NEW c \in Conn, ctx[c].live,
         NEW s, ServerStep(c, s),
         server' = Closed(s, c), ctx' \in [Conn -> Context], ctx'[c] = NoContext,
         \A k \in Conn \ {c} : Same(ctx'[k], ctx[k]),
         Forget(c)
  PROVE  Inv'
<1> USE DEF Inv, Typed
<1>1. /\ server' \in Server /\ server'.nfds = server.nfds - 1
      /\ server'.paired = s.paired
      /\ s.owner = c => server'.owner = NoConn /\ ~server'.saved
      /\ s.owner # c => server'.owner = s.owner /\ server'.saved = s.saved
  BY ClientServed DEF Closed, FreeSetup, Server, ServerStep
<1>2. Typed'
  BY <1>1, NoValues DEF Forget
<1>3. \A k \in Conn : ctx'[k].live <=> (k # c /\ ctx[k].live)
  <2>1. ~ctx'[c].live
    BY NoValues
  <2>2. \A k \in Conn \ {c} : ctx'[k].live = ctx[k].live
    BY DEF Same
  <2> QED BY <2>1, <2>2
<1>4. ClientCount'
  BY <1>1, <1>3, CountClose
<1>5. Clients' = Clients \ {c} /\ Clients \subseteq Conn
  BY <1>3 DEF Clients
<1>6. Owners'
  BY <1>1, <1>5, OwnersStep DEF Owners, SetupContextOwned, PairedWithoutSetup, ServerStep
<1>7. \A k \in Conn \ {c} : server.owner = k => server'.owner = k
  BY <1>1, NoConnAssumption DEF ServerStep
<1>8. ASSUME NEW k \in Conn \ {c}
      PROVE  req'[k] = req[k] /\ sess'[k] = sess[k] /\ net'[k] = net[k]
  BY DEF Forget
<1>9. SetupStepOwner' /\ SecureSession'
  BY <1>5, <1>7, <1>8 DEF Sessions, SetupStepOwner, SecureSession, Same
<1>10. ASSUME NEW k \in Conn \ {c}
       PROVE  Linked(k)'
  BY <1>7, <1>8 DEF Sessions, Linked, Same
<1>11. Linked(c)'
  BY NoValues DEF Linked, Forget
<1> QED BY <1>2, <1>4, <1>6, <1>9, <1>10, <1>11 DEF Sessions

LEMMA ReplyStep ==
  ASSUME Inv, NEW c \in Conn, ctx[c].live,
         NEW s, ServerStep(c, s),
         NEW x, NEW answer, ContextStep(c, s, x, answer),
         Reply(c, s, x, answer)
  PROVE  Inv'
<1> USE DEF Inv, Typed
<1>1. CASE Answer(c, s, x, answer)
  <2>1. ctx' \in [Conn -> Context] /\ Same(ctx'[c], x)
        /\ \A k \in Conn \ {c} : Same(ctx'[k], ctx[k])
    BY <1>1 DEF Answer, Same, ContextStep
  <2> QED BY <1>1, <2>1, AnswerStep DEF Answer
<1>2. CASE Close(c, s)
  <2>1. ctx' \in [Conn -> Context] /\ ctx'[c] = NoContext
        /\ \A k \in Conn \ {c} : Same(ctx'[k], ctx[k])
    BY <1>2, NoValues DEF Close, Same
  <2> QED BY <1>2, <2>1, CloseStep DEF Close
<1> QED BY <1>1, <1>2 DEF Reply

(* A server that has just started.                                         *)
LEMMA BootedServer ==
  ASSUME NEW b
  PROVE  /\ Booted(b) \in Server /\ Booted(b).nfds = 0 /\ Booted(b).owner = NoConn
         /\ Booted(b).paired => ~Booted(b).saved
<1>1. HasAdmin(b) \in BOOLEAN
  BY DEF HasAdmin
<1>2. 0 \in 0 .. MaxClients
  BY MaxClientsAssumption
<1> QED BY <1>1, <1>2 DEF Booted, Preinit, Server

LEMMA BootStep ==
  ASSUME NEW b, server' = Booted(b), ctx' = [c \in Conn |-> NoContext],
         net' = [c \in Conn |-> "none"], peer' = [c \in Conn |-> NoDevice],
         req' = [c \in Conn |-> NoRequest], sess' = [c \in Conn |-> "none"]
  PROVE  Inv'
<1>1. /\ server' \in Server /\ server'.nfds = 0 /\ server'.owner = NoConn
      /\ server'.paired => ~server'.saved
  BY BootedServer
<1>2. Typed'
  BY <1>1, NoValues DEF Typed
<1>3. Clients' = {}
  BY NoValues DEF Clients
<1>4. ClientCount'
  BY <1>1, <1>3, FS_EmptySet DEF ClientCount
<1>5. Owners' /\ SetupStepOwner' /\ SecureSession'
  BY <1>1, <1>3 DEF Owners, SetupContextOwned, PairedWithoutSetup, SetupStepOwner, SecureSession
<1>6. \A c \in Conn : Linked(c)'
  BY NoValues DEF Linked
<1> QED BY <1>2, <1>4, <1>5, <1>6 DEF Inv, Sessions

LEMMA InitInv == Init => Inv
<1> SUFFICES ASSUME Init PROVE Inv
  OBVIOUS
<1> USE DEF Init
<1>1. /\ server \in Server /\ server.nfds = 0 /\ server.owner = NoConn
      /\ server.paired => ~server.saved
  BY BootedServer
<1>2. Typed
  BY <1>1, NoValues DEF Typed
<1>3. Clients = {}
  BY NoValues DEF Clients
<1>4. ClientCount
  BY <1>1, <1>3, FS_EmptySet DEF ClientCount
<1>5. Owners /\ SetupStepOwner /\ SecureSession
  BY <1>1, <1>3 DEF Owners, SetupContextOwned, PairedWithoutSetup, SetupStepOwner, SecureSession
<1>6. \A c \in Conn : Linked(c)
  BY NoValues DEF Linked
<1> QED BY <1>2, <1>4, <1>5, <1>6 DEF Inv, Sessions

-----------------------------------------------------------------------------
(* The handlers.                                                           *)

LEMMA ServerUnchanged ==
  ASSUME Inv, NEW c \in Conn
  PROVE  ServerStep(c, server)
BY DEF Inv, Typed, Owners, SetupContextOwned, PairedWithoutSetup, ServerStep

(* The context as a handler leaves it on a plain connection, at step t.    *)
LEMMA PlainContext ==
  ASSUME Inv, NEW c \in Conn, ctx[c].live, ~ctx[c].encrypted,
         NEW t \in Steps \ {"verify2"}
  PROVE  /\ At(c, t) \in Context /\ At(c, t).live /\ ~At(c, t).encrypted
         /\ At(c, t).step = t /\ At(c, t).verify = ctx[c].verify
BY DEF Inv, Typed, Context, At

(* ... and on a secured one: the pairings handlers do not change it.       *)
LEMMA SecuredContext ==
  ASSUME Inv, NEW c \in Conn, ctx[c].live
  PROVE  ContextStep(c, server, ctx[c], sess[c])
<1>1. c \in Clients
  BY DEF Clients
<1> QED BY <1>1 DEF Inv, Typed, Sessions, SetupStepOwner, SecureSession, Linked, ContextStep

LEMMA SetupInv ==
  ASSUME Inv, NEW c \in Conn,
         \/ SetupM1Unavailable(c) \/ SetupM1Busy(c) \/ SetupM1(c)
         \/ SetupM3(c) \/ SetupM3WrongCode(c)
         \/ SetupM5(c) \/ SetupM5WriteError(c) \/ SetupM5Full(c)
  PROVE  Inv'
<1> USE DEF Plain, Steps, Answers
<1>1. ctx[c].live /\ ~ctx[c].encrypted /\ c \in Clients
  BY DEF SetupM1Unavailable, SetupM1Busy, SetupM1, SetupM3, SetupM3WrongCode,
         SetupM5, SetupM5WriteError, SetupM5Full, Clients
<1>2. Started(c) = At(c, "none")
  BY DEF Started, At
<1>3. ContextStep(c, server, Started(c), "none")
  BY <1>1, <1>2, PlainContext DEF ContextStep
<1>4. CASE SetupM1Unavailable(c) \/ SetupM1Busy(c) \/ SetupM5Full(c)
  BY <1>1, <1>3, <1>4, ServerUnchanged, ReplyStep
     DEF SetupM1Unavailable, SetupM1Busy, SetupM5Full
<1>5. CASE SetupM1(c)
  <2> DEFINE s == IF server.owner = c THEN server
                                      ELSE [Preinit(server) EXCEPT !.owner = c]
             answer == IF s.key THEN "M2" ELSE "nokey"
  <2>1. ServerStep(c, s) /\ s.owner = c
    BY <1>1, <1>5, NoConnAssumption
       DEF SetupM1, Preinit, ServerStep, Server, Inv, Typed, Owners, SetupContextOwned, PairedWithoutSetup
  <2>2. ContextStep(c, s, At(c, "setup1"), answer)
    BY <1>1, <2>1, PlainContext DEF ContextStep
  <2>3. Reply(c, s, At(c, "setup1"), answer)
    BY <1>5 DEF SetupM1
  <2> HIDE DEF s, answer
  <2> QED BY <1>1, <2>1, <2>2, <2>3, ReplyStep
<1>6. CASE SetupM3(c) \/ SetupM3WrongCode(c)
  <2> DEFINE s == [server EXCEPT !.key = FALSE]
  <2>1. s.owner = c
    BY <1>1, <1>6 DEF SetupM3, SetupM3WrongCode, Inv, Typed, Server, Sessions, SetupStepOwner
  <2>2. ServerStep(c, s)
    BY DEF ServerStep, Server, Inv, Typed, Owners, SetupContextOwned, PairedWithoutSetup
  <2>3. ContextStep(c, s, At(c, "setup2"), "M4") /\ ContextStep(c, s, Started(c), "none")
    BY <1>1, <1>2, <2>1, PlainContext DEF ContextStep
  <2>4. Reply(c, s, At(c, "setup2"), "M4") \/ Reply(c, s, Started(c), "none")
    BY <1>6 DEF SetupM3, SetupM3WrongCode
  <2> HIDE DEF s
  <2> QED BY <1>1, <2>2, <2>3, <2>4, ReplyStep
<1>7. CASE SetupM5(c)
  <2> DEFINE s == [FreeSetup(server) EXCEPT !.paired = TRUE]
  <2>1. server.owner = c
    BY <1>1, <1>7 DEF SetupM5, Inv, Sessions, SetupStepOwner
  <2>2. ServerStep(c, s)
    BY <2>1 DEF ServerStep, FreeSetup, Server, Inv, Typed
  <2>3. ContextStep(c, s, At(c, "setup3"), "M6")
    BY <1>1, PlainContext DEF ContextStep
  <2>4. Reply(c, s, At(c, "setup3"), "M6")
    BY <1>7 DEF SetupM5, Reply
  <2> HIDE DEF s
  <2> QED BY <1>1, <2>2, <2>3, <2>4, ReplyStep
<1>8. CASE SetupM5WriteError(c)
  BY <1>8, BootStep DEF SetupM5WriteError, RebootWith
<1> QED BY <1>4, <1>5, <1>6, <1>7, <1>8

LEMMA VerifyInv ==
  ASSUME Inv, StoreTyped, NEW c \in Conn,
         VerifyV1(c) \/ VerifyV3(c) \/ VerifyV3Unknown(c)
  PROVE  Inv'
<1> USE DEF Plain, Steps, Answers
<1>1. ctx[c].live /\ ~ctx[c].encrypted /\ ServerStep(c, server)
  BY ServerUnchanged DEF VerifyV1, VerifyV3, VerifyV3Unknown
<1>2. ctx[c] \in Context
  BY DEF Inv, Typed
<1>3. CASE VerifyV1(c)
  <2> DEFINE x == [At(c, "verify1") EXCEPT !.verify = TRUE]
  <2>1. ContextStep(c, server, x, "V2")
    BY <1>1, <1>2 DEF At, ContextStep, Context
  <2> HIDE DEF x
  <2> QED BY <1>1, <1>3, <2>1, ReplyStep DEF VerifyV1, x
<1>4. CASE VerifyV3(c)
  <2> DEFINE i == Index(block, peer[c])
             x == [At(c, "verify2") EXCEPT !.verify = FALSE, !.encrypted = TRUE,
                                           !.pid = i, !.admin = block[i].admin]
  <2>1. i \in Slot /\ block[i].admin \in BOOLEAN
    BY <1>4, IndexIsFirst DEF VerifyV3, Holding, StoreTyped, Block
  <2> HIDE DEF i
  <2>2. ContextStep(c, server, x, "secure")
    BY <1>1, <1>2, <2>1 DEF At, ContextStep, Context
  <2>3. Reply(c, server, x, "secure")
    BY <1>4 DEF VerifyV3, i
  <2> HIDE DEF x
  <2> QED BY <1>1, <2>2, <2>3, ReplyStep
<1>5. CASE VerifyV3Unknown(c)
  <2> DEFINE x == [Started(c) EXCEPT !.verify = FALSE]
  <2>1. ContextStep(c, server, x, "none")
    BY <1>1, <1>2 DEF Started, ContextStep, Context
  <2>2. Reply(c, server, x, "none")
    BY <1>5 DEF VerifyV3Unknown
  <2> HIDE DEF x
  <2> QED BY <1>1, <2>1, <2>2, ReplyStep
<1> QED BY <1>3, <1>4, <1>5

LEMMA PairingsInv ==
  ASSUME Inv, NEW c \in Conn,
         \/ NotAdmin(c) \/ AddPairingNew(c) \/ AddPairingMaxPeers(c)
         \/ AddPairingUpdate(c) \/ AddPairingUpdateFails(c)
         \/ RemovePairing(c) \/ RemovePairingUnknown(c) \/ ListPairings(c)
  PROVE  Inv'
<1>1. ctx[c].live
  BY DEF NotAdmin, AddPairingNew, AddPairingMaxPeers, AddPairingUpdate,
         AddPairingUpdateFails, RemovePairing, RemovePairingUnknown, ListPairings,
         ByAdmin, Secured
<1>2. ServerStep(c, server) /\ ContextStep(c, server, ctx[c], sess[c])
  BY <1>1, ServerUnchanged, SecuredContext
<1>3. CASE ~RemovePairing(c)
  <2>1. Reply(c, server, ctx[c], sess[c])
    BY <1>3 DEF NotAdmin, AddPairingNew, AddPairingMaxPeers, AddPairingUpdate,
                AddPairingUpdateFails, RemovePairingUnknown, ListPairings
  <2> QED BY <1>1, <1>2, <2>1, ReplyStep
<1>4. CASE RemovePairing(c)
  <2> DEFINE i == Index(block, req[c].dev)
             s == IF LastAdmin(req[c].dev) THEN [server EXCEPT !.paired = FALSE] ELSE server
             Marked(x) == IF x.live /\ x.pid = i
                            THEN [x EXCEPT !.disconnect = TRUE] ELSE x
             marked == [k \in Conn |-> Marked(ctx[k])]
  <2>1. ServerStep(c, s)
    BY <1>2 DEF ServerStep, Server
  <2>2. marked \in [Conn -> Context] /\ \A k \in Conn : Same(marked[k], ctx[k])
    <3> HIDE DEF i
    <3>1. ASSUME NEW k \in Conn
          PROVE  Marked(ctx[k]) \in Context /\ Same(Marked(ctx[k]), ctx[k])
      <4>1. ctx[k] \in Context
        BY DEF Inv, Typed
      <4>2. CASE ~(ctx[k].live /\ ctx[k].pid = i)
        BY <4>1, <4>2 DEF Same
      <4>3. CASE ctx[k].live /\ ctx[k].pid = i
        <5>1. Marked(ctx[k]) = [ctx[k] EXCEPT !.disconnect = TRUE]
          BY <4>3
        <5> QED BY <4>1, <5>1 DEF Context, Same
      <4> QED BY <4>2, <4>3
    <3> HIDE DEF Marked
    <3> QED BY <3>1
  <2>3. s.owner = server.owner
    BY DEF Inv, Typed, Server
  <2>4. ContextStep(c, s, ctx[c], sess[c])
    BY <1>2, <2>3 DEF ContextStep
  <2>5. \/ /\ server' = s /\ ctx' = marked
           /\ req' = [req EXCEPT ![c] = NoRequest]
           /\ UNCHANGED <<net, peer, sess>>
        \/ /\ server' = Closed(s, c)
           /\ ctx' = [marked EXCEPT ![c] = NoContext]
           /\ Forget(c)
    BY <1>4 DEF RemovePairing
  <2> HIDE DEF s, marked
  <2>6. CASE /\ server' = s /\ ctx' = marked
             /\ req' = [req EXCEPT ![c] = NoRequest]
             /\ UNCHANGED <<net, peer, sess>>
    <3>1. sess' = IF net[c] = "open" THEN [sess EXCEPT ![c] = sess[c]] ELSE sess
      BY <2>6 DEF Inv, Typed
    <3> QED BY <1>1, <2>1, <2>2, <2>4, <2>6, <3>1, AnswerStep
  <2>7. CASE /\ server' = Closed(s, c)
             /\ ctx' = [marked EXCEPT ![c] = NoContext]
             /\ Forget(c)
    <3>1. ctx' \in [Conn -> Context] /\ ctx'[c] = NoContext
          /\ \A k \in Conn \ {c} : Same(ctx'[k], ctx[k])
      BY <2>2, <2>7, NoValues
    <3> QED BY <1>1, <2>1, <2>7, <3>1, CloseStep
  <2> QED BY <2>5, <2>6, <2>7
<1> QED BY <1>3, <1>4

-----------------------------------------------------------------------------
(* The controllers, accepting and closing.                                 *)

LEMMA SimpleTyped ==
  \A o \in Ops : Simple(o) \in Request /\ Simple(o).op = o
BY DEF Simple, Request

LEMMA MayFollowTyped ==
  ASSUME NEW answer, NEW r \in MayFollow(answer)
  PROVE  /\ r \in Request
         /\ r.op \in {"M3", "M3bad"} => answer = "M2"
         /\ r.op = "M5" => answer = "M4"
         /\ r.op = "V3" => answer = "V2"
<1>1. CASE answer = "secure"
  <2>1. MayFollow(answer) = [op : {"add"}, dev : Device, admin : BOOLEAN]
                            \cup [op : {"remove"}, dev : Device, admin : {FALSE}]
                            \cup {Simple("list")}
    BY <1>1 DEF MayFollow
  <2>2. CASE r = Simple("list")
    BY <2>2, SimpleTyped DEF Ops
  <2>3. CASE r # Simple("list")
    BY <2>1, <2>3 DEF Request, Ops
  <2> QED BY <2>2, <2>3
<1>2. CASE answer # "secure"
  <2>1. \/ r = Simple("M1") \/ r = Simple("V1")
        \/ answer = "M2" /\ (r = Simple("M3") \/ r = Simple("M3bad"))
        \/ answer = "M4" /\ r = Simple("M5")
        \/ answer = "V2" /\ r = Simple("V3")
    BY <1>2 DEF MayFollow
  <2> QED BY <2>1, SimpleTyped DEF Ops
<1> QED BY <1>1, <1>2

LEMMA NetworkInv ==
  ASSUME Inv, NEW c \in Conn,
         \/ Connect(c) \/ (\E r \in MayFollow(sess[c]) : Send(c, r))
         \/ PeerCloses(c) \/ Reject(c)
  PROVE  Inv'
<1> USE DEF Inv, Typed
<1>1. server' = server /\ ctx' = ctx /\ Clients' = Clients
  BY DEF Connect, Send, PeerCloses, Reject, Clients
<1>2. ClientCount' /\ Owners' /\ SecureSession'
  BY <1>1 DEF ClientCount, Owners, SetupContextOwned, PairedWithoutSetup, SecureSession, Sessions
<1>3. ASSUME NEW r \in MayFollow(sess[c]), Send(c, r)
      PROVE  Inv'
  <2>1. Typed'
    BY <1>1, <1>3, MayFollowTyped DEF Send
  <2>2. net[c] = "open" /\ c \in Clients
    BY <1>3 DEF Send, Clients, Sessions, Linked
  <2>3. /\ r.op \in {"M3", "M3bad", "M5"} => server.owner = c
        /\ r.op = "V3" => ctx[c].verify
    BY <2>2, MayFollowTyped DEF Sessions, Linked
  <2>4. req' = [req EXCEPT ![c] = r] /\ net' = net /\ sess' = sess
    BY <1>3 DEF Send
  <2>5. SetupStepOwner'
    <3>1. req'[c] = r /\ \A k \in Conn \ {c} : req'[k] = req[k]
      BY <2>4
    <3>2. ctx[c].step \in {"setup1", "setup2"} => server.owner = c
      BY <2>2 DEF Sessions, SetupStepOwner
    <3> QED BY <1>1, <2>3, <3>1, <3>2 DEF Sessions, SetupStepOwner, Clients
  <2>6. \A k \in Conn : Linked(k)'
    BY <1>1, <2>2, <2>4 DEF Sessions, Linked, Clients
  <2> QED BY <1>2, <2>1, <2>5, <2>6 DEF Sessions
<1>4. CASE Connect(c) \/ PeerCloses(c)
  <2>1. Typed'
    BY <1>1, <1>4 DEF Connect, PeerCloses
  <2>2. SetupStepOwner'
    BY <1>1, <1>4 DEF Connect, PeerCloses, Sessions, SetupStepOwner
  <2>3. \A k \in Conn : Linked(k)'
    BY <1>1, <1>4 DEF Connect, PeerCloses, Sessions, Linked
  <2> QED BY <1>2, <2>1, <2>2, <2>3 DEF Sessions
<1>5. CASE Reject(c)
  <2>1. Typed'
    BY <1>1, <1>5, NoValues DEF Reject, Forget
  <2>2. ~ctx[c].live
    BY <1>5 DEF Reject, Sessions, Linked
  <2>3. SetupStepOwner'
    BY <1>1, <1>5, <2>2 DEF Reject, Forget, Sessions, SetupStepOwner, Clients
  <2>4. \A k \in Conn : Linked(k)'
    BY <1>1, <1>5, <2>2, NoValues DEF Reject, Forget, Sessions, Linked
  <2> QED BY <1>2, <2>1, <2>3, <2>4 DEF Sessions
<1> QED BY <1>3, <1>4, <1>5

LEMMA AcceptInv ==
  ASSUME Inv, NEW c \in Conn, Accept(c)
  PROVE  Inv'
<1> USE DEF Inv, Typed
<1>1. ~ctx[c].live /\ req[c] = NoRequest /\ sess[c] = "none"
  BY DEF Accept, Sessions, Linked
<1>2. /\ server' \in Server /\ server'.nfds = server.nfds + 1
      /\ server'.owner = server.owner /\ server'.saved = server.saved
      /\ server'.paired = server.paired
  BY MaxClientsAssumption DEF Accept, Server
<1>3. Typed'
  BY <1>2, NoValues DEF Accept
<1>4. ctx'[c] = NewContext /\ \A k \in Conn \ {c} : ctx'[k] = ctx[k]
  BY DEF Accept
<1>5. Clients' = Clients \cup {c} /\ c \notin Clients
  BY <1>1, <1>4, NoValues DEF Clients
<1>6. ClientCount'
  <2>1. Cardinality(Clients \cup {c}) = Cardinality(Clients) + 1
    BY <1>5, ClientsFinite, FS_AddElement
  <2> QED BY <1>2, <1>5, <2>1 DEF ClientCount
<1>7. Owners'
  BY <1>2, <1>5 DEF Owners, SetupContextOwned, PairedWithoutSetup
<1>8. SetupStepOwner' /\ SecureSession'
  <2>1. req' = req
    BY DEF Accept
  <2> QED BY <1>1, <1>2, <1>4, <1>5, <2>1, NoValues
          DEF Sessions, SetupStepOwner, SecureSession, Clients
<1>9. ASSUME NEW k \in Conn
      PROVE  Linked(k)'
  <2>1. req'[k] = req[k] /\ sess'[k] = sess[k]
    BY DEF Accept
  <2>2. CASE k = c
    BY <1>1, <1>4, <2>1, <2>2, NoValues DEF Accept, Linked
  <2>3. CASE k # c
    BY <1>2, <1>4, <2>1, <2>3 DEF Accept, Linked, Sessions
  <2> QED BY <2>2, <2>3
<1> QED BY <1>3, <1>6, <1>7, <1>8, <1>9 DEF Sessions

LEMMA DisconnectedInv ==
  ASSUME Inv, NEW c \in Conn, Disconnected(c)
  PROVE  Inv'
<1>1. ctx[c].live /\ ServerStep(c, server) /\ Close(c, server)
  BY ServerUnchanged DEF Disconnected
<1>2. ctx' \in [Conn -> Context] /\ ctx'[c] = NoContext
      /\ \A k \in Conn \ {c} : Same(ctx'[k], ctx[k])
  BY <1>1, NoValues DEF Close, Same, Inv, Typed
<1> QED BY <1>1, <1>2, CloseStep DEF Close

LEMMA LoopPreinitInv ==
  ASSUME Inv, LoopPreinit
  PROVE  Inv'
<1> USE DEF Inv, Typed
<1>1. /\ server' \in Server /\ server'.saved /\ ~server'.paired
      /\ server'.owner = server.owner /\ server'.nfds = server.nfds
  BY DEF LoopPreinit, Preinit, Server
<1>2. UNCHANGED <<ctx, net, peer, req, sess>> /\ Clients' = Clients
  BY DEF LoopPreinit, network, Clients
<1>3. Typed' /\ ClientCount' /\ Owners'
  BY <1>1, <1>2 DEF ClientCount, Owners, SetupContextOwned, PairedWithoutSetup
<1>4. Sessions'
  BY <1>1, <1>2 DEF Sessions, SetupStepOwner, SecureSession, Linked
<1> QED BY <1>3, <1>4

-----------------------------------------------------------------------------
(* The storage under the handlers keeps its type.                          *)

LEMMA TablesTyped ==
  ASSUME StoreTyped
  PROVE  /\ ErasedTable \in [Slot -> Block]
         /\ \A d \in Device \cup {NoDevice}, a \in BOOLEAN :
              Added(block, d, a) \in [Slot -> Block] /\ Updated(block, d, a) \in [Slot -> Block]
         /\ \A d : Removed(block, d) \in [Slot -> Block]
<1>1. ErasedTable \in [Slot -> Block] /\ Room(block) \in [Slot -> Block]
  BY BlockTypes DEF ErasedTable, Room, StoreTyped
<1>2. \A d \in Device \cup {NoDevice}, a \in BOOLEAN : Added(block, d, a) \in [Slot -> Block]
  BY <1>1, BlockTypes DEF Added
<1>3. \A d \in Device \cup {NoDevice}, a \in BOOLEAN : Updated(block, d, a) \in [Slot -> Block]
  BY <1>2, BlockTypes DEF Updated
<1>4. \A d : Removed(block, d) \in [Slot -> Block]
  BY BlockTypes DEF Removed, StoreTyped
<1> QED BY <1>1, <1>2, <1>3, <1>4

LEMMA CompactsBoolean == Compacts(block) \in BOOLEAN
BY DEF Compacts

LEMMA StoreInv ==
  ASSUME Inv, StoreTyped, [Next]_vars
  PROVE  StoreTyped'
<1> USE DEF store
<1>1. ASSUME NEW c \in Conn, SetupM5(c) \/ SetupM5WriteError(c)
      PROVE  StoreTyped'
  <2>1. peer[c] \in Device \cup {NoDevice}
    BY DEF Inv, Typed
  <2>2. Added(block, peer[c], TRUE) \in [Slot -> Block] /\ ErasedTable \in [Slot -> Block]
    BY <2>1, TablesTyped
  <2> QED BY <1>1, <2>2, CompactsBoolean
          DEF SetupM5, SetupM5WriteError, RebootWith, StoreTyped
<1>2. ASSUME NEW c \in Conn, AddPairingNew(c) \/ AddPairingUpdate(c)
      PROVE  StoreTyped'
  <2>1. req[c].dev \in Device \cup {NoDevice} /\ req[c].admin \in BOOLEAN
    BY DEF Inv, Typed, Request
  <2>2. Added(block, req[c].dev, req[c].admin) \in [Slot -> Block]
        /\ Updated(block, req[c].dev, req[c].admin) \in [Slot -> Block]
    BY <2>1, TablesTyped
  <2> QED BY <1>2, <2>2, CompactsBoolean DEF AddPairingNew, AddPairingUpdate, StoreTyped
<1>3. ASSUME NEW c \in Conn, RemovePairing(c)
      PROVE  StoreTyped'
  BY <1>3, TablesTyped DEF RemovePairing, StoreTyped
<1>4. CASE ServerReset \/ Reboot
  BY <1>4, TablesTyped DEF ServerReset, Reboot, RebootWith, StoreTyped
<1>5. ASSUME NEW c \in Conn,
             \/ SetupM1Unavailable(c) \/ SetupM1Busy(c) \/ SetupM1(c)
             \/ SetupM3(c) \/ SetupM3WrongCode(c) \/ SetupM5Full(c)
             \/ VerifyV1(c) \/ VerifyV3(c) \/ VerifyV3Unknown(c)
      PROVE  StoreTyped'
  BY <1>5 DEF SetupM1Unavailable, SetupM1Busy, SetupM1, SetupM3, SetupM3WrongCode,
              SetupM5Full, VerifyV1, VerifyV3, VerifyV3Unknown, StoreTyped
<1>6. ASSUME NEW c \in Conn,
             \/ NotAdmin(c) \/ AddPairingMaxPeers(c) \/ AddPairingUpdateFails(c)
             \/ RemovePairingUnknown(c) \/ ListPairings(c) \/ Disconnected(c)
      PROVE  StoreTyped'
  BY <1>6 DEF NotAdmin, AddPairingMaxPeers, AddPairingUpdateFails,
              RemovePairingUnknown, ListPairings, Disconnected, StoreTyped
<1>7. ASSUME NEW c \in Conn,
             \/ Connect(c) \/ (\E r \in MayFollow(sess[c]) : Send(c, r))
             \/ PeerCloses(c) \/ Accept(c) \/ Reject(c)
      PROVE  StoreTyped'
  BY <1>7 DEF Connect, Send, PeerCloses, Accept, Reject, StoreTyped
<1>8. CASE LoopPreinit \/ UNCHANGED vars
  BY <1>8 DEF LoopPreinit, vars, StoreTyped
<1> QED BY <1>1, <1>2, <1>3, <1>4, <1>5, <1>6, <1>7, <1>8 DEF Next, Serve

LEMMA NextInv ==
  ASSUME Inv, StoreTyped, [Next]_vars
  PROVE  Inv'
<1>1. ASSUME NEW c \in Conn, Serve(c)
      PROVE  Inv'
  BY <1>1, DisconnectedInv, SetupInv, VerifyInv, PairingsInv DEF Serve
<1>2. ASSUME NEW c \in Conn,
             \/ Connect(c) \/ (\E r \in MayFollow(sess[c]) : Send(c, r))
             \/ PeerCloses(c) \/ Reject(c)
      PROVE  Inv'
  BY <1>2, NetworkInv
<1>3. ASSUME NEW c \in Conn, Accept(c)
      PROVE  Inv'
  BY <1>3, AcceptInv
<1>4. CASE LoopPreinit
  BY <1>4, LoopPreinitInv
<1>5. CASE ServerReset \/ UNCHANGED vars
  <2>1. UNCHANGED <<server, ctx, net, peer, req, sess>>
    BY <1>5 DEF ServerReset, network, vars
  <2> QED BY <2>1 DEF Inv, Typed, ClientCount, Clients, Owners, SetupContextOwned,
                      PairedWithoutSetup, Sessions, SetupStepOwner, SecureSession, Linked
<1>6. CASE Reboot
  BY <1>6, BootStep DEF Reboot, RebootWith
<1> QED BY <1>1, <1>2, <1>3, <1>4, <1>5, <1>6 DEF Next

LEMMA InvInductive == Spec => [](Inv /\ StoreTyped)
<1>1. Init => Inv /\ StoreTyped
  BY InitInv, BlockTypes DEF Init, StoreTyped, ErasedTable
<1>2. Inv /\ StoreTyped /\ [Next]_vars => (Inv /\ StoreTyped)'
  BY NextInv, StoreInv
<1> QED BY <1>1, <1>2, PTL DEF Spec

-----------------------------------------------------------------------------

(* Every reachable state is well typed: the counter of clients stays       *)
(* within HOMEKIT_MAX_CLIENTS and a session's pairing_id is an index.      *)
THEOREM TypeCorrect == Spec => []TypeOK
<1>1. Inv /\ StoreTyped => TypeOK
  BY DEF Inv, Typed, StoreTyped, TypeOK
<1> QED BY <1>1, InvInductive, PTL

(* The counter by which connections are refused counts the clients, for    *)
(* any number of connections, however each of them ends.                   *)
THEOREM CountsClients == Spec => []ClientCount
<1>1. Inv => ClientCount
  BY DEF Inv
<1> QED BY <1>1, InvInductive, PTL

(* The pairing context's client is connected, whichever way clients end.   *)
THEOREM SetupContext == Spec => []SetupContextOwned
<1>1. Inv => SetupContextOwned
  BY DEF Inv, Owners
<1> QED BY <1>1, InvInductive, PTL

(* No pairing context, and with it no verifier of the setup code, is left  *)
(* once the accessory is paired.                                           *)
THEOREM PairedHasNoSetup == Spec => []PairedWithoutSetup
<1>1. Inv => PairedWithoutSetup
  BY DEF Inv, Owners
<1> QED BY <1>1, InvInductive, PTL

(* The handlers of M3, M5 and V3 find the context they use without testing *)
(* the pointer.                                                            *)
THEOREM HandlersFindContext == Spec => []SetupStepOwner
<1>1. Inv => SetupStepOwner
  BY DEF Inv, Sessions
<1> QED BY <1>1, InvInductive, PTL

(* Clients that get events are the clients whose frames are encrypted.     *)
THEOREM EventsAreEncrypted == Spec => []SecureSession
<1>1. Inv => SecureSession
  BY DEF Inv, Sessions
<1> QED BY <1>1, InvInductive, PTL

-----------------------------------------------------------------------------
(* The pairing context is not taken over.                                  *)

LEMMA ReplyOwner ==
  ASSUME Typed, NEW c \in Conn, NEW s \in Server, NEW x, NEW answer,
         s.owner \in {server.owner, NoConn}, Reply(c, s, x, answer)
  PROVE  server'.owner \in {server.owner, NoConn}
<1>1. Closed(s, c).owner \in {s.owner, NoConn}
  BY DEF Closed, FreeSetup, Server
<1> QED BY <1>1 DEF Reply, Answer, Close

LEMMA OwnerKept ==
  ASSUME Typed, [Next]_vars, server.owner # NoConn
  PROVE  server'.owner \in {server.owner, NoConn}
<1> USE DEF Typed
<1>1. ASSUME NEW c \in Conn,
             \/ SetupM1Unavailable(c) \/ SetupM1Busy(c) \/ SetupM5Full(c)
             \/ VerifyV1(c) \/ VerifyV3(c) \/ VerifyV3Unknown(c)
             \/ NotAdmin(c) \/ AddPairingNew(c) \/ AddPairingMaxPeers(c)
             \/ AddPairingUpdate(c) \/ AddPairingUpdateFails(c)
             \/ RemovePairingUnknown(c) \/ ListPairings(c)
      PROVE  server'.owner \in {server.owner, NoConn}
  <2>1. \E x, answer : Reply(c, server, x, answer)
    BY <1>1 DEF SetupM1Unavailable, SetupM1Busy, SetupM5Full, VerifyV1, VerifyV3,
       VerifyV3Unknown, NotAdmin, AddPairingNew, AddPairingMaxPeers, AddPairingUpdate,
       AddPairingUpdateFails, RemovePairingUnknown, ListPairings
  <2> QED BY <2>1, ReplyOwner
<1>2. ASSUME NEW c \in Conn, SetupM1(c)
      PROVE  server'.owner \in {server.owner, NoConn}
  <2>1. server.owner = c
    BY <1>2 DEF SetupM1
  <2>2. \E x, answer : Reply(c, server, x, answer)
    BY <1>2, <2>1 DEF SetupM1
  <2> QED BY <2>2, ReplyOwner
<1>3. ASSUME NEW c \in Conn, SetupM3(c) \/ SetupM3WrongCode(c)
      PROVE  server'.owner \in {server.owner, NoConn}
  <2> DEFINE s == [server EXCEPT !.key = FALSE]
  <2>1. s \in Server /\ s.owner = server.owner
    BY DEF Server
  <2>2. \E x, answer : Reply(c, s, x, answer)
    BY <1>3 DEF SetupM3, SetupM3WrongCode
  <2> HIDE DEF s
  <2> QED BY <2>1, <2>2, ReplyOwner
<1>4. ASSUME NEW c \in Conn, SetupM5(c)
      PROVE  server'.owner \in {server.owner, NoConn}
  BY <1>4 DEF SetupM5, Answer, FreeSetup, Server
<1>5. ASSUME NEW c \in Conn, RemovePairing(c)
      PROVE  server'.owner \in {server.owner, NoConn}
  <2>1. PICK s \in {server, [server EXCEPT !.paired = FALSE]} :
          server' = s \/ server' = Closed(s, c)
    BY <1>5 DEF RemovePairing
  <2>2. s \in Server /\ s.owner = server.owner
    BY DEF Server
  <2>3. Closed(s, c).owner \in {s.owner, NoConn}
    BY <2>2 DEF Closed, FreeSetup, Server
  <2> QED BY <2>1, <2>2, <2>3
<1>6. ASSUME NEW c \in Conn, Disconnected(c)
      PROVE  server'.owner \in {server.owner, NoConn}
  BY <1>6 DEF Disconnected, Close, Closed, FreeSetup, Server
<1>7. (Reboot \/ \E c \in Conn : SetupM5WriteError(c)) => server'.owner = NoConn
  BY BootedServer DEF Reboot, SetupM5WriteError, RebootWith
<1>8. ASSUME NEW c \in Conn,
             \/ Connect(c) \/ (\E r \in MayFollow(sess[c]) : Send(c, r))
             \/ PeerCloses(c) \/ Accept(c) \/ Reject(c)
      PROVE  server'.owner = server.owner
  BY <1>8 DEF Connect, Send, PeerCloses, Accept, Reject, Server
<1>9. LoopPreinit \/ ServerReset \/ UNCHANGED vars => server'.owner = server.owner
  BY DEF LoopPreinit, Preinit, ServerReset, vars, Server
<1> QED
  BY <1>1, <1>2, <1>3, <1>4, <1>5, <1>6, <1>7, <1>8, <1>9 DEF Next, Serve

(* A pair setup under way is not taken over by another connection, however *)
(* many there are: its pairing context is only ever freed.                 *)
THEOREM NotTakenOver == Spec => SetupNotTakenOver
<1>1. Inv /\ [Next]_vars
        => [server.owner # NoConn => server'.owner \in {server.owner, NoConn}]_vars
  BY OwnerKept DEF Inv
<1> QED BY <1>1, InvInductive, PTL DEF Spec, SetupNotTakenOver

-----------------------------------------------------------------------------
(* A session's pairing_id.  While the sector has not been erased the block *)
(* of a session is never erased: it holds the controller's record or,      *)
(* after a removal or an update, zeroes.                                   *)

SessionBlock(c) ==
  ctx[c].encrypted => /\ block[ctx[c].pid].magic # "erased"
                      /\ Valid(block, ctx[c].pid) => block[ctx[c].pid].dev = peer[c]
                      /\ ctx[c].pid \in Slot

SessionBlocks == hasId => \A c \in Clients : SessionBlock(c)

(* A handler that does not erase the sector leaves such a block alone or   *)
(* zeroes it.                                                              *)
LEMMA BlocksWritten ==
  ASSUME StoreTyped, NEW d, NEW a, NEW i \in Slot, block[i].magic # "erased",
         ~Compacts(block)
  PROVE  /\ Added(block, d, a)[i] = block[i]
         /\ Updated(block, d, a)[i] \in {block[i], ZeroedBlock}
<1>1. block \in [Slot -> Block]
  BY DEF StoreTyped
<1>2. Room(block) = block
  BY DEF Room
<1>3. FirstErased(block) # i
  <2>1. \E j \in Slot : FirstEmpty(block, j)
    BY FirstEmptyExists DEF Compacts
  <2>2. FirstEmpty(block, FirstErased(block))
    BY <2>1 DEF FirstErased
  <2> QED BY <2>2 DEF FirstEmpty, FirstOf, EmptyBlocks
<1>4. Added(block, d, a)[i] = block[i] /\ Added(block, d, a) \in [Slot -> Block \cup {Record(d, a)}]
  BY <1>1, <1>2, <1>3 DEF Added
<1>5. Updated(block, d, a)[i] \in {block[i], ZeroedBlock}
  BY <1>4 DEF Updated
<1> QED BY <1>4, <1>5

\* The same of a step that adds or updates a record and keeps the id.
LEMMA Writes ==
  ASSUME StoreTyped, NEW d, NEW a, hasId' => hasId /\ ~Compacts(block),
         block' = Added(block, d, a) \/ block' = Updated(block, d, a)
  PROVE  hasId' => hasId /\ \A i \in Slot : block[i].magic # "erased"
                                           => block'[i] \in {block[i], ZeroedBlock}
<1> SUFFICES ASSUME hasId', NEW i \in Slot, block[i].magic # "erased"
             PROVE  block'[i] \in {block[i], ZeroedBlock}
  OBVIOUS
<1>1. /\ Added(block, d, a)[i] = block[i]
      /\ Updated(block, d, a)[i] \in {block[i], ZeroedBlock}
  BY BlocksWritten
<1> QED BY <1>1

(* No session begins, and those that go on keep their block and peer.      *)
SessionsGoOn ==
  \A c \in Clients' : ctx'[c].encrypted =>
    c \in Clients /\ ctx[c].encrypted /\ ctx'[c].pid = ctx[c].pid
    /\ peer'[c] = peer[c]

(* What a step must show to keep the sessions' blocks.                     *)
LEMMA SessionBlocksStep ==
  ASSUME SessionBlocks, StoreTyped, hasId' => hasId,
         hasId' => \A i \in Slot : block[i].magic # "erased"
                                     => block'[i] \in {block[i], ZeroedBlock},
         SessionsGoOn
  PROVE  SessionBlocks'
<1> SUFFICES ASSUME hasId', NEW c \in Clients', ctx'[c].encrypted
             PROVE  SessionBlock(c)'
  BY DEF SessionBlocks, SessionBlock
<1> DEFINE i == ctx[c].pid
<1>1. c \in Clients /\ ctx[c].encrypted /\ ctx'[c].pid = i /\ peer'[c] = peer[c]
  BY DEF SessionsGoOn
<1>2. i \in Slot /\ block[i].magic # "erased" /\ (Valid(block, i) => block[i].dev = peer[c])
  BY <1>1 DEF SessionBlocks, SessionBlock
<1>3. block'[i] \in {block[i], ZeroedBlock}
  BY <1>2
<1> HIDE DEF i
<1> QED BY <1>1, <1>2, <1>3 DEF SessionBlock, Valid, ZeroedBlock

LEMMA ReplyGoesOn ==
  ASSUME Inv, NEW c \in Conn, ctx[c].live, NEW s, NEW x, NEW answer,
         x.encrypted => ctx[c].encrypted /\ x.pid = ctx[c].pid,
         Reply(c, s, x, answer)
  PROVE  SessionsGoOn
<1> USE DEF Inv, Typed
<1>1. CASE Answer(c, s, x, answer)
  BY <1>1 DEF Answer, SessionsGoOn, Clients
<1>2. CASE Close(c, s)
  <2>1. ctx'[c].live = FALSE
    BY <1>2, NoValues DEF Close
  <2> QED BY <1>2, <2>1 DEF Close, Forget, SessionsGoOn, Clients
<1> QED BY <1>1, <1>2 DEF Reply

LEMMA SessionBlocksNext ==
  ASSUME Inv, StoreTyped, SessionBlocks, [Next]_vars
  PROVE  SessionBlocks'
<1> USE DEF store, Steps
<1>a. \A c \in Conn : ctx[c] \in Context /\ Clients \subseteq Conn
  BY DEF Inv, Typed, Clients
<1>b. \A c \in Conn : /\ At(c, "none").encrypted = ctx[c].encrypted
                     /\ At(c, "none").pid = ctx[c].pid
                     /\ Started(c) = At(c, "none")
  BY <1>a DEF At, Started, Context
<1>1. ASSUME NEW c \in Conn,
             \/ SetupM1Unavailable(c) \/ SetupM1Busy(c) \/ SetupM1(c)
             \/ SetupM3(c) \/ SetupM3WrongCode(c) \/ SetupM5Full(c)
             \/ VerifyV1(c) \/ VerifyV3Unknown(c)
      PROVE  SessionBlocks'
  <2>1. UNCHANGED <<block, hasId>> /\ ctx[c].live /\ ~ctx[c].encrypted
    BY <1>1 DEF SetupM1Unavailable, SetupM1Busy, SetupM1, SetupM3, SetupM3WrongCode,
                SetupM5Full, VerifyV1, VerifyV3Unknown, Plain
  <2>2. /\ \A t \in Steps : ~At(c, t).encrypted
        /\ ~Started(c).encrypted
        /\ ~[At(c, "verify1") EXCEPT !.verify = TRUE].encrypted
        /\ ~[Started(c) EXCEPT !.verify = FALSE].encrypted
    BY <1>a, <2>1 DEF At, Started, Context
  <2>3. \E s, x, answer : ~x.encrypted /\ Reply(c, s, x, answer)
    BY <1>1, <2>2 DEF SetupM1Unavailable, SetupM1Busy, SetupM1, SetupM3,
                SetupM3WrongCode, SetupM5Full, VerifyV1, VerifyV3Unknown
  <2>4. SessionsGoOn
    BY <2>1, <2>3, ReplyGoesOn
  <2> QED BY <2>1, <2>4, SessionBlocksStep
<1>2. ASSUME NEW c \in Conn,
             \/ NotAdmin(c) \/ AddPairingMaxPeers(c) \/ AddPairingUpdateFails(c)
             \/ RemovePairingUnknown(c) \/ ListPairings(c)
             \/ AddPairingNew(c) \/ AddPairingUpdate(c)
      PROVE  SessionBlocks'
  <2>1. ctx[c].live /\ Reply(c, server, ctx[c], sess[c])
    BY <1>2 DEF NotAdmin, AddPairingMaxPeers, AddPairingUpdateFails, RemovePairingUnknown,
                ListPairings, AddPairingNew, AddPairingUpdate, ByAdmin, Secured
  <2>2. SessionsGoOn
    BY <2>1, ReplyGoesOn
  <2>3. \/ UNCHANGED <<block, hasId>>
        \/ /\ hasId' => hasId /\ ~Compacts(block)
           /\ \/ block' = Added(block, req[c].dev, req[c].admin)
              \/ block' = Updated(block, req[c].dev, req[c].admin)
    BY <1>2 DEF NotAdmin, AddPairingMaxPeers, AddPairingUpdateFails, RemovePairingUnknown,
                ListPairings, AddPairingNew, AddPairingUpdate
  <2>4. hasId' => hasId /\ \A i \in Slot : block[i].magic # "erased"
                                          => block'[i] \in {block[i], ZeroedBlock}
    <3>1. CASE UNCHANGED <<block, hasId>>
      BY <3>1
    <3>2. CASE block' = Added(block, req[c].dev, req[c].admin) /\ (hasId' => hasId /\ ~Compacts(block))
      BY <3>2, Writes
    <3>3. CASE block' = Updated(block, req[c].dev, req[c].admin) /\ (hasId' => hasId /\ ~Compacts(block))
      BY <3>3, Writes
    <3> QED BY <2>3, <3>1, <3>2, <3>3
  <2> QED BY <2>2, <2>4, SessionBlocksStep
<1>3. ASSUME NEW c \in Conn, RemovePairing(c)
      PROVE  SessionBlocks'
  <2>1. \A i \in Slot : block'[i] \in {block[i], ZeroedBlock}
    BY <1>3 DEF RemovePairing, Removed, StoreTyped
  <2>2. SessionsGoOn
    <3> DEFINE i == Index(block, req[c].dev)
               Marked(x) == IF x.live /\ x.pid = i
                              THEN [x EXCEPT !.disconnect = TRUE] ELSE x
               marked == [k \in Conn |-> Marked(ctx[k])]
    <3>1. \/ ctx' = marked /\ peer' = peer
          \/ ctx' = [marked EXCEPT ![c] = NoContext] /\ peer' = [peer EXCEPT ![c] = NoDevice]
      BY <1>3 DEF RemovePairing, Forget
    <3>2. \A k \in Conn : /\ marked[k].live = ctx[k].live /\ marked[k].pid = ctx[k].pid
                         /\ marked[k].encrypted = ctx[k].encrypted
      <4> HIDE DEF i
      <4> QED BY <1>a DEF Context
    <3>3. marked = [k \in Conn |-> marked[k]] /\ peer = [k \in Conn |-> peer[k]]
      BY DEF Inv, Typed
    <3> HIDE DEF marked
    <3> QED BY <3>1, <3>2, <3>3, NoValues DEF SessionsGoOn, Clients
  <2>3. hasId' = hasId
    BY <1>3 DEF RemovePairing
  <2> QED BY <2>1, <2>2, <2>3, SessionBlocksStep
<1>4. ASSUME NEW c \in Conn, SetupM5(c)
      PROVE  SessionBlocks'
  <2>1. ctx[c].live /\ ~ctx[c].encrypted /\ hasId' = (hasId /\ ~Compacts(block))
        /\ block' = Added(block, peer[c], TRUE)
    BY <1>4 DEF SetupM5, Plain
  <2>2. ~At(c, "setup3").encrypted
    BY <1>a, <2>1 DEF At, Context
  <2>3. \E s, x, answer : ~x.encrypted /\ Reply(c, s, x, answer)
    BY <1>4, <2>2 DEF SetupM5, Reply
  <2>4. SessionsGoOn
    BY <2>1, <2>3, ReplyGoesOn
  <2>5. hasId' => hasId /\ \A i \in Slot : block[i].magic # "erased"
                                          => block'[i] \in {block[i], ZeroedBlock}
    BY <2>1, Writes
  <2> QED BY <2>4, <2>5, SessionBlocksStep
<1>5. ASSUME NEW c \in Conn, VerifyV3(c)
      PROVE  SessionBlocks'
  <2> DEFINE i == Index(block, peer[c])
             x == [At(c, "verify2") EXCEPT !.verify = FALSE, !.encrypted = TRUE,
                                           !.pid = i, !.admin = block[i].admin]
  <2>1. UNCHANGED <<block, hasId>> /\ ctx[c].live /\ Reply(c, server, x, "secure")
    BY <1>5 DEF VerifyV3, Plain
  <2>2. x.pid = i /\ x.live
    BY <1>a, <2>1 DEF At, Context
  <2>3. i \in Slot /\ Valid(block, i) /\ block[i].dev = peer[c]
    BY <1>5, IndexIsFirst DEF VerifyV3, Holding
  <2> HIDE DEF i, x
  <2>4. SUFFICES ASSUME hasId, NEW k \in Clients', ctx'[k].encrypted
                 PROVE  SessionBlock(k)'
    BY <2>1 DEF SessionBlocks, SessionBlock
  <2>5. CASE Answer(c, server, x, "secure")
    <3>1. ctx' = [ctx EXCEPT ![c] = x] /\ peer' = peer
      BY <2>5 DEF Answer
    <3>2. CASE k = c
      BY <2>1, <2>2, <2>3, <3>1, <3>2 DEF SessionBlock, Valid, Inv, Typed, Clients
    <3>3. CASE k # c
      <4>1. k \in Clients /\ ctx'[k] = ctx[k]
        BY <3>1, <3>3 DEF Clients, Inv, Typed
      <4> QED BY <2>1, <2>4, <3>1, <4>1 DEF SessionBlocks, SessionBlock
    <3> QED BY <3>2, <3>3
  <2>6. CASE Close(c, server)
    <3>1. k # c
      BY <2>6, NoValues DEF Close, Clients, Inv, Typed
    <3>2. k \in Clients /\ ctx'[k] = ctx[k] /\ peer'[k] = peer[k]
      BY <2>6, <3>1 DEF Close, Forget, Clients, Inv, Typed
    <3> QED BY <2>1, <2>4, <3>2 DEF SessionBlocks, SessionBlock
  <2> QED BY <2>1, <2>5, <2>6 DEF Reply
<1>6. ASSUME NEW c \in Conn, Disconnected(c)
      PROVE  SessionBlocks'
  <2>1. UNCHANGED <<block, hasId>> /\ ctx[c].live /\ Reply(c, server, ctx[c], "none")
    BY <1>6 DEF Disconnected, Reply
  <2> QED BY <2>1, ReplyGoesOn, SessionBlocksStep
<1>7. ASSUME NEW c \in Conn, Accept(c)
      PROVE  SessionBlocks'
  <2>1. UNCHANGED <<block, hasId>> /\ ctx' = [ctx EXCEPT ![c] = NewContext]
        /\ \A k \in Conn \ {c} : peer'[k] = peer[k]
    BY <1>7 DEF Accept, Inv, Typed
  <2>2. SessionsGoOn
    BY <2>1, NoValues DEF SessionsGoOn, Clients, Inv, Typed
  <2> QED BY <2>1, <2>2, SessionBlocksStep
<1>8. ASSUME NEW c \in Conn, Reject(c)
      PROVE  SessionBlocks'
  <2>1. UNCHANGED <<block, hasId, ctx>> /\ ~ctx[c].live
        /\ \A k \in Conn \ {c} : peer'[k] = peer[k]
    BY <1>8 DEF Reject, Forget, Inv, Typed, Sessions, Linked
  <2>2. SessionsGoOn
    BY <2>1 DEF SessionsGoOn, Clients
  <2> QED BY <2>1, <2>2, SessionBlocksStep
<1>9. ASSUME \/ \E c \in Conn : \/ Connect(c) \/ PeerCloses(c)
                               \/ \E r \in MayFollow(sess[c]) : Send(c, r)
             \/ LoopPreinit \/ UNCHANGED vars
      PROVE  SessionBlocks'
  <2>1. UNCHANGED <<block, hasId, ctx, peer>>
    BY <1>9 DEF Connect, PeerCloses, Send, LoopPreinit, network, vars
  <2>2. SessionsGoOn
    BY <2>1 DEF SessionsGoOn, Clients
  <2> QED BY <2>1, <2>2, SessionBlocksStep
<1>10. ASSUME ServerReset
       PROVE  SessionBlocks'
  BY <1>10 DEF ServerReset, SessionBlocks
<1>11. ASSUME Reboot \/ \E c \in Conn : SetupM5WriteError(c)
       PROVE  SessionBlocks'
  <2>1. ctx' = [c \in Conn |-> NoContext]
    BY <1>11 DEF Reboot, SetupM5WriteError, RebootWith
  <2> QED BY <2>1, NoValues DEF SessionBlocks, Clients
<1> QED BY <1>1, <1>2, <1>3, <1>4, <1>5, <1>6, <1>7, <1>8, <1>9, <1>10, <1>11
        DEF Next, Serve

(* Until the sector is erased no session has the index of another          *)
(* controller's record, for any number of sessions, controllers and        *)
(* blocks: remove_pairing marks no session of a controller that stays.     *)
THEOREM SessionsKeepTheirBlock == Spec => []SessionPairingId
<1>1. Init => SessionBlocks
  BY NoValues DEF Init, SessionBlocks, Clients
<1>2. Inv /\ StoreTyped /\ SessionBlocks /\ [Next]_vars => SessionBlocks'
  BY SessionBlocksNext
<1>3. SessionBlocks => SessionPairingId
  BY DEF SessionBlocks, SessionBlock, SessionPairingId
<1> QED BY <1>1, <1>2, <1>3, InvInductive, PTL DEF Spec
-----------------------------------------------------------------------------
(* The last admin.                                                         *)

(* A request to add a pairing names a controller.                          *)
Named == \A c \in Conn : req[c].op = "add" => req[c].dev \in Device

LEMMA MayFollowNamed ==
  ASSUME NEW answer, NEW r \in MayFollow(answer), r.op = "add"
  PROVE  r.dev \in Device
<1>1. \A o \in Ops : Simple(o).op = o
  BY SimpleTyped
<1>2. r \in [op : {"add"}, dev : Device, admin : BOOLEAN]
  BY <1>1 DEF MayFollow, Ops
<1> QED BY <1>2

LEMMA NamedNext ==
  ASSUME Inv, Named, [Next]_vars
  PROVE  Named'
<1>1. ASSUME NEW c \in Conn, NEW r \in MayFollow(sess[c]), Send(c, r)
      PROVE  Named'
  BY <1>1, MayFollowNamed DEF Send, Named, Inv, Typed
<1>2. CASE \A c \in Conn : req'[c] \in {req[c], NoRequest}
  BY <1>2, NoValues DEF Named
<1>3. CASE Reboot \/ \E c \in Conn : SetupM5WriteError(c)
  BY <1>2, <1>3 DEF Reboot, SetupM5WriteError, RebootWith
<1>4. ASSUME NEW c \in Conn, NEW s, NEW x, NEW answer, Reply(c, s, x, answer)
      PROVE  Named'
  BY <1>2, <1>4 DEF Reply, Answer, Close, Forget, Inv, Typed
<1>5. ASSUME NEW c \in Conn, Serve(c), ~SetupM5WriteError(c)
      PROVE  Named'
  <2>1. CASE RemovePairing(c)
    BY <1>2, <2>1 DEF RemovePairing, Forget, Inv, Typed
  <2>2. CASE Disconnected(c)
    BY <1>4, <2>2 DEF Disconnected, Reply
  <2>3. CASE SetupM5(c)
    BY <1>4, <2>3 DEF SetupM5, Reply
  <2>4. CASE ~(RemovePairing(c) \/ Disconnected(c) \/ SetupM5(c))
    <3>1. \E s, x, answer : Reply(c, s, x, answer)
      BY <1>5, <2>4
         DEF Serve, SetupM1Unavailable, SetupM1Busy, SetupM1, SetupM3, SetupM3WrongCode,
             SetupM5Full, VerifyV1, VerifyV3, VerifyV3Unknown, NotAdmin, AddPairingNew,
             AddPairingMaxPeers, AddPairingUpdate, AddPairingUpdateFails,
             RemovePairingUnknown, ListPairings
    <3> QED BY <1>4, <3>1
  <2> QED BY <2>1, <2>2, <2>3, <2>4
<1>6. ASSUME NEW c \in Conn, Connect(c) \/ PeerCloses(c) \/ Accept(c) \/ Reject(c)
      PROVE  Named'
  BY <1>2, <1>6 DEF Connect, PeerCloses, Accept, Reject, Forget, Inv, Typed
<1>7. CASE LoopPreinit \/ ServerReset \/ UNCHANGED vars
  BY <1>2, <1>7 DEF LoopPreinit, ServerReset, network, vars
<1> QED BY <1>1, <1>3, <1>5, <1>6, <1>7 DEF Next

LEMMA NamedAlways == Spec => []Named
<1>1. Init => Named
  BY NoValues DEF Init, Named
<1> QED BY <1>1, InvInductive, NamedNext, PTL DEF Spec

(* While some record is an admin's, a new record leaves it.                *)
LEMMA AddedKeepsAdmin ==
  ASSUME StoreTyped, HasAdmin(block), ~Compacts(block), NEW d, NEW a
  PROVE  HasAdmin(Added(block, d, a))
<1>1. PICK i \in Slot : Valid(block, i) /\ block[i].admin
  BY DEF HasAdmin
<1>2. Added(block, d, a)[i] = block[i]
  BY <1>1, BlocksWritten DEF Valid
<1> QED BY <1>1, <1>2 DEF HasAdmin, Valid

(* An update after which no record is an admin's has made a member of the  *)
(* admin it was for.                                                       *)
LEMMA UpdatedDemotes ==
  ASSUME StoreTyped, HasAdmin(block), ~Compacts(block),
         NEW d, NEW a \in BOOLEAN, Found(block, d), ~HasAdmin(Updated(block, d, a))
  PROVE  View(block, d) = "admin" /\ View(Updated(block, d, a), d) = "member"
<1> DEFINE i == Index(block, d)
           j == FirstErased(block)
           b == Updated(block, d, a)
<1>1. i \in Slot /\ Valid(block, i)
  BY IndexIsFirst DEF Holding
<1>2. j \in Slot /\ block[j].magic = "erased"
  <2>1. \E k \in Slot : FirstEmpty(block, k)
    BY FirstEmptyExists DEF Compacts
  <2> QED BY <2>1 DEF FirstErased, FirstEmpty, FirstOf, EmptyBlocks
<1>3. i # j
  BY <1>1, <1>2 DEF Valid
<1>4. b = [block EXCEPT ![j] = Record(d, a), ![i] = ZeroedBlock]
  BY DEF Updated, Added, Room
<1>5. b[j] = Record(d, a) /\ \A k \in Slot \ {i, j} : b[k] = block[k]
  BY <1>1, <1>2, <1>3, <1>4 DEF StoreTyped
<1> HIDE DEF i, j, b
<1>6. block[i].admin
  <2>1. PICK k \in Slot : Valid(block, k) /\ block[k].admin
    BY DEF HasAdmin
  <2>2. k # j
    BY <1>2, <2>1 DEF Valid
  <2>3. k = i
    BY <1>5, <2>1, <2>2 DEF HasAdmin, Valid, b
  <2> QED BY <2>1, <2>3
<1>7. Found(b, d)
  BY <1>2, <1>5 DEF Found, Holding, Valid, Record
<1>8. Index(b, d) \in Slot /\ Valid(b, Index(b, d))
  BY <1>7, IndexIsFirst DEF Holding
<1>9. ~b[Index(b, d)].admin
  BY <1>8 DEF HasAdmin, b
<1> QED BY <1>6, <1>7, <1>9 DEF View, Perm, i, b

(* What a step that ends with no admin and the id kept has done.           *)
LEMMA LastAdminGone ==
  ASSUME Inv, StoreTyped, Named, [Next]_vars,
         HasAdmin(block), ~HasAdmin(block'), hasId', ~Demoted
  PROVE  ~server'.paired
<1> USE DEF store
<1>1. ASSUME NEW c \in Conn, SetupM5(c) \/ AddPairingNew(c)
      PROVE  FALSE
  BY <1>1, AddedKeepsAdmin DEF SetupM5, AddPairingNew
<1>2. ASSUME NEW c \in Conn, AddPairingUpdate(c)
      PROVE  FALSE
  <2>1. req[c].dev \in Device /\ req[c].admin \in BOOLEAN
    BY <1>2 DEF AddPairingUpdate, ByAdmin, Secured, Named, Inv, Typed, Request
  <2>2. View(block, req[c].dev) = "admin" /\ View(block', req[c].dev) = "member"
    BY <1>2, <2>1, UpdatedDemotes DEF AddPairingUpdate
  <2> QED BY <2>1, <2>2 DEF Demoted
<1>3. ASSUME NEW c \in Conn, RemovePairing(c)
      PROVE  ~server'.paired
  <2> DEFINE d == req[c].dev
             s == [server EXCEPT !.paired = FALSE]
  <2>1. block' = Removed(block, d) /\ Found(block, d)
    BY <1>3 DEF RemovePairing
  <2>2. PICK k \in Slot : Valid(block, k) /\ block[k].admin
    BY DEF HasAdmin
  <2>3. k = Index(block, d)
    BY <2>1, <2>2 DEF Removed, HasAdmin, Valid, StoreTyped
  <2>4. LastAdmin(d)
    BY <2>1, <2>2, <2>3 DEF LastAdmin
  <2>5. server' = s \/ server' = Closed(s, c)
    BY <1>3, <2>4 DEF RemovePairing
  <2> QED BY <2>5 DEF Closed, FreeSetup, Inv, Typed, Server
<1>4. ASSUME Reboot \/ \E c \in Conn : SetupM5WriteError(c)
      PROVE  ~server'.paired
  <2>1. server' = Booted(block')
    BY <1>4 DEF Reboot, SetupM5WriteError, RebootWith
  <2> QED BY <2>1 DEF Booted, Preinit
<1>5. ASSUME NEW c \in Conn, Serve(c),
             ~(SetupM5(c) \/ SetupM5WriteError(c) \/ AddPairingNew(c)
               \/ AddPairingUpdate(c) \/ RemovePairing(c))
      PROVE  FALSE
  BY <1>5
     DEF Serve, Disconnected, SetupM1Unavailable, SetupM1Busy, SetupM1, SetupM3,
         SetupM3WrongCode, SetupM5Full, VerifyV1, VerifyV3, VerifyV3Unknown, NotAdmin,
         AddPairingMaxPeers, AddPairingUpdateFails, RemovePairingUnknown, ListPairings
<1>6. ASSUME NEW c \in Conn,
             \/ Connect(c) \/ PeerCloses(c) \/ Accept(c) \/ Reject(c)
             \/ \E r \in MayFollow(sess[c]) : Send(c, r)
      PROVE  FALSE
  BY <1>6 DEF Connect, PeerCloses, Accept, Reject, Send
<1>7. CASE LoopPreinit \/ ServerReset \/ UNCHANGED vars
  BY <1>7 DEF LoopPreinit, ServerReset, vars
<1> QED BY <1>1, <1>2, <1>3, <1>4, <1>5, <1>6, <1>7 DEF Next

(* A pairings request that takes the last admin away leaves the accessory  *)
(* unpaired, and so open to pair setup, whichever of several records was   *)
(* removed and whether or not its answer closes the connection, unless an  *)
(* update made that admin a member or the sector was erased.               *)
THEOREM LastAdminReopens == Spec => NoAdminEnablesPairing
<1>1. Inv /\ StoreTyped /\ Named /\ [Next]_vars
        => [HasAdmin(block) /\ ~HasAdmin(block') /\ hasId' /\ ~Demoted
              => ~server'.paired]_vars
  BY LastAdminGone
<1> QED BY <1>1, InvInductive, NamedAlways, PTL DEF Spec, NoAdminEnablesPairing
=============================================================================
