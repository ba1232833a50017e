----------------------------- MODULE EccSession -----------------------------
(***************************************************************************)
(* The secure session of section 6.2 (protocols-ECC/secure_modbus):        *)
(* authentication, secure authentication channel (SAC) and content key     *)
(* update between one Modbus master (the TCP "client", MasterClient) and   *)
(* the slaves (the "servers", one single-threaded accept loop each).       *)
(*                                                                         *)
(* Every connection the master opens has a number n.  The client and the   *)
(* server end of n each have a program counter that names the recv() the   *)
(* end is blocked in, and a SecureSession record that lives as long as the *)
(* end does.  What outlives a connection is the context file of each end,  *)
(* which is keyed by the Modbus address alone: the master has ONE file for *)
(* all the slaves it reaches at that address, each slave has its own.      *)
(*                                                                         *)
(* Keys are terms.  The values an end draws at random in connection n (its *)
(* ephemeral key, NS, KP) are represented by n, since each end draws each  *)
(* of them once per connection.                                            *)
(*                                                                         *)
(* A definition with an underscore in its name is the one before the       *)
(* underscore with a plausible bug; no specification uses it.  Replacing   *)
(* the original by it shows that a property can fail.                      *)
(***************************************************************************)
EXTENDS Naturals, Sequences, Functions

CONSTANTS Slaves,       \* slave processes the master reaches at the address
          SlaveId,      \* SlaveId[s]: the device id in the certificate of s
          ClientId,     \* the device id of the master
          Incidents,    \* the incidents a run admits, see IncidentKinds
          MaxConnects,  \* bound: connections opened
          MaxIncidents, \* bound: incidents
          MaxPki        \* bound: runs of init_demo_pki, whole or not

IncidentKinds == {"garble", "lose", "timeout", "restart_master",
                  "kill_master_in_save", "crash_slave", "kill_slave_in_save",
                  "delete_master_state", "delete_slave_state", "regenerate_pki"}

ASSUME ConstantsAssumption ==
    /\ MaxConnects \in Nat /\ MaxIncidents \in Nat /\ MaxPki \in Nat
    /\ Incidents \subseteq IncidentKinds

Conns == 1..MaxConnects

VARIABLES target,    \* target[n]: the slave connection n was opened to
          cpc,       \* cpc[n]: where the master's end of n is
          csess,     \* csess[n]: the master's SecureSession of n
          spc,       \* spc[n]: where the slave's end of n is
          ssess,     \* ssess[n]: the slave's SecureSession of n
          toClient,  \* toClient[n]: frames on their way to the master
          toServer,  \* toServer[n]: frames on their way to the slave
          cctx,      \* client_context_<address>.json
          sctx,      \* sctx[s]: server_context_<address>.json of s
          sup,       \* sup[s]: the slave process is "up", "down" or "died"
          pki,       \* the PKI directory, and the init_demo_pki that writes it
          identity,  \* MasterClient.identity
          incidents  \* incidents so far

link == <<toClient, toServer>>
client == <<cpc, csess, cctx, identity>>
server == <<spc, ssess, sctx, sup>>
vars == <<target, link, client, server, pki, incidents>>

-----------------------------------------------------------------------------
(* Key terms *)

NoKey == [k |-> "none"]                    \* the attribute is None
ZeroKey == [k |-> "zero"]                  \* bytes(32)
Dhsk(ce, se, cid, sid) ==
    [k |-> "dhsk", client |-> ce, server |-> se, cid |-> cid, sid |-> sid]
AuthKey(dhsk, cid, sid) == [k |-> "auth", dhsk |-> dhsk, cid |-> cid, sid |-> sid]
Rm(dhsk, sid) == [k |-> "rm", dhsk |-> dhsk, id |-> sid]    \* DHPH, DHPM: in dhsk
Rh(dhsk, cid) == [k |-> "rh", dhsk |-> dhsk, id |-> cid]
SacKey(dhsk, auth, nsh, nsm) ==
    [k |-> "sac", dhsk |-> dhsk, auth |-> auth, nsh |-> nsh, nsm |-> nsm]
ContentKey(kp, id) == [k |-> "content", kp |-> kp, id |-> id]

(* The PKI directory: the files in the order init_demo_pki writes them, each *)
(* of a generation, the run of init_demo_pki that wrote it, or Torn: cut to  *)
(* nothing and not written yet.  load_identity raises at a torn file.  It    *)
(* reads the root certificate, which is written first, last; so the identity *)
(* it gets while files change is, but for certificates that do not form a    *)
(* chain, one it gets between two changes, and to load is one step.          *)

PkiFiles_RootBetween ==
    << <<"client", "key">>, <<"client", "device">>, <<"client", "brand">>,
       <<"root", "cert">>,
       <<"server", "key">>, <<"server", "device">>, <<"server", "brand">> >>
PkiFiles == << <<"root", "cert">>,
               <<"client", "key">>, <<"client", "device">>, <<"client", "brand">>,
               <<"server", "key">>, <<"server", "device">>, <<"server", "brand">> >>
Torn == 0
Generations == 0..(MaxPki + 1)
FilesOf(role) == {<<"root", "cert">>} \cup {role} \X {"key", "device", "brand"}

Loadable(role) == \A f \in FilesOf(role) : pki.file[f] # Torn
load_identity(role) ==
    [root |-> pki.file[<<"root", "cert">>], brand |-> pki.file[<<role, "brand">>],
     device |-> pki.file[<<role, "device">>]]
NoIdentity == [root |-> Torn, brand |-> Torn, device |-> Torn]

(* The two certificates an end presents; each is signed with the key of the  *)
(* one above it in its own generation, by which verify_peer_chain tells      *)
Chain(id, device_id) == [brand |-> id.brand, device |-> id.device, id |-> device_id]
ChainOk(id, certs) == certs.brand = id.root /\ certs.device = certs.brand

(* SecureSession, SacChannel and the context file *)

NoSac == [key |-> NoKey, send |-> 1, recv |-> 1]
NewSession ==
    [peer |-> "none", dhsk |-> NoKey, auth |-> NoKey, sac |-> NoSac,
     ck |-> NoKey, bck |-> NoKey, identity |-> NoIdentity]

NoContext == [file |-> "absent", peer |-> "none", dhsk |-> NoKey, auth |-> NoKey]
TornContext == [NoContext EXCEPT !.file = "torn"]
ContextOf(sess) == [file |-> "saved", peer |-> sess.peer,
                    dhsk |-> sess.dhsk, auth |-> sess.auth]
Loaded_WithoutPeer(sess, ctx) == [sess EXCEPT !.dhsk = ctx.dhsk, !.auth = ctx.auth]
Loaded(sess, ctx) == [sess EXCEPT !.peer = ctx.peer, !.dhsk = ctx.dhsk,
                                  !.auth = ctx.auth]
Installed(sess, sac, ck, bck) ==
    [sess EXCEPT !.sac = sac, !.ck = ck, !.bck = bck]

(* APDUs: the decoded DATA message (values, requests) of a plain APDU, and *)
(* the same under the SAC's key and counter                                *)

Apdu(tag, vals, reqs) ==
    [tag |-> tag, vals |-> vals, reqs |-> reqs, key |-> NoKey, ctr |-> 0]
SacApdu(tag, sac, vals, reqs) ==
    [tag |-> tag, vals |-> vals, reqs |-> reqs, key |-> sac.key, ctr |-> sac.send]
NoValues == [x \in {} |-> NoKey]
Garbled == Apdu("GARBLED", NoValues, {})   \* the receiver finds a CRC mismatch

(* A direction of a connection carries whole APDUs, in order *)
Sent(queues, n, frame) == [queues EXCEPT ![n] = Append(@, frame)]
Taken(queues, n) == [queues EXCEPT ![n] = Tail(@)]
Jammed(queues, n) == [queues EXCEPT ![n] = <<Garbled>> \o Tail(@)]

Has(m, dt) == dt \in DOMAIN m.vals

(* SacChannel.pack and unpack: the counter is checked before, and stepped   *)
(* before, the payload is decrypted and its MAC verified                    *)
Packed_KeepsCounter(sac) == sac
Packed(sac) == [sac EXCEPT !.send = @ + 1]
CounterOk(sac, m) == m.ctr = sac.recv
Unpacked(sac) == [sac EXCEPT !.recv = @ + 1]
MacOk(sac, m) == m.key = sac.key

-----------------------------------------------------------------------------
(* The ends of a connection *)

Opened == DOMAIN target
ServerAlive(n) == spc[n] \notin {"none", "closed"}
Busy(s) == \E n \in Opened : target[n] = s /\ ServerAlive(n)
Backlog(s) == {n \in Opened : target[n] = s /\ spc[n] = "none"}

(* The program counters at which an end waits in recv(), with the tag it   *)
(* wants next                                                              *)
ClientWants ==
    [open_req |-> "OPEN_REQ", first_req |-> "DATA_REQ", dhpm |-> "DATA_REQ",
     akh_req |-> "DATA_REQ", sac_req |-> "DATA_REQ", sac_sync |-> "SYNC_REQ",
     ck_req |-> "SAC_DATA_REQ", ck_sync |-> "SAC_SYNC_REQ"]
ServerWants ==
    [open_cnf |-> "OPEN_CNF", reauth |-> "DATA_CNF", certs |-> "DATA_CNF",
     rh |-> "DATA_CNF", akh |-> "DATA_CNF", sac_cnf |-> "DATA_CNF",
     sac_sync |-> "SYNC_CNF", ck_cnf |-> "SAC_DATA_CNF",
     ck_sync |-> "SAC_SYNC_CNF"]

ClientPcs == {"none", "save", "ready", "failed", "closed"} \cup DOMAIN ClientWants
ServerPcs == {"none", "save", "ready", "closed"} \cup DOMAIN ServerWants

(* recv() at program counter pc returns m, the oldest frame, if its tag is *)
(* the wanted one                                                          *)
Incoming(queue) == IF queue = <<>> THEN {} ELSE {Head(queue)}
ClientGets(n, pc, m) == cpc[n] = pc /\ m.tag = ClientWants[pc]
ServerGets(n, pc, m) == spc[n] = pc /\ m.tag = ServerWants[pc]

(* The master's end consumes a frame, sends one, and goes on *)
ClientStep(n, pc, sess, frame) ==
    /\ toClient' = Taken(toClient, n)
    /\ toServer' = Sent(toServer, n, frame)
    /\ cpc' = [cpc EXCEPT ![n] = pc]
    /\ csess' = [csess EXCEPT ![n] = sess]

(* Any exception in the handshake: the session object is dropped.  connect *)
(* had not stored the socket in self.sock, so transact's close() does not  *)
(* close it: it stays open until the local variable is collected.          *)
ClientGivesUp(n) ==
    /\ toClient' = [toClient EXCEPT ![n] = <<>>]
    /\ cpc' = [cpc EXCEPT ![n] = "failed"]
    /\ csess' = [csess EXCEPT ![n] = NewSession]
ClientFails(n) == ClientGivesUp(n) /\ UNCHANGED toServer

(* The slave's end consumes a frame and goes on, silently or with a frame *)
ServerGoesOn(n, pc, sess) ==
    /\ toServer' = Taken(toServer, n)
    /\ spc' = [spc EXCEPT ![n] = pc]
    /\ ssess' = [ssess EXCEPT ![n] = sess]
ServerStep(n, pc, sess, frame) ==
    /\ ServerGoesOn(n, pc, sess)
    /\ toClient' = Sent(toClient, n, frame)

(* ProtocolError or OSError: "with conn" closes the socket, accept again   *)
ServerCloses(n) ==
    /\ toServer' = [toServer EXCEPT ![n] = <<>>]
    /\ spc' = [spc EXCEPT ![n] = "closed"]
    /\ ssess' = [ssess EXCEPT ![n] = NewSession]
    /\ UNCHANGED <<toClient, sup>>

(* The process of s ends: every connection to it, accepted or in the       *)
(* backlog, is closed by the operating system                              *)
SlaveEnds(s, how) ==
    LET mine(n) == n \in Opened /\ target[n] = s
    IN  /\ sup' = [sup EXCEPT ![s] = how]
        /\ spc' = [n \in Conns |-> IF mine(n) THEN "closed" ELSE spc[n]]
        /\ ssess' = [n \in Conns |-> IF mine(n) THEN NewSession ELSE ssess[n]]
        /\ toServer' = [n \in Conns |-> IF mine(n) THEN <<>> ELSE toServer[n]]
        /\ UNCHANGED toClient

(* An exception main() does not catch: anything but ProtocolError, OSError *)
ServerRaises(n) == SlaveEnds(target[n], "died")

-----------------------------------------------------------------------------
(* The master: MasterClient.connect, close and client_handshake *)

Connect(s) ==
    /\ Len(target) < MaxConnects
    /\ \A n \in Opened : cpc[n] \in {"failed", "closed"}
    /\ sup[s] = "up" /\ identity # NoIdentity
    /\ target' = Append(target, s)
    /\ cpc' = [cpc EXCEPT ![Len(target) + 1] = "open_req"]
    /\ UNCHANGED <<csess, cctx, identity, link, server, pki, incidents>>

ClientOpens(n) == \E m \in Incoming(toClient[n]) :
    /\ ClientGets(n, "open_req", m)
    /\ ClientStep(n, "first_req", csess[n],
                  Apdu("OPEN_CNF", [SYSTEM_ID |-> 1], {}))

(* The first DATA_REQ asks for AKH under a context the master also has for *)
(* the address: the reply is the stored key if the context is of the asking *)
(* slave.  If it is of another slave the reply is all zeros, and the code   *)
(* falls through to the certificates, which this request does not carry.   *)
ClientReauthenticates(n) == \E m \in Incoming(toClient[n]) :
    /\ ClientGets(n, "first_req", m)
    /\ "AKH" \in m.reqs /\ Has(m, "SERVER_ID") /\ cctx.file = "saved"
    /\ \/ /\ m.vals.SERVER_ID = cctx.peer
          /\ ClientStep(n, "sac_req", Loaded(csess[n], cctx),
                        Apdu("DATA_CNF", [AKH |-> cctx.auth], {}))
       \/ /\ m.vals.SERVER_ID # cctx.peer
          /\ ~Has(m, "CERTS")
          /\ ClientGivesUp(n)
          /\ toServer' = Sent(toServer, n, Apdu("DATA_CNF", [AKH |-> ZeroKey], {}))

(* An AKH request without a context of the master's own: no reply, the code *)
(* looks for certificates and raises.  A torn file raises in json.loads.    *)
ClientCannotReauthenticate(n) == \E m \in Incoming(toClient[n]) :
    /\ ClientGets(n, "first_req", m)
    /\ "AKH" \in m.reqs /\ Has(m, "SERVER_ID") /\ cctx.file # "saved"
    /\ ~Has(m, "CERTS") \/ cctx.file = "torn"
    /\ ClientFails(n)

ClientVerifies_WithoutCertificates(n) == \E m \in Incoming(toClient[n]) :
    /\ ClientGets(n, "first_req", m)
    /\ Has(m, "CERTS")
    /\ IF ChainOk(identity, m.vals.CERTS)
       THEN ClientStep(n, "dhpm",
                       [csess[n] EXCEPT !.peer = m.vals.CERTS.id],
                       Apdu("DATA_CNF", [DHPH |-> n], {}))
       ELSE ClientFails(n)

ClientVerifies(n) == \E m \in Incoming(toClient[n]) :
    /\ ClientGets(n, "first_req", m)
    /\ Has(m, "CERTS")
    /\ IF ChainOk(identity, m.vals.CERTS)
       THEN ClientStep(n, "dhpm",
                       [csess[n] EXCEPT !.peer = m.vals.CERTS.id],
                       Apdu("DATA_CNF",
                              [DHPH |-> n,
                               CERTS |-> Chain(identity, ClientId)], {}))
       ELSE ClientFails(n)

ClientAgrees(n) == \E m \in Incoming(toClient[n]) :
    LET dhsk == Dhsk(n, m.vals.DHPM, ClientId, csess[n].peer) IN
    /\ ClientGets(n, "dhpm", m)
    /\ IF m.vals.RM = Rm(dhsk, csess[n].peer)
       THEN ClientStep(n, "akh_req",
                       [csess[n] EXCEPT !.dhsk = dhsk,
                                        !.auth = AuthKey(dhsk, ClientId, csess[n].peer)],
                       Apdu("DATA_CNF", [RH |-> Rh(dhsk, ClientId)], {}))
       ELSE ClientFails(n)

(* The AKH leaves before save_context: the slave may save first *)
ClientSendsAkh(n) == \E m \in Incoming(toClient[n]) :
    /\ ClientGets(n, "akh_req", m)
    /\ IF "AKH" \in m.reqs
       THEN ClientStep(n, "save", csess[n],
                       Apdu("DATA_CNF", [AKH |-> csess[n].auth], {}))
       ELSE ClientFails(n)

ClientSaves(n) ==
    /\ cpc[n] = "save"
    /\ cctx' = ContextOf(csess[n])
    /\ cpc' = [cpc EXCEPT ![n] = "sac_req"]
    /\ UNCHANGED <<csess, identity, link, server, target, pki, incidents>>

ClientInitsSac(n) == \E m \in Incoming(toClient[n]) :
    LET key == SacKey(csess[n].dhsk, csess[n].auth, n, m.vals.NS_M) IN
    /\ ClientGets(n, "sac_req", m)
    /\ IF Has(m, "SERVER_ID") /\ m.vals.SERVER_ID = csess[n].peer
       THEN ClientStep(n, "sac_sync",
                       [csess[n] EXCEPT !.sac = [NoSac EXCEPT !.key = key]],
                       Apdu("DATA_CNF", [CLIENT_ID |-> ClientId, NS_H |-> n], {}))
       ELSE ClientFails(n)

ClientSyncsSac(n) == \E m \in Incoming(toClient[n]) :
    /\ ClientGets(n, "sac_sync", m)
    /\ ClientStep(n, "ck_req", csess[n],
                  Apdu("SYNC_CNF", [STATUS |-> "ok"], {}))

ClientUpdatesKey_SwapsKeys(n) == \E m \in Incoming(toClient[n]) :
    LET sac == Unpacked(csess[n].sac) IN
    /\ ClientGets(n, "ck_req", m)
    /\ IF /\ CounterOk(csess[n].sac, m) /\ MacOk(csess[n].sac, m)
          /\ m.vals.SERVER_ID = csess[n].peer
       THEN ClientStep(n, "ck_sync",
                       Installed(csess[n], Packed(sac),
                                 ContentKey(n, ClientId),
                                 ContentKey(m.vals.KP, csess[n].peer)),
                       SacApdu("SAC_DATA_CNF", sac,
                                 [CLIENT_ID |-> ClientId, KP |-> n,
                                  STATUS |-> "ok"], {}))
       ELSE ClientFails(n)

ClientUpdatesKey(n) == \E m \in Incoming(toClient[n]) :
    LET sac == Unpacked(csess[n].sac) IN
    /\ ClientGets(n, "ck_req", m)
    /\ IF /\ CounterOk(csess[n].sac, m) /\ MacOk(csess[n].sac, m)
          /\ m.vals.SERVER_ID = csess[n].peer
       THEN ClientStep(n, "ck_sync",
                       Installed(csess[n], Packed(sac),
                                 ContentKey(m.vals.KP, csess[n].peer),
                                 ContentKey(n, ClientId)),
                       SacApdu("SAC_DATA_CNF", sac,
                                 [CLIENT_ID |-> ClientId, KP |-> n,
                                  STATUS |-> "ok"], {}))
       ELSE ClientFails(n)

ClientSyncsKey(n) == \E m \in Incoming(toClient[n]) :
    LET sac == Unpacked(csess[n].sac) IN
    /\ ClientGets(n, "ck_sync", m)
    /\ IF CounterOk(csess[n].sac, m) /\ MacOk(csess[n].sac, m)
       THEN ClientStep(n, "ready", [csess[n] EXCEPT !.sac = Packed(sac)],
                       SacApdu("SAC_SYNC_CNF", sac, [STATUS |-> "ok"], {}))
       ELSE ClientFails(n)

(* recv raises: a garbled or unexpected frame, or the slave closed.  The    *)
(* close may reset the connection before the queued frames are read.       *)
ClientRecvFails(n) ==
    /\ cpc[n] \in DOMAIN ClientWants
    /\ \/ toClient[n] # <<>> /\ Head(toClient[n]).tag # ClientWants[cpc[n]]
       \/ spc[n] = "closed"
    /\ ClientFails(n)

ClientHandshake(n) ==
    /\ \/ ClientOpens(n) \/ ClientReauthenticates(n)
       \/ ClientCannotReauthenticate(n) \/ ClientVerifies(n)
       \/ ClientAgrees(n) \/ ClientSendsAkh(n) \/ ClientInitsSac(n)
       \/ ClientSyncsSac(n) \/ ClientUpdatesKey(n) \/ ClientSyncsKey(n)
       \/ ClientRecvFails(n)
    /\ UNCHANGED <<cctx, identity, server, target, pki, incidents>>

ClientEnd(n) ==
    /\ toClient' = [toClient EXCEPT ![n] = <<>>]
    /\ cpc' = [cpc EXCEPT ![n] = "closed"]
    /\ csess' = [csess EXCEPT ![n] = NewSession]
    /\ UNCHANGED toServer

(* The last reference to the socket of a failed handshake goes away *)
ReleaseSocket(n) ==
    /\ cpc[n] = "failed"
    /\ ClientEnd(n)
    /\ UNCHANGED <<cctx, identity, server, target, pki, incidents>>

(* close() after a failed transaction of an established session *)
Close(n) ==
    /\ cpc[n] = "ready"
    /\ ClientEnd(n)
    /\ UNCHANGED <<cctx, identity, server, target, pki, incidents>>

-----------------------------------------------------------------------------
(* A slave: main()'s accept loop and server_handshake *)

Accept(s) ==
    /\ sup[s] = "up" /\ ~Busy(s) /\ Loadable("server")
    /\ \E n \in Backlog(s) :
        /\ \A i \in Backlog(s) : n <= i
        /\ spc' = [spc EXCEPT ![n] = "open_cnf"]
        /\ ssess' = [ssess EXCEPT ![n] =
                        [NewSession EXCEPT !.identity = load_identity("server")]]
        /\ toClient' = Sent(toClient, n, Apdu("OPEN_REQ", NoValues, {}))
    /\ UNCHANGED <<toServer, sctx, sup, client, target, pki, incidents>>

(* handle_client loads the identity for each connection, and main() catches  *)
(* neither JSONDecodeError nor the ValueError of load_pem_private_key        *)
AcceptRaises(s) ==
    /\ sup[s] = "up" /\ ~Busy(s) /\ Backlog(s) # {} /\ ~Loadable("server")
    /\ SlaveEnds(s, "died")
    /\ UNCHANGED <<sctx, client, target, pki, incidents>>

MyId(n) == SlaveId[target[n]]

CertificateRequest(n) ==
    Apdu("DATA_REQ", [CERTS |-> Chain(ssess[n].identity, MyId(n))],
           {"DHPH", "CERTS"})
SacRequest(n) ==
    Apdu("DATA_REQ", [SERVER_ID |-> MyId(n), NS_M |-> n], {"CLIENT_ID", "NS_H"})

(* A context file means re-authentication; a torn one raises JSONDecodeError *)
ServerOpens(n) == \E m \in Incoming(toServer[n]) :
    LET ctx == sctx[target[n]] IN
    /\ ServerGets(n, "open_cnf", m)
    /\ IF m.vals.SYSTEM_ID # 1
       THEN ServerCloses(n)
       ELSE \/ /\ ctx.file = "saved"
               /\ ServerStep(n, "reauth", Loaded(ssess[n], ctx),
                             Apdu("DATA_REQ", [SERVER_ID |-> MyId(n)], {"AKH"}))
               /\ UNCHANGED sup
            \/ /\ ctx.file = "absent"
               /\ ServerStep(n, "certs", ssess[n], CertificateRequest(n))
               /\ UNCHANGED sup
            \/ /\ ctx.file = "torn"
               /\ ServerRaises(n)
    /\ UNCHANGED sctx

ServerReauthenticates(n) == \E m \in Incoming(toServer[n]) :
    /\ ServerGets(n, "reauth", m)
    /\ IF Has(m, "AKH") /\ m.vals.AKH = ssess[n].auth
       THEN ServerStep(n, "sac_cnf", ssess[n], SacRequest(n))
       ELSE ServerStep(n, "certs", ssess[n], CertificateRequest(n))
    /\ UNCHANGED <<sctx, sup>>

ServerVerifies(n) == \E m \in Incoming(toServer[n]) :
    LET dhsk == Dhsk(m.vals.DHPH, n, m.vals.CERTS.id, MyId(n)) IN
    /\ ServerGets(n, "certs", m)
    /\ IF ~Has(m, "CERTS")
       THEN ServerRaises(n)                    \* KeyError
       ELSE IF ~ChainOk(ssess[n].identity, m.vals.CERTS)
       THEN ServerCloses(n)
       ELSE /\ ServerStep(n, "rh",
                          [ssess[n] EXCEPT !.peer = m.vals.CERTS.id, !.dhsk = dhsk],
                          Apdu("DATA_REQ", [DHPM |-> n, RM |-> Rm(dhsk, MyId(n))],
                                 {"STATUS"}))
            /\ UNCHANGED sup
    /\ UNCHANGED sctx

ServerAgrees(n) == \E m \in Incoming(toServer[n]) :
    LET dhsk == ssess[n].dhsk IN
    /\ ServerGets(n, "rh", m)
    /\ IF ~Has(m, "RH")
       THEN ServerRaises(n)
       ELSE IF m.vals.RH # Rh(dhsk, ssess[n].peer)
       THEN ServerCloses(n)
       ELSE /\ ServerStep(n, "akh",
                          [ssess[n] EXCEPT !.auth = AuthKey(dhsk, ssess[n].peer, MyId(n))],
                          Apdu("DATA_REQ", NoValues, {"AKH"}))
            /\ UNCHANGED sup
    /\ UNCHANGED sctx

ServerChecksAkh(n) == \E m \in Incoming(toServer[n]) :
    /\ ServerGets(n, "akh", m)
    /\ IF Has(m, "AKH") /\ m.vals.AKH = ssess[n].auth
       THEN ServerGoesOn(n, "save", ssess[n]) /\ UNCHANGED <<toClient, sup>>
       ELSE ServerCloses(n)
    /\ UNCHANGED sctx

ServerSaves_BeforeAkh(n) ==
    /\ spc[n] \in {"akh", "save"}
    /\ sctx' = [sctx EXCEPT ![target[n]] = ContextOf(ssess[n])]
    /\ spc' = [spc EXCEPT ![n] = "sac_cnf"]
    /\ toClient' = Sent(toClient, n, SacRequest(n))
    /\ UNCHANGED <<toServer, ssess, sup>>
ServerSaves(n) ==
    /\ spc[n] = "save"
    /\ sctx' = [sctx EXCEPT ![target[n]] = ContextOf(ssess[n])]
    /\ spc' = [spc EXCEPT ![n] = "sac_cnf"]
    /\ toClient' = Sent(toClient, n, SacRequest(n))
    /\ UNCHANGED <<toServer, ssess, sup>>

ServerInitsSac(n) == \E m \in Incoming(toServer[n]) :
    LET key == SacKey(ssess[n].dhsk, ssess[n].auth, m.vals.NS_H, n) IN
    /\ ServerGets(n, "sac_cnf", m)
    /\ IF Has(m, "CLIENT_ID") /\ m.vals.CLIENT_ID = ssess[n].peer
       THEN /\ ServerStep(n, "sac_sync",
                          [ssess[n] EXCEPT !.sac = [NoSac EXCEPT !.key = key]],
                          Apdu("SYNC_REQ", NoValues, {}))
            /\ UNCHANGED sup
       ELSE ServerCloses(n)
    /\ UNCHANGED sctx

ServerSyncsSac(n) == \E m \in Incoming(toServer[n]) :
    LET sac == ssess[n].sac IN
    /\ ServerGets(n, "sac_sync", m)
    /\ IF m.vals.STATUS = "ok"
       THEN /\ ServerStep(n, "ck_cnf", [ssess[n] EXCEPT !.sac = Packed(sac)],
                          SacApdu("SAC_DATA_REQ", sac,
                                    [SERVER_ID |-> MyId(n), KP |-> n],
                                    {"CLIENT_ID", "STATUS"}))
            /\ UNCHANGED sup
       ELSE ServerCloses(n)
    /\ UNCHANGED sctx

ServerUpdatesKey_SkipsSync(n) == \E m \in Incoming(toServer[n]) :
    LET sac == Unpacked(ssess[n].sac) IN
    /\ ServerGets(n, "ck_cnf", m)
    /\ CounterOk(ssess[n].sac, m) /\ MacOk(ssess[n].sac, m)
    /\ ServerStep(n, "ready",
                  Installed(ssess[n], Packed(sac), ContentKey(n, MyId(n)),
                            ContentKey(m.vals.KP, ssess[n].peer)),
                  SacApdu("SAC_SYNC_REQ", sac, NoValues, {}))
    /\ UNCHANGED <<sctx, sup>>

(* A wrong MAC is InvalidSignature (or a padding ValueError): not caught *)
ServerUpdatesKey(n) == \E m \in Incoming(toServer[n]) :
    LET sac == Unpacked(ssess[n].sac) IN
    /\ ServerGets(n, "ck_cnf", m)
    /\ IF ~CounterOk(ssess[n].sac, m)
       THEN ServerCloses(n)
       ELSE IF ~MacOk(ssess[n].sac, m)
       THEN ServerRaises(n)
       ELSE IF m.vals.CLIENT_ID # ssess[n].peer \/ m.vals.STATUS # "ok"
       THEN ServerCloses(n)
       ELSE /\ ServerStep(n, "ck_sync",
                          Installed(ssess[n], Packed(sac), ContentKey(n, MyId(n)),
                                    ContentKey(m.vals.KP, ssess[n].peer)),
                          SacApdu("SAC_SYNC_REQ", sac, NoValues, {}))
            /\ UNCHANGED sup
    /\ UNCHANGED sctx

ServerSyncsKey(n) == \E m \in Incoming(toServer[n]) :
    LET sac == Unpacked(ssess[n].sac) IN
    /\ ServerGets(n, "ck_sync", m)
    /\ IF ~CounterOk(ssess[n].sac, m)
       THEN ServerCloses(n)
       ELSE IF ~MacOk(ssess[n].sac, m)
       THEN ServerRaises(n)
       ELSE IF m.vals.STATUS # "ok"
       THEN ServerCloses(n)
       ELSE /\ ServerGoesOn(n, "ready", [ssess[n] EXCEPT !.sac = sac])
            /\ UNCHANGED <<toClient, sup>>
    /\ UNCHANGED sctx

ServerRecvFails_NotAtEnd(n) ==
    /\ spc[n] \in DOMAIN ServerWants /\ toServer[n] # <<>>
    /\ Head(toServer[n]).tag # ServerWants[spc[n]]
    /\ ServerCloses(n)
    /\ UNCHANGED sctx

(* recv raises: a garbled or unexpected frame, or the master's end is gone. *)
(* In the service loop ("ready") only the end of the stream matters here.   *)
ServerRecvFails(n) ==
    /\ \/ /\ spc[n] \in DOMAIN ServerWants /\ toServer[n] # <<>>
          /\ Head(toServer[n]).tag # ServerWants[spc[n]]
       \/ spc[n] \in DOMAIN ServerWants \cup {"ready"} /\ cpc[n] = "closed"
    /\ ServerCloses(n)
    /\ UNCHANGED sctx

ServerHandshake(n) ==
    /\ \/ ServerOpens(n) \/ ServerReauthenticates(n) \/ ServerVerifies(n)
       \/ ServerAgrees(n) \/ ServerChecksAkh(n) \/ ServerSaves(n)
       \/ ServerInitsSac(n) \/ ServerSyncsSac(n) \/ ServerUpdatesKey(n)
       \/ ServerSyncsKey(n) \/ ServerRecvFails(n)
    /\ UNCHANGED <<client, target, pki, incidents>>

-----------------------------------------------------------------------------
(* Incidents *)

Incident(kind) ==
    /\ kind \in Incidents
    /\ incidents < MaxIncidents
    /\ incidents' = incidents + 1

(* Noise on the line: the oldest frame of a direction is garbled or lost *)
LineNoise(n) ==
    /\ \/ /\ toClient[n] # <<>> /\ cpc[n] \in DOMAIN ClientWants
          /\ \/ /\ Incident("garble")
                /\ toClient' = Jammed(toClient, n)
             \/ /\ Incident("lose")
                /\ toClient' = Taken(toClient, n)
          /\ UNCHANGED toServer
       \/ /\ toServer[n] # <<>> /\ spc[n] \in DOMAIN ServerWants
          /\ \/ /\ Incident("garble")
                /\ toServer' = Jammed(toServer, n)
             \/ /\ Incident("lose")
                /\ toServer' = Taken(toServer, n)
          /\ UNCHANGED toClient
    /\ UNCHANGED <<client, server, target, pki>>

(* The 10 s timeout of the master's socket expires: because no frame will   *)
(* come any more, or (an incident) because the slave is slow to answer      *)
NothingComes(n) ==
    /\ toClient[n] = <<>> /\ toServer[n] = <<>>
    /\ spc[n] \in DOMAIN ServerWants
ClientTimeout(n) ==
    /\ cpc[n] \in DOMAIN ClientWants /\ NothingComes(n)
    /\ ClientFails(n)
    /\ UNCHANGED <<cctx, identity, server, target, pki, incidents>>
SlowAnswer(n) ==
    /\ cpc[n] \in DOMAIN ClientWants /\ toClient[n] = <<>> /\ ~NothingComes(n)
    /\ Incident("timeout")
    /\ ClientFails(n)
    /\ UNCHANGED <<cctx, identity, server, target, pki>>

(* The master process stops and a new MasterClient loads the identity; if    *)
(* that raises there is none until start_master is asked again.             *)
(* Killed while it saves, it leaves the old file, a torn one or the new one *)
RestartMaster ==
    LET saving == {n \in Opened : cpc[n] = "save"} IN
    /\ IF saving = {}
       THEN Incident("restart_master") /\ UNCHANGED cctx
       ELSE /\ Incident("kill_master_in_save")
            /\ cctx' \in {cctx, TornContext} \cup {ContextOf(csess[n]) : n \in saving}
    /\ identity' = IF Loadable("client") THEN load_identity("client") ELSE NoIdentity
    /\ cpc' = [n \in Conns |-> IF n \in Opened THEN "closed" ELSE "none"]
    /\ csess' = [n \in Conns |-> NewSession]
    /\ toClient' = [n \in Conns |-> <<>>]
    /\ UNCHANGED <<toServer, server, target, pki>>

(* The slave process is killed; in the middle of save_context it may leave  *)
(* a torn file                                                             *)
CrashSlave(s) ==
    LET saving == \E n \in Opened : target[n] = s /\ spc[n] = "save" IN
    /\ sup[s] = "up"
    /\ SlaveEnds(s, "down")
    /\ IF saving
       THEN /\ Incident("kill_slave_in_save")
            /\ sctx' \in {sctx, [sctx EXCEPT ![s] = TornContext]}
       ELSE Incident("crash_slave") /\ UNCHANGED sctx
    /\ UNCHANGED <<client, target, pki>>

(* The operator starts the slave process again *)
RestartSlave(s) ==
    /\ sup[s] \in {"down", "died"}
    /\ sup' = [sup EXCEPT ![s] = "up"]
    /\ UNCHANGED <<spc, ssess, sctx, client, link, target, pki, incidents>>

(* rm -rf of the state directory of one side; a running session keeps its   *)
(* copy of the context in memory                                           *)
DeleteState ==
    /\ \/ /\ Incident("delete_master_state")
          /\ cctx' = NoContext /\ UNCHANGED sctx
       \/ \E s \in Slaves :
          /\ Incident("delete_slave_state")
          /\ sctx' = [sctx EXCEPT ![s] = NoContext] /\ UNCHANGED cctx
    /\ UNCHANGED <<cpc, csess, identity, spc, ssess, sup, link, target, pki>>

StartMaster ==
    /\ identity = NoIdentity /\ Loadable("client")
    /\ identity' = load_identity("client")
    /\ UNCHANGED <<cpc, csess, cctx, link, server, target, pki, incidents>>

(* init_demo_pki, from the page or as a command: new keys and certificates   *)
(* for the same device ids, file by file.  One that is killed goes on no     *)
(* more, and may be followed by another.                                     *)
RegeneratePki ==
    /\ Incident("regenerate_pki")
    /\ pki.generation <= MaxPki
    /\ pki' = [pki EXCEPT !.generation = @ + 1, !.next = 1]
    /\ UNCHANGED <<client, server, link, target>>

(* write_text and write_bytes cut the file to nothing when they open it, and *)
(* write it when they close it                                               *)
WritePki ==
    /\ pki.next \in DOMAIN PkiFiles
    /\ LET f == PkiFiles[pki.next] IN
       pki' = IF pki.file[f] # Torn
              THEN [pki EXCEPT !.file[f] = Torn]
              ELSE [pki EXCEPT !.file[f] = pki.generation, !.next = @ + 1]
    /\ UNCHANGED <<client, server, link, target, incidents>>

-----------------------------------------------------------------------------
Init ==
    /\ target = <<>>
    /\ cpc = [n \in Conns |-> "none"]
    /\ csess = [n \in Conns |-> NewSession]
    /\ spc = [n \in Conns |-> "none"]
    /\ ssess = [n \in Conns |-> NewSession]
    /\ toClient = [n \in Conns |-> <<>>]
    /\ toServer = [n \in Conns |-> <<>>]
    /\ cctx = NoContext
    /\ sctx = [s \in Slaves |-> NoContext]
    /\ sup = [s \in Slaves |-> "up"]
    /\ pki = [generation |-> 1, next |-> Len(PkiFiles) + 1,
              file |-> [f \in Range(PkiFiles) |-> 1]]
    /\ identity = load_identity("client") /\ incidents = 0

MasterNext ==
    \/ StartMaster \/ \E s \in Slaves : Connect(s)
    \/ \E n \in Opened : \/ ClientHandshake(n) \/ ClientSaves(n)
                         \/ ClientTimeout(n) \/ ReleaseSocket(n) \/ Close(n)
SlaveNext ==
    \/ \E s \in Slaves : Accept(s) \/ AcceptRaises(s) \/ RestartSlave(s)
    \/ \E n \in Opened : ServerHandshake(n)
IncidentNext ==
    \/ \E n \in Opened : LineNoise(n) \/ SlowAnswer(n)
    \/ \E s \in Slaves : CrashSlave(s)
    \/ RestartMaster \/ DeleteState \/ RegeneratePki \/ WritePki

Next == MasterNext \/ SlaveNext \/ IncidentNext

Spec == Init /\ [][Next]_vars

-----------------------------------------------------------------------------
(* Properties *)

(* Type correctness of the control state *)
TypeOK ==
    /\ target \in Seq(Slaves) /\ Len(target) <= MaxConnects
    /\ cpc \in [Conns -> ClientPcs] /\ spc \in [Conns -> ServerPcs]
    /\ cctx.file \in {"absent", "torn", "saved"}
    /\ \A s \in Slaves : sctx[s].file \in {"absent", "torn", "saved"}
    /\ sup \in [Slaves -> {"up", "down", "died"}]
    /\ pki \in [generation : Generations, next : 1..(Len(PkiFiles) + 1),
                file : [Range(PkiFiles) -> Generations]]
    /\ identity \in [root : Generations, brand : Generations, device : Generations]
    /\ incidents \in 0..MaxIncidents

(* When both ends of a connection serve requests they hold the same unicast *)
(* and broadcast content keys, each knows the other by the id in its        *)
(* certificate, and each SAC counter is where the other end's is: whether   *)
(* the keys come from certificates or from context files of other sessions. *)
KeyAgreement ==
    \A n \in Opened : cpc[n] = "ready" /\ spc[n] = "ready" =>
        LET c == csess[n] s == ssess[n] IN
        /\ c.ck = s.ck /\ c.bck = s.bck /\ c.ck # NoKey
        /\ c.peer = MyId(n) /\ s.peer = ClientId
        /\ c.auth = s.auth /\ c.dhsk = s.dhsk
        /\ c.sac.key = s.sac.key
        /\ c.sac.send = s.sac.recv /\ s.sac.send = c.sac.recv

(* The slave enters its service loop only on a connection on which the      *)
(* master finished the handshake: it never waits for requests of a master   *)
(* that rejected the session.                                               *)
ServesOnlyTheReady ==
    \A n \in Opened : spc[n] = "ready" => cpc[n] \in {"ready", "closed"}

(* SlaveSurvives (slave_server.py:47-83): the exceptions main() does not     *)
(* catch (KeyError, InvalidSignature, ValueError) are reached at two points  *)
(* only, when a slave that serves nobody loads its identity while a PKI file *)
(* is torn, and when it loads a torn context file.  Nothing a master sends,  *)
(* no context of another session, no identity that is old or made of two     *)
(* generations, and no noise ends it in the middle of a handshake.           *)
LoadsTornFile(s) ==
    \/ ~Busy(s) /\ Backlog(s) # {} /\ ~Loadable("server")
    \/ \E n \in Opened : target[n] = s /\ spc[n] = "open_cnf" /\ sctx[s].file = "torn"
SlaveSurvives ==
    [][\A s \in Slaves : sup[s] = "up" /\ sup'[s] = "died" => LoadsTornFile(s)]_vars

(* SameGeneration (pki.py:30-36, crypto.py:130-163): a slave that has         *)
(* verified the master's certificates holds an identity of one generation,  *)
(* and the master, if it is still there, holds one of the same: of two ends  *)
(* that loaded while the PKI was rewritten, none verifies the other with a   *)
(* root certificate that is not its own brand's.                            *)
Whole(id) == id.root = id.brand /\ id.brand = id.device
SameGeneration ==
    \A n \in Opened : spc[n] \in {"rh", "akh", "save"} =>
        /\ Whole(ssess[n].identity)
        /\ cpc[n] \notin {"failed", "closed"} => identity = ssess[n].identity

(* What a slave has saved the master can answer for: its own file holds the *)
(* same key, or it is between sending the AKH and saving it.                *)
InStep(s) ==
    \/ cctx.file = "saved" /\ cctx.auth = sctx[s].auth
    \/ \E n \in Opened : cpc[n] = "save" /\ csess[n].auth = sctx[s].auth
ContextsInStep == \A s \in Slaves : sctx[s].file = "saved" => InStep(s)

-----------------------------------------------------------------------------
(* Why the keys agree.  The master's end answers for the key of its SAC as  *)
(* soon as its SAC_DATA_CNF is on the way; a slave that could check the MAC *)
(* of that frame has the same key, and so the same DHSK and AUTH.           *)

IsSac(sac) == sac = [key |-> sac.key, send |-> sac.send, recv |-> sac.recv]
Fields(sess) ==
    [peer |-> sess.peer, dhsk |-> sess.dhsk, auth |-> sess.auth, sac |-> sess.sac,
     ck |-> sess.ck, bck |-> sess.bck, identity |-> sess.identity]
IsSession(sess) == sess = Fields(sess) /\ IsSac(sess.sac)
IsQueue(queue) == queue \in Seq(Range(queue))

SessionShapes(sess) ==
    sess = [n \in Conns |-> sess[n]] /\ \A n \in Conns : IsSession(sess[n])
QueueShapes(queues) ==
    queues = [n \in Conns |-> queues[n]] /\ \A n \in Conns : IsQueue(queues[n])
Shapes ==
    /\ SessionShapes(csess) /\ SessionShapes(ssess)
    /\ QueueShapes(toClient) /\ QueueShapes(toServer)
    /\ sctx = [s \in Slaves |-> sctx[s]]

(* A connection nobody opened is untouched *)
Untouched(n) ==
    n \notin Opened => /\ cpc[n] = "none" /\ spc[n] = "none"
                       /\ toClient[n] = <<>> /\ toServer[n] = <<>>

Keyed(sess, send, recv) ==
    /\ sess.sac.key.dhsk = sess.dhsk /\ sess.sac.key.auth = sess.auth
    /\ sess.sac.send = send /\ sess.sac.recv = recv

ClientSide(n) ==
    LET c == csess[n] IN
    /\ cpc[n] \in {"sac_sync", "ck_req"} => Keyed(c, 1, 1)
    /\ cpc[n] = "ck_sync" => Keyed(c, 2, 2)
    /\ cpc[n] = "ready" => Keyed(c, 3, 3)
    /\ cpc[n] \in {"ck_sync", "ready"} =>
          /\ c.peer = MyId(n)
          /\ c.ck = ContentKey(n, MyId(n)) /\ c.bck = ContentKey(n, ClientId)

(* ServerSide holds SameSac: a master that is still there has the slave's key *)
SameSac(n, key) ==
    cpc[n] \notin {"failed", "closed"} =>
        cpc[n] \in {"ck_sync", "ready"} /\ csess[n].sac.key = key

ServerSide(n) ==
    LET s == ssess[n] IN
    /\ spc[n] = "sac_sync" => Keyed(s, 1, 1)
    /\ spc[n] = "ck_cnf" => Keyed(s, 2, 1)
    /\ spc[n] = "ck_sync" => Keyed(s, 3, 2)
    /\ spc[n] = "ready" => Keyed(s, 3, 3) /\ cpc[n] \in {"ready", "closed"}
    /\ spc[n] \in {"ck_sync", "ready"} =>
          /\ SameSac(n, s.sac.key)
          /\ s.peer = ClientId
          /\ s.ck = ContentKey(n, MyId(n)) /\ s.bck = ContentKey(n, ClientId)

FramesToClient(n) == \A m \in Range(toClient[n]) :
    m.tag = "SAC_DATA_REQ" => m.vals.SERVER_ID = MyId(n) /\ m.vals.KP = n

FramesToServer(n) == \A m \in Range(toServer[n]) :
    /\ m.tag = "SAC_DATA_CNF" =>
          m.vals.CLIENT_ID = ClientId /\ m.vals.KP = n /\ SameSac(n, m.key)
    /\ m.tag = "SAC_SYNC_CNF" => cpc[n] \in {"ready", "closed"}

Agreed(n) ==
    /\ Untouched(n) /\ ClientSide(n) /\ ServerSide(n)
    /\ FramesToClient(n) /\ FramesToServer(n)

(* An end has a content key only from the key update to its end, and the    *)
(* slave has one, or is gone, by the time its SAC_SYNC_REQ can be read       *)
SlaveKeyed(n) == spc[n] \in {"ck_sync", "ready", "closed"}
KeysHeld(n) ==
    /\ cpc[n] \notin {"ck_sync", "ready"} => csess[n].ck = NoKey
    /\ spc[n] \notin {"ck_sync", "ready"} => ssess[n].ck = NoKey
    /\ cpc[n] = "ready" => SlaveKeyed(n)
    /\ \A m \in Range(toClient[n]) : m.tag = "SAC_SYNC_REQ" => SlaveKeyed(n)

(* The inductive invariant: KeyAgreement and ServesOnlyTheReady are not, for *)
(* they say nothing of what is on the way.                                   *)
AgreementInvariant ==
    TypeOK /\ Shapes /\ \A n \in Conns : Agreed(n) /\ KeysHeld(n)

-----------------------------------------------------------------------------
(* Liveness.  Both programs keep running when they can, a dead slave is     *)
(* started again, and the requests of the web page make the master connect. *)
(* Incidents, and the end of an established session, need not happen.       *)

MasterRuns(n) ==
    n \in Opened /\ (\/ ClientHandshake(n) \/ ClientSaves(n)
                     \/ ClientTimeout(n) \/ ReleaseSocket(n))
Fairness ==
    /\ WF_vars(\E s \in Slaves : Connect(s))
    /\ \A s \in Slaves : WF_vars(Accept(s) \/ AcceptRaises(s)) /\ WF_vars(RestartSlave(s))
    /\ \A n \in Conns : /\ WF_vars(MasterRuns(n))
                        /\ WF_vars(n \in Opened /\ ServerHandshake(n))
FairSpec == Spec /\ Fairness

(* A connection opened after the last incident completes the handshake, by  *)
(* re-authentication or, where a side has no context, by certificates.      *)
QuietAttemptSucceeds ==
    \A n \in Conns :
        (cpc[n] = "open_req" /\ spc[n] = "none" /\ incidents = MaxIncidents)
            ~> (cpc[n] = "ready")

(* The single-threaded accept loop is freed of every connection the master  *)
(* has given up, also of those connect() never closed: again and again the  *)
(* slave holds none of them.                                                *)
SlaveFreed ==
    []<>(\A n \in Conns : cpc[n] \in {"failed", "closed"} => ~ServerAlive(n))

-----------------------------------------------------------------------------
(* What a connection promises, see SecureChannel *)

EndState(pc, key) ==
    CASE pc \in {"failed", "closed"} -> "over"
      [] pc = "ready" -> "ready"
      [] pc \notin {"failed", "closed", "ready"} /\ key # NoKey -> "keyed"
      [] OTHER -> "opening"

Promise == INSTANCE SecureChannel WITH
    MasterFirst <- TRUE,
    mst <- [n \in Conns |-> EndState(cpc[n], csess[n].ck)],
    sst <- [n \in Conns |-> EndState(spc[n], ssess[n].ck)],
    mkey <- [n \in Conns |-> csess[n].ck],
    skey <- [n \in Conns |-> ssess[n].ck]

(* Every step of the handshake is a step of SecureChannel or leaves it alone *)
PromiseKept == Promise!Spec
=============================================================================
